----------------------------- MODULE CApiProofs -----------------------------
(***************************************************************************)
(* Proofs about Conversions and CApi for integers of any width, any Python *)
(* integers, any words in a C client's requests and batches of any length. *)
(***************************************************************************)
EXTENDS CApi, TLAPS

-----------------------------------------------------------------------------
(* Conversions *)

\* The widths are numbers, and not trivial.
LEMMA Widths == Half \in Nat /\ Half > 1 /\ Word \in Nat /\ Word > 1
<1>1. Half * Half \in Nat /\ Half * Half > 1
  BY HalfAssumption
<1> QED BY <1>1, HalfAssumption DEF Word

\* The requests that the adapters accept.
Sound(r) ==
  /\ r.flags \in {0, INLINE}
  /\ r.opcode \in {WRITE, READ, SEND, RECV, WRITE_IMM, COMPARE_SWAP, FETCH_ADD}
  /\ r.flags = INLINE => r.opcode \in {WRITE, SEND, WRITE_IMM}

\* No adapter accepts a request that is not sound.
LEMMA NotSound ==
  ASSUME NEW r, ~Sound(r)
  PROVE  CppRequest(r) = Refused /\ RustRequest(r) = Refused /\ ~CAccepts(r)
<1>1. ~CAccepts(r)
  BY DEF Sound, CAccepts
<1>2. CppRequest(r) = Refused
  BY DEF Sound, CppRequest, WRITE, READ, SEND, RECV, WRITE_IMM,
     COMPARE_SWAP, FETCH_ADD, INLINE
<1>3. RustRequest(r) = Refused
  BY DEF Sound, RustRequest, WRITE, READ, SEND, RECV, WRITE_IMM,
     COMPARE_SWAP, FETCH_ADD, INLINE
<1> QED BY <1>1, <1>2, <1>3

\* What a sound request is read as.
LEMMA SoundRead ==
  ASSUME NEW r, Sound(r)
  PROVE  /\ CAccepts(r)
         /\ r.opcode = WRITE => CppRequest(r) = Write(RemoteAddress(r), r.flags = INLINE)
         /\ r.opcode = READ => CppRequest(r) = Read(RemoteAddress(r))
         /\ r.opcode = SEND => CppRequest(r) = Send(r.flags = INLINE)
         /\ r.opcode = RECV => CppRequest(r) = Recv
         /\ r.opcode = WRITE_IMM =>
              CppRequest(r) = WriteImm(RemoteAddress(r), Immediate(r), r.flags = INLINE)
         /\ r.opcode = COMPARE_SWAP =>
              CppRequest(r) = CompareSwap(RemoteAddress(r), Compare(r), Value(r))
         /\ r.opcode = FETCH_ADD => CppRequest(r) = FetchAdd(RemoteAddress(r), Value(r))
<1>1. CAccepts(r)
  BY DEF Sound, CAccepts
<1> USE DEF Sound, CppRequest, WRITE, READ, SEND, RECV, WRITE_IMM, COMPARE_SWAP,
            FETCH_ADD, INLINE
<1>2. ASSUME r.opcode = WRITE
      PROVE  CppRequest(r) = Write(RemoteAddress(r), r.flags = INLINE)
  BY <1>2
<1>3. ASSUME r.opcode = READ PROVE CppRequest(r) = Read(RemoteAddress(r))
  BY <1>3
<1>4. ASSUME r.opcode = SEND PROVE CppRequest(r) = Send(r.flags = INLINE)
  BY <1>4
<1>5. ASSUME r.opcode = RECV PROVE CppRequest(r) = Recv
  BY <1>5
<1>6. ASSUME r.opcode = WRITE_IMM
      PROVE  CppRequest(r) = WriteImm(RemoteAddress(r), Immediate(r), r.flags = INLINE)
  BY <1>6
<1>7. ASSUME r.opcode = COMPARE_SWAP
      PROVE  CppRequest(r) = CompareSwap(RemoteAddress(r), Compare(r), Value(r))
  BY <1>7
<1>8. ASSUME r.opcode = FETCH_ADD
      PROVE  CppRequest(r) = FetchAdd(RemoteAddress(r), Value(r))
  BY <1>8
<1> HIDE DEF Sound, CppRequest, WRITE, READ, SEND, RECV, WRITE_IMM, COMPARE_SWAP,
             FETCH_ADD, INLINE
<1> QED BY <1>1, <1>2, <1>3, <1>4, <1>5, <1>6, <1>7, <1>8

\* ffi.rs reads a sound request as ffi.cpp does.
LEMMA SameRead == ASSUME NEW r, Sound(r) PROVE RustRequest(r) = CppRequest(r)
<1> USE DEF Sound, RustRequest, WRITE, READ, SEND, RECV, WRITE_IMM, COMPARE_SWAP,
            FETCH_ADD, INLINE
<1>1. CASE r.opcode = WRITE
  <2>1. RustRequest(r) = Write(RemoteAddress(r), r.flags = INLINE)
    BY <1>1
  <2> QED BY <1>1, <2>1, SoundRead
<1>2. CASE r.opcode = READ
  <2>1. RustRequest(r) = Read(RemoteAddress(r))
    BY <1>2
  <2> QED BY <1>2, <2>1, SoundRead
<1>3. CASE r.opcode = SEND
  <2>1. RustRequest(r) = Send(r.flags = INLINE)
    BY <1>3
  <2> QED BY <1>3, <2>1, SoundRead
<1>4. CASE r.opcode = RECV
  <2>1. RustRequest(r) = Recv
    BY <1>4
  <2> QED BY <1>4, <2>1, SoundRead
<1>5. CASE r.opcode = WRITE_IMM
  <2>1. RustRequest(r) = WriteImm(RemoteAddress(r), Immediate(r), r.flags = INLINE)
    BY <1>5
  <2> QED BY <1>5, <2>1, SoundRead
<1>6. CASE r.opcode = COMPARE_SWAP
  <2>1. RustRequest(r) = CompareSwap(RemoteAddress(r), Compare(r), Value(r))
    BY <1>6
  <2> QED BY <1>6, <2>1, SoundRead
<1>7. CASE r.opcode = FETCH_ADD
  <2>1. RustRequest(r) = FetchAdd(RemoteAddress(r), Value(r))
    BY <1>7
  <2> QED BY <1>7, <2>1, SoundRead
<1> QED BY <1>1, <1>2, <1>3, <1>4, <1>5, <1>6, <1>7

\* A request whose union holds C integers is read as operations of C's widths.
LEMMA ReadWidths ==
  ASSUME NEW r, Sound(r), r.args \in [1..3 -> 0..Word-1]
  PROVE  CppRequest(r) \in NativeOperations
<1>1. /\ RemoteAddress(r) \in 0..Word-1 /\ Compare(r) \in 0..Word-1
      /\ Value(r) \in 0..Word-1
  BY DEF RemoteAddress, Compare, Value
<1>2. Immediate(r) \in 0..Half-1
  BY <1>1, Widths DEF Immediate, Compare
<1>3. (r.flags = INLINE) \in BOOLEAN
  OBVIOUS
<1>4. /\ \A x \in 0..Word-1, b \in BOOLEAN : Write(x, b) \in NativeOperations
      /\ \A x \in 0..Word-1 : Read(x) \in NativeOperations
      /\ \A b \in BOOLEAN : Send(b) \in NativeOperations
      /\ Recv \in NativeOperations
  BY DEF NativeOperations, Operations
<1>5. \A x \in 0..Word-1, y \in 0..Half-1, b \in BOOLEAN :
        WriteImm(x, y, b) \in NativeOperations
  BY DEF NativeOperations, Operations
<1>6. \A x, y, z \in 0..Word-1 : CompareSwap(x, y, z) \in NativeOperations
  BY DEF NativeOperations, Operations
<1>7. \A x, z \in 0..Word-1 : FetchAdd(x, z) \in NativeOperations
  BY DEF NativeOperations, Operations
<1> QED BY <1>1, <1>2, <1>3, <1>4, <1>5, <1>6, <1>7, SoundRead DEF Sound

\* Nothing an engine may be given is the sign of a refusal.
LEMMA OperationIsOne == \A o \in NativeOperations : o # Refused
<1> SUFFICES ASSUME NEW o \in NativeOperations PROVE o.op # Refused.op
  OBVIOUS
<1> QED BY DEF NativeOperations, Operations, Write, Read, Send, Recv, WriteImm,
     CompareSwap, FetchAdd, Refused

\* Whatever its union holds, a sound request is read.
LEMMA ReadIsOne == ASSUME NEW r, Sound(r) PROVE CppRequest(r) # Refused
<1> SUFFICES CppRequest(r).op # Refused.op
  OBVIOUS
<1> QED BY SoundRead DEF Sound, Write, Read, Send, Recv, WriteImm, CompareSwap,
     FetchAdd, Refused

\* Both adapters read any request alike, and engine.c refuses what they refuse.
LEMMA RequestsAlike ==
  ASSUME NEW r
  PROVE  /\ CppRequest(r) = RustRequest(r)
         /\ CAccepts(r) <=> CppRequest(r) # Refused
BY NotSound, SoundRead, SameRead, ReadIsOne

\* An operation that fits arrives as it is, however wide a C integer is.
THEOREM RoundTrip ==
  ASSUME NEW o \in NativeOperations
  PROVE  /\ Sound(EncodeRequest(o))
         /\ EncodeRequest(o).args \in [1..3 -> 0..Word-1]
         /\ CppRequest(EncodeRequest(o)) = o
<1>0. /\ Word \in Nat /\ Half \in Nat /\ 0 \in 0..Word-1
      /\ \A y \in 0..Half-1 : y \in 0..Word-1 /\ y % Half = y
  <2>1. Half <= Half * Half
    BY HalfAssumption
  <2>2. Half <= Word
    BY <2>1 DEF Word
  <2> QED BY <2>2, Widths
<1> DEFINE e == EncodeRequest(o)
           Arrives == /\ Sound(e) /\ e.args \in [1..3 -> 0..Word-1]
                      /\ CppRequest(e) = o
<1>1. ASSUME NEW x \in 0..Word-1, NEW b \in BOOLEAN, o = Write(x, b)
      PROVE  Arrives
  <2>1. o.op = "Write" /\ Fits(o)
    BY <1>1 DEF Write, Fits
  <2>2. e = [opcode |-> WRITE, flags |-> IF b THEN INLINE ELSE 0, args |-> <<x, 0, 0>>]
    BY <1>1, <2>1 DEF EncodeRequest, Opcode, Write
  <2>3. Sound(e) /\ e.args \in [1..3 -> 0..Word-1] /\ e.opcode = WRITE
    BY <1>0, <2>2 DEF Sound, INLINE
  <2> HIDE DEF e
  <2>4. CppRequest(e) = Write(x, b)
    BY <1>0, <2>2, <2>3, SoundRead DEF RemoteAddress, Immediate, Compare, Value, INLINE
  <2> QED BY <1>1, <2>3, <2>4
<1>2. ASSUME NEW x \in 0..Word-1, o = Read(x)
      PROVE  Arrives
  <2>1. o.op = "Read" /\ Fits(o)
    BY <1>2 DEF Read, Fits
  <2>2. e = [opcode |-> READ, flags |-> 0, args |-> <<x, 0, 0>>]
    BY <1>2, <2>1 DEF EncodeRequest, Opcode, Read
  <2>3. Sound(e) /\ e.args \in [1..3 -> 0..Word-1] /\ e.opcode = READ
    BY <1>0, <2>2 DEF Sound, INLINE
  <2> HIDE DEF e
  <2>4. CppRequest(e) = Read(x)
    BY <1>0, <2>2, <2>3, SoundRead DEF RemoteAddress, Immediate, Compare, Value, INLINE
  <2> QED BY <1>2, <2>3, <2>4
<1>3. ASSUME NEW b \in BOOLEAN, o = Send(b)
      PROVE  Arrives
  <2>1. o.op = "Send" /\ Fits(o)
    BY <1>3 DEF Send, Fits
  <2>2. e = [opcode |-> SEND, flags |-> IF b THEN INLINE ELSE 0, args |-> <<0, 0, 0>>]
    BY <1>3, <2>1 DEF EncodeRequest, Opcode, Send
  <2>3. Sound(e) /\ e.args \in [1..3 -> 0..Word-1] /\ e.opcode = SEND
    BY <1>0, <2>2 DEF Sound, INLINE
  <2> HIDE DEF e
  <2>4. CppRequest(e) = Send(b)
    BY <1>0, <2>2, <2>3, SoundRead DEF RemoteAddress, Immediate, Compare, Value, INLINE
  <2> QED BY <1>3, <2>3, <2>4
<1>4. ASSUME o = Recv
      PROVE  Arrives
  <2>1. o.op = "Recv" /\ Fits(o)
    BY <1>4 DEF Recv, Fits
  <2>2. e = [opcode |-> RECV, flags |-> 0, args |-> <<0, 0, 0>>]
    BY <1>4, <2>1 DEF EncodeRequest, Opcode, Recv
  <2>3. Sound(e) /\ e.args \in [1..3 -> 0..Word-1] /\ e.opcode = RECV
    BY <1>0, <2>2 DEF Sound, INLINE
  <2> HIDE DEF e
  <2>4. CppRequest(e) = Recv
    BY <1>0, <2>2, <2>3, SoundRead DEF RemoteAddress, Immediate, Compare, Value, INLINE
  <2> QED BY <1>4, <2>3, <2>4
<1>5. ASSUME NEW x \in 0..Word-1, NEW y \in 0..Half-1, NEW b \in BOOLEAN, o = WriteImm(x, y, b)
      PROVE  Arrives
  <2>1. o.op = "WriteImm" /\ Fits(o)
    BY <1>5 DEF WriteImm, Fits
  <2>2. e = [opcode |-> WRITE_IMM, flags |-> IF b THEN INLINE ELSE 0, args |-> <<x, y, 0>>]
    BY <1>5, <2>1 DEF EncodeRequest, Opcode, WriteImm
  <2>3. Sound(e) /\ e.args \in [1..3 -> 0..Word-1] /\ e.opcode = WRITE_IMM
    BY <1>0, <2>2 DEF Sound, INLINE
  <2> HIDE DEF e
  <2>4. CppRequest(e) = WriteImm(x, y, b)
    BY <1>0, <2>2, <2>3, SoundRead DEF RemoteAddress, Immediate, Compare, Value, INLINE
  <2> QED BY <1>5, <2>3, <2>4
<1>6. ASSUME NEW x \in 0..Word-1, NEW y \in 0..Word-1, NEW z \in 0..Word-1, o = CompareSwap(x, y, z)
      PROVE  Arrives
  <2>1. o.op = "CompareSwap" /\ Fits(o)
    BY <1>6 DEF CompareSwap, Fits
  <2>2. e = [opcode |-> COMPARE_SWAP, flags |-> 0, args |-> <<x, y, z>>]
    BY <1>6, <2>1 DEF EncodeRequest, Opcode, CompareSwap
  <2>3. Sound(e) /\ e.args \in [1..3 -> 0..Word-1] /\ e.opcode = COMPARE_SWAP
    BY <1>0, <2>2 DEF Sound, INLINE
  <2> HIDE DEF e
  <2>4. CppRequest(e) = CompareSwap(x, y, z)
    BY <1>0, <2>2, <2>3, SoundRead DEF RemoteAddress, Immediate, Compare, Value, INLINE
  <2> QED BY <1>6, <2>3, <2>4
<1>7. ASSUME NEW x \in 0..Word-1, NEW z \in 0..Word-1, o = FetchAdd(x, z)
      PROVE  Arrives
  <2>1. o.op = "FetchAdd" /\ Fits(o)
    BY <1>7 DEF FetchAdd, Fits
  <2>2. e = [opcode |-> FETCH_ADD, flags |-> 0, args |-> <<x, 0, z>>]
    BY <1>7, <2>1 DEF EncodeRequest, Opcode, FetchAdd
  <2>3. Sound(e) /\ e.args \in [1..3 -> 0..Word-1] /\ e.opcode = FETCH_ADD
    BY <1>0, <2>2 DEF Sound, INLINE
  <2> HIDE DEF e
  <2>4. CppRequest(e) = FetchAdd(x, z)
    BY <1>0, <2>2, <2>3, SoundRead DEF RemoteAddress, Immediate, Compare, Value, INLINE
  <2> QED BY <1>7, <2>3, <2>4
<1> QED BY <1>1, <1>2, <1>3, <1>4, <1>5, <1>6, <1>7 DEF NativeOperations, Operations

-----------------------------------------------------------------------------
(* Statuses *)

\* No two results share a code, so a code names its error.
LEMMA CodesDiffer ==
  /\ \A e \in Errors : Code[e] # Code.OK /\ ErrorName(Code[e]) = e
  /\ \A e, f \in Errors : Code[e] = Code[f] => e = f
<1>0. Errors = {"UNIMPLEMENTED", "INVALID", "BUSY", "IO_ERROR", "TIMEOUT",
                "UNSUPPORTED", "NO_MEMORY", "INVALID_STATE", "CANCELED"}
  BY DEF Errors, Code
<1>1. \A e, f \in Errors : Code[e] = Code[f] => e = f
  BY <1>0 DEF Code
<1>2. \A e \in Errors : Code[e] # Code.OK
  BY <1>0 DEF Code
<1> QED BY <1>1, <1>2 DEF ErrorName

\* What an engine may say of a task without an abort of the adapter.
Sayings ==
  {Pending, Completed} \cup {Failed(e) : e \in Errors}
    \cup {Message(n) : n \in Nat} \cup {WriteNotice(n) : n \in Nat}

\* What Python makes of it for a task of this kind.
Reported(t, kind) ==
  IF Promised(t, kind) THEN t
  ELSE IF kind = "Recv" \/ t.state = "FAILED" THEN Refused ELSE Completed

Status(state, error, kind, immediate, length) ==
  [state |-> state, error |-> error, kind |-> kind, immediate |-> immediate,
   length |-> length]

\* Both adapters write the same status.
LEMMA StatusesWritten ==
  /\ CppStatus(Pending) = Status("PENDING", Code.OK, 0, 0, 0)
  /\ CppStatus(Completed) = Status("COMPLETED", Code.OK, 0, 0, 0)
  /\ \A e \in Errors : CppStatus(Failed(e)) = Status("FAILED", Code[e], 0, 0, 0)
  /\ \A n \in Nat :
       /\ CppStatus(Message(n)) = Status("COMPLETED", Code.OK, RECV_MESSAGE, 0, n)
       /\ CppStatus(WriteNotice(n)) = Status("COMPLETED", Code.OK, RECV_WRITE_IMM, n, 0)
  /\ \A t \in Sayings : RustStatus(t) = CppStatus(t)
<1>1. ZeroStatus = Status("PENDING", Code.OK, 0, 0, 0)
  BY DEF ZeroStatus, Status
<1>2. CppStatus(Pending) = ZeroStatus /\ RustStatus(Pending) = ZeroStatus
  BY DEF CppStatus, RustStatus, Pending
<1>3. CppStatus(Completed) = Status("COMPLETED", Code.OK, 0, 0, 0)
  BY DEF CppStatus, Completed, ZeroStatus, Status
<1>4. \A e \in Errors : CppStatus(Failed(e)) = Status("FAILED", Code[e], 0, 0, 0)
  BY DEF CppStatus, Failed, ZeroStatus, Status, CppResult
<1>5. \A n \in Nat : CppStatus(Message(n)) = Status("COMPLETED", Code.OK, RECV_MESSAGE, 0, n)
  BY DEF CppStatus, Message, ZeroStatus, Status, RECV_MESSAGE
<1>6. \A n \in Nat :
        CppStatus(WriteNotice(n)) = Status("COMPLETED", Code.OK, RECV_WRITE_IMM, n, 0)
  BY DEF CppStatus, WriteNotice, ZeroStatus, Status, RECV_WRITE_IMM
<1>7. RustStatus(Completed) = Status("COMPLETED", Code.OK, 0, 0, 0)
  BY DEF RustStatus, Completed, ZeroStatus, Status
<1>8. \A e \in Errors : RustStatus(Failed(e)) = Status("FAILED", Code[e], 0, 0, 0)
  BY DEF RustStatus, Failed, ZeroStatus, Status, RustError
<1>9. \A n \in Nat : RustStatus(Message(n)) = Status("COMPLETED", Code.OK, RECV_MESSAGE, 0, n)
  BY DEF RustStatus, Message, ZeroStatus, Status, RECV_MESSAGE
<1>10. \A n \in Nat :
        RustStatus(WriteNotice(n)) = Status("COMPLETED", Code.OK, RECV_WRITE_IMM, n, 0)
  BY DEF RustStatus, WriteNotice, ZeroStatus, Status, RECV_WRITE_IMM
<1> QED BY <1>1, <1>2, <1>3, <1>4, <1>5, <1>6, <1>7, <1>8, <1>9, <1>10 DEF Sayings

\* Python learns what the engine said, or that it broke a promise.
THEOREM StatusRoundTrip ==
  ASSUME NEW t \in Sayings, NEW kind
  PROVE  /\ DecodeStatus(CppStatus(t), kind) = Reported(t, kind)
         /\ DecodeStatus(RustStatus(t), kind) = Reported(t, kind)
<1>1. DecodeStatus(CppStatus(Pending), kind) = Reported(Pending, kind)
  BY StatusesWritten DEF DecodeStatus, Reported, Promised, Status, Pending
<1>2. DecodeStatus(CppStatus(Completed), kind) = Reported(Completed, kind)
  BY StatusesWritten DEF DecodeStatus, Reported, Promised, Status, Completed,
     RECV_MESSAGE, RECV_WRITE_IMM
<1>3. ASSUME NEW e \in Errors
      PROVE  DecodeStatus(CppStatus(Failed(e)), kind) = Reported(Failed(e), kind)
  <2> DEFINE u == Status("FAILED", Code[e], 0, 0, 0)
  <2>1. CppStatus(Failed(e)) = u
    BY StatusesWritten
  <2>2. DecodeStatus(u, kind) = Failed(e)
    <3>1. u.state = "FAILED" /\ u.error = Code[e]
      BY DEF Status
    <3> HIDE DEF u
    <3> QED BY <3>1, CodesDiffer DEF DecodeStatus
  <2>3. Reported(Failed(e), kind) = Failed(e)
    BY DEF Reported, Promised, Failed
  <2> HIDE DEF u
  <2> QED BY <2>1, <2>2, <2>3
<1>4. ASSUME NEW n \in Nat
      PROVE  DecodeStatus(CppStatus(Message(n)), kind) = Reported(Message(n), kind)
  <2> DEFINE u == Status("COMPLETED", Code.OK, RECV_MESSAGE, 0, n)
  <2>1. CppStatus(Message(n)) = u
    BY StatusesWritten
  <2>2. DecodeStatus(u, kind) = IF kind # "Recv" THEN Completed ELSE Message(n)
    BY DEF DecodeStatus, Status, RECV_MESSAGE, RECV_WRITE_IMM
  <2>3. Reported(Message(n), kind) = IF kind # "Recv" THEN Completed ELSE Message(n)
    BY DEF Reported, Promised, Message
  <2> HIDE DEF u
  <2> QED BY <2>1, <2>2, <2>3
<1>5. ASSUME NEW n \in Nat
      PROVE  DecodeStatus(CppStatus(WriteNotice(n)), kind)
               = Reported(WriteNotice(n), kind)
  <2> DEFINE u == Status("COMPLETED", Code.OK, RECV_WRITE_IMM, n, 0)
  <2>1. CppStatus(WriteNotice(n)) = u
    BY StatusesWritten
  <2>2. DecodeStatus(u, kind) = IF kind # "Recv" THEN Completed ELSE WriteNotice(n)
    BY DEF DecodeStatus, Status, RECV_MESSAGE, RECV_WRITE_IMM
  <2>3. Reported(WriteNotice(n), kind) = IF kind # "Recv" THEN Completed ELSE WriteNotice(n)
    BY DEF Reported, Promised, WriteNotice
  <2> HIDE DEF u
  <2> QED BY <2>1, <2>2, <2>3
<1> QED BY <1>1, <1>2, <1>3, <1>4, <1>5, StatusesWritten DEF Sayings

-----------------------------------------------------------------------------
(* Verdicts *)

\* Requests as a C struct holds them.
Requests == [opcode : Int, flags : Int, args : [1..3 -> 0..Word-1]]

\* What the adapters look at.
ArgsOK(a) ==
  /\ a.outs \in BOOLEAN /\ a.engine \in BOOLEAN /\ a.handle \in BOOLEAN
  /\ a.memory \in BOOLEAN
  /\ a.config \in {"good", "null", "version"}
  /\ a.device \in {"null", "utf8", "other"}
  /\ a.array \in Arrays
  /\ a.items \in Seq(Requests)

\* The three verdicts on a call are alike.
Alike(v, a) ==
  /\ a.device # "other" => v.cpp = v.rust
  /\ v.c.zeroed = v.cpp.zeroed
  /\ a.memory => (v.c.result = "INVALID" <=> v.cpp.result = "INVALID")

\* One of them refuses the call or enters the engine, with zeroed outputs.
Fair(v, e, a) ==
  /\ v.result \in Errors \cup {"enter"}
  /\ v.zeroed \in BOOLEAN
  /\ e \in WithOutputs /\ a.outs => v.zeroed

Judges(e, a) ==
  LET v == Verdicts(e, a)
  IN  Alike(v, a) /\ Fair(v.cpp, e, a) /\ Fair(v.rust, e, a) /\ Fair(v.c, e, a)

\* The codes with which the adapters refuse are errors.
LEMMA ErrorsHave ==
  /\ "INVALID" \in Errors /\ "NO_MEMORY" \in Errors /\ "UNIMPLEMENTED" \in Errors
BY DEF Errors, Code

\* The adapters tell good arrays from bad ones by different conditions.
LEMMA ArraysAlike ==
  ASSUME NEW array \in Arrays, NEW aligned \in BOOLEAN
  PROVE  /\ CppArray(array, aligned) <=> RustArray(array, aligned)
         /\ CppArray(array, aligned) <=> CArray(array, IF aligned THEN 8 ELSE 1)
BY DEF CppArray, RustArray, CArray, Arrays

\* Every entry point but submit_transfer.
LEMMA Judged ==
  ASSUME NEW a, ArgsOK(a), NEW e \in Entries, e # "submit_transfer"
  PROVE  Judges(e, a)
<1>0. Copied(a, <<>>) = IF ~a.memory THEN Refuse("NO_MEMORY") ELSE Unless(FALSE, <<>>)
  BY DEF Copied
<1> USE ErrorsHave DEF Judges, Verdicts, Alike, Fair, ArgsOK, WithOutputs, Unless, Stub,
        Refuse, Call, Untouched
<1>1. CASE e \in {"destroy_engine", "create_peer"}
  BY <1>1 DEF CppDestroyEngine, RustDestroyEngine, CDestroyEngine,
     CppCreatePeer, RustCreatePeer, CCreatePeer
<1>2. CASE e \in {"deregister_local_memory", "remove_remote_memory"}
  BY <1>2 DEF CppDeregister, RustDeregister, CDeregister, CppRemove,
     RustRemove, CRemove
<1>3. CASE e \in {"destroy_peer", "free_batch"}
  BY <1>3 DEF CppDestroyPeer, RustDestroyPeer, CDestroyPeer, CppFree, RustFree,
     CFree
<1>4. CASE e \in {"register_local_memory"}
  BY <1>4, ArraysAlike DEF CppRegister, RustRegister, CRegister
<1>5. CASE e \in {"import_remote_memory", "connect_peer"}
  BY <1>5, ArraysAlike DEF CppImport, RustImport, CImport, CppConnectPeer,
     RustConnectPeer, CConnectPeer
<1>6. CASE e \in {"create_engine"}
  BY <1>6 DEF CppCreateEngine, RustCreateEngine, CCreateEngine
<1>7. CASE e \in {"get_transfer_statuses"}
  <2> DEFINE bad == ~a.engine \/ ~a.handle \/ ~CppArray(a.array, TRUE)
  <2>1. CStatuses(a) = Stub(bad)
    BY ArraysAlike DEF CStatuses
  <2>2. CASE bad
    <3>1. CppStatuses(a) = Refuse("INVALID") /\ RustStatuses(a) = Refuse("INVALID")
      BY <2>2, ArraysAlike DEF CppStatuses, RustStatuses
    <3> DEFINE v == [cpp |-> Refuse("INVALID"), rust |-> Refuse("INVALID"),
                     c |-> Refuse("INVALID")]
    <3>2. Verdicts(e, a) = v
      BY <1>7, <2>1, <2>2, <3>1
    <3>3. Alike(v, a) /\ Fair(v.cpp, e, a) /\ Fair(v.rust, e, a) /\ Fair(v.c, e, a)
      OBVIOUS
    <3> QED BY <3>2, <3>3
  <2>3. CASE ~bad
    <3>1. CppStatuses(a) = Copied(a, <<>>) /\ RustStatuses(a) = Copied(a, <<>>)
      BY <2>3, ArraysAlike DEF CppStatuses, RustStatuses
    <3> DEFINE r == IF ~a.memory THEN Refuse("NO_MEMORY") ELSE Unless(FALSE, <<>>)
               v == [cpp |-> r, rust |-> r, c |-> Refuse("UNIMPLEMENTED")]
    <3>2. Verdicts(e, a) = v
      BY <1>0, <1>7, <2>1, <2>3, <3>1
    <3>3. Alike(v, a) /\ Fair(v.cpp, e, a) /\ Fair(v.rust, e, a) /\ Fair(v.c, e, a)
      OBVIOUS
    <3> QED BY <3>2, <3>3
  <2> QED BY <2>2, <2>3
<1> QED BY <1>1, <1>2, <1>3, <1>4, <1>5, <1>6, <1>7 DEF Entries, WithHandle

\* submit_transfer: the engine is entered with every request, or not at all.
LEMMA JudgedSubmit ==
  ASSUME NEW a, ArgsOK(a)
  PROVE  /\ Judges("submit_transfer", a)
         /\ \A l \in {"cpp", "rust", "c"} :
              LET v == Verdicts("submit_transfer", a)[l] IN
              v.result = "enter" =>
                /\ v.native = [k \in DOMAIN a.items |-> CppRequest(a.items[k])]
                /\ \A k \in DOMAIN a.items : Sound(a.items[k])
<1> DEFINE x == [k \in DOMAIN a.items |-> CppRequest(a.items[k])]
           bad == ~a.engine \/ ~CppArray(a.array, TRUE)
           unread == \E k \in DOMAIN a.items : ~Sound(a.items[k])
           read == IF ~a.memory THEN Refuse("NO_MEMORY") ELSE Unless(unread, x)
<1>1. x = [k \in DOMAIN a.items |-> RustRequest(a.items[k])]
  BY RequestsAlike
<1>2. /\ (\E k \in DOMAIN x : x[k] = Refused) <=> unread
      /\ (\E k \in DOMAIN a.items : ~CAccepts(a.items[k])) <=> unread
  BY NotSound, SoundRead, ReadIsOne
<1>3. Copied(a, x) = read
  BY <1>2 DEF Copied
<1>4. CppSubmit(a) = IF ~a.outs THEN Untouched
                     ELSE IF bad THEN Refuse("INVALID") ELSE read
  BY <1>3 DEF CppSubmit
<1>5. RustSubmit(a) = IF ~a.outs THEN Untouched
                      ELSE IF bad THEN Refuse("INVALID") ELSE read
  BY <1>1, <1>3, ArraysAlike DEF RustSubmit, ArgsOK
<1>6. CSubmit(a) = IF ~a.outs THEN Untouched ELSE Stub(bad \/ unread)
  BY <1>2, ArraysAlike DEF CSubmit, ArgsOK
<1>7. Verdicts("submit_transfer", a)
        = [cpp |-> CppSubmit(a), rust |-> RustSubmit(a), c |-> CSubmit(a)]
  BY DEF Verdicts
<1>8. a.outs \in BOOLEAN /\ a.memory \in BOOLEAN
  BY DEF ArgsOK
<1> HIDE DEF x, bad, unread
<1>9. Judges("submit_transfer", a)
  <2> DEFINE v == Verdicts("submit_transfer", a)
  <2>1. v.cpp = CppSubmit(a) /\ v.rust = RustSubmit(a) /\ v.c = CSubmit(a)
    BY <1>7
  <2> HIDE DEF v
  <2>2. v.cpp = v.rust
    BY <1>4, <1>5, <2>1
  <2>3. v.c.zeroed = v.cpp.zeroed
    BY <1>4, <1>6, <2>1 DEF Unless, Stub, Refuse, Call, Untouched
  <2>4. a.memory => (v.c.result = "INVALID" <=> v.cpp.result = "INVALID")
    BY <1>4, <1>6, <2>1 DEF Unless, Stub, Refuse, Call, Untouched
  <2>5. Fair(v.cpp, "submit_transfer", a) /\ Fair(v.c, "submit_transfer", a)
    BY <1>4, <1>6, <1>8, <2>1, ErrorsHave
    DEF Fair, Unless, Stub, Refuse, Call, Untouched
  <2>6. Fair(v.rust, "submit_transfer", a)
    BY <2>2, <2>5
  <2> QED BY <2>2, <2>3, <2>4, <2>5, <2>6 DEF Judges, Alike, v
<1>10. ASSUME NEW l \in {"cpp", "rust", "c"},
              Verdicts("submit_transfer", a)[l].result = "enter"
       PROVE  Verdicts("submit_transfer", a)[l].native = x /\ ~unread
  BY <1>4, <1>5, <1>6, <1>7, <1>8, <1>10 DEF Unless, Stub, Refuse, Call, Untouched
<1> QED BY <1>9, <1>10 DEF x, unread

-----------------------------------------------------------------------------
(* Arguments *)

\* Zero is a C integer.
LEMMA ZeroWord == 0 \in 0..Word-1
BY Widths

\* Arguments with nothing wrong are well-formed.
LEMMA PlainOK == ArgsOK(Plain)
<1>1. <<>> \in Seq(Requests)
  OBVIOUS
<1> QED BY <1>1 DEF ArgsOK, Plain, Arrays

\* A C client's batches are arrays of C structs.
LEMMA BatchesOK == RawBatches \subseteq Seq(Requests) /\ <<AnyWrite>> \in Seq(Requests)
<1>1. AnyWrite \in Requests
  BY ZeroWord DEF AnyWrite, Requests, WRITE
<1>2. RawRequests \subseteq Requests
  <2> SUFFICES ASSUME NEW r \in RawRequests PROVE r \in Requests
    OBVIOUS
  <2>1. /\ r = [opcode |-> r.opcode, flags |-> r.flags, args |-> r.args]
        /\ r.opcode \in Int /\ r.flags \in Int /\ r.args \in [1..3 -> RawWords]
    BY DEF RawRequests
  <2>2. r.args \in [1..3 -> 0..Word-1]
    BY <2>1, CApiAssumption
  <2> QED BY <2>1, <2>2 DEF Requests
<1>3. ASSUME NEW r \in RawRequests, NEW n \in 1..MaxRequests, NEW j \in 1..MaxRequests
      PROVE  [k \in 1..n |-> IF k = j THEN r ELSE AnyWrite] \in Seq(Requests)
  BY <1>1, <1>2, CApiAssumption
<1> QED BY <1>1, <1>3 DEF RawBatches

\* A C client's arguments.
LEMMA ArgumentsOK == ASSUME NEW e \in Entries, NEW a \in Arguments(e) PROVE ArgsOK(a)
<1>0. ArgsOK(Plain)
  BY PlainOK
<1>1. ASSUME NEW o \in BOOLEAN, NEW g \in BOOLEAN, NEW h \in BOOLEAN, NEW r \in Arrays,
             NEW m \in BOOLEAN, NEW x \in Seq(Requests)
      PROVE  ArgsOK(Given(o, g, h, r, m, x))
  BY <1>0 DEF ArgsOK, Plain, Given
<1>2. ASSUME NEW c \in {"good", "null", "version"}, NEW d \in {"null", "utf8", "other"},
             NEW m \in BOOLEAN
      PROVE  ArgsOK(Configured(c, d, m))
  BY <1>0 DEF ArgsOK, Plain, Configured
<1>3. \A f : ArgsOK(Accessed(f))
  BY <1>0 DEF ArgsOK, Plain, Accessed
<1>4. ASSUME NEW x \in Seq(Requests), NEW m \in BOOLEAN
      PROVE  ArgsOK(Submitted(x, m))
  BY <1>0 DEF ArgsOK, Plain, Submitted
<1>5. "good" \in Arrays /\ <<>> \in Seq(Requests)
  BY DEF Arrays
<1> HIDE DEF Arrays
<1>6. CASE a \in Flawed(e)
  <2> DEFINE x == IF e = "submit_transfer" THEN <<AnyWrite>> ELSE <<>>
             A == IF e \in WithArray THEN Arrays ELSE {"good"}
  <2>1. /\ Maybe(e, WithOutputs) \subseteq BOOLEAN /\ Maybe(e, WithHandle) \subseteq BOOLEAN
        /\ A \subseteq Arrays /\ x \in Seq(Requests)
    BY <1>5, BatchesOK DEF Maybe
  <2>2. Flawed(e) = {Given(o, g, h, r, m, x) :
                       o \in Maybe(e, WithOutputs), g \in BOOLEAN,
                       h \in Maybe(e, WithHandle), r \in A, m \in BOOLEAN}
    BY DEF Flawed
  <2> HIDE DEF x, A
  <2> QED BY <1>1, <1>6, <2>1, <2>2
<1>7. CASE a \in Configs
  BY <1>2, <1>7 DEF Configs
<1>8. CASE a \in Accesses
  BY <1>3, <1>8 DEF Accesses
<1>9. CASE a \in Batches
  BY <1>4, <1>9, BatchesOK DEF Batches
<1> QED BY <1>6, <1>7, <1>8, <1>9 DEF Arguments

-----------------------------------------------------------------------------
(* The invariant *)

\* A call in the engine has left nothing but zeros so far, and nothing is left
\* of a call that has returned.
CallInv ==
  /\ ArgsOK(args)
  /\ at \in {"idle", "raised"} => entry = None
  /\ at = "inside" => entry \in Entries /\ result = None
  /\ at \in {"idle", "raised", "inside"} =>
       told = <<>> /\ results = <<>> /\ statuses = None
  /\ at = "inside" /\ entry \in WithOutputs /\ args.outs => outputs = "zero"

IInv ==
  /\ TypeOK /\ CallInv
  /\ AdaptersAgree /\ OutputsHonest /\ RequestsDelivered /\ StatusesReported

\* Nothing is no entry point, result or client.
LEMMA NoneIsNew ==
  /\ None \notin Entries /\ None \notin Errors
  /\ None # "OK" /\ None # "C" /\ None # "Python"
BY NoneAssumption

\* OK is not among the errors.
LEMMA OKIsNoError == "OK" \notin Errors
BY DEF Errors

\* The invariant holds before any call.
LEMMA InitInv == Init => IInv
<1> SUFFICES ASSUME Init PROVE IInv
  OBVIOUS
<1>1. CallInv
  BY PlainOK DEF Init, CallInv
<1>2. TypeOK
  BY DEF Init, TypeOK
<1>3. AdaptersAgree /\ OutputsHonest /\ RequestsDelivered /\ StatusesReported
  BY DEF Init, AdaptersAgree, OutputsHonest, RequestsDelivered, StatusesReported
<1> QED BY <1>1, <1>2, <1>3 DEF IInv

\* A call is judged: it returns with an error, or enters the engine.
LEMMA EnterStep ==
  ASSUME IInv, NEW c \in {"C", "Python"}, NEW e \in Entries, NEW a, ArgsOK(a),
         Enter(c, e, a), asked' \in Seq(PyOperations),
         c = "Python" /\ e = "submit_transfer" =>
           asked' = [k \in DOMAIN a.items |-> CppRequest(a.items[k])]
  PROVE  IInv'
<1> DEFINE v == Verdicts(e, a)[lang]
<1>1. lang \in {"cpp", "rust", "c"} /\ accepted \in Seq(NativeOperations)
  BY DEF IInv, TypeOK
<1>2. Judges(e, a)
  BY Judged, JudgedSubmit
<1>3. Fair(v, e, a)
  BY <1>1, <1>2 DEF Judges
<1>4. ASSUME e = "submit_transfer", v.result = "enter"
      PROVE  /\ v.native = [k \in DOMAIN a.items |-> CppRequest(a.items[k])]
             /\ v.native \in Seq(NativeOperations)
             /\ Len(v.native) = Len(a.items)
  <2>1. /\ v.native = [k \in DOMAIN a.items |-> CppRequest(a.items[k])]
        /\ \A k \in DOMAIN a.items : Sound(a.items[k])
    BY <1>1, <1>4, JudgedSubmit
  <2>2. a.items \in Seq(Requests)
    BY DEF ArgsOK
  <2>3. ASSUME NEW k \in DOMAIN a.items
        PROVE  CppRequest(a.items[k]) \in NativeOperations
    <3>1. a.items[k] \in Requests
      BY <2>2
    <3>2. a.items[k].args \in [1..3 -> 0..Word-1]
      BY <3>1 DEF Requests
    <3> QED BY <2>1, <3>2, ReadWidths
  <2> QED BY <2>1, <2>2, <2>3
<1> HIDE DEF v
<1>5. /\ client' = c /\ entry' = e /\ args' = a /\ lang' = lang /\ accepted' = accepted
      /\ outputs' = IF v.zeroed THEN "zero" ELSE "garbage"
      /\ IF v.result = "enter"
         THEN at' = "inside" /\ native' = v.native /\ result' = None
         ELSE at' = "returned" /\ native' = None /\ result' = v.result
      /\ statuses' = None /\ told' = <<>> /\ results' = <<>>
  BY DEF Enter, v
<1>6. TypeOK'
  BY <1>1, <1>3, <1>4, <1>5 DEF TypeOK, Fair
<1>7. CallInv'
  BY <1>3, <1>5 DEF CallInv, Fair
<1>8. AdaptersAgree'
  BY <1>2, <1>5 DEF AdaptersAgree, Judges, Alike
<1>9. OutputsHonest'
  BY <1>3, <1>5, OKIsNoError DEF OutputsHonest, Fair
<1>10. RequestsDelivered'
  BY <1>4, <1>5 DEF RequestsDelivered
<1>11. StatusesReported'
  BY <1>5 DEF StatusesReported
<1> QED BY <1>6, <1>7, <1>8, <1>9, <1>10, <1>11 DEF IInv

\* A C program may pass anything.
LEMMA CallFromCStep == IInv /\ CallFromC => IInv'
<1> SUFFICES ASSUME IInv, CallFromC PROVE IInv'
  OBVIOUS
<1>1. PICK e \in Callable : \E a \in Arguments(e) : Enter("C", e, a)
  BY DEF CallFromC
<1>2. e \in Entries
  BY <1>1 DEF Callable, Entries, WithHandle
<1>3. PICK a \in Arguments(e) : Enter("C", e, a)
  BY <1>1
<1>4. asked' \in Seq(PyOperations)
  BY DEF CallFromC
<1> QED BY <1>2, <1>3, <1>4, ArgumentsOK, EnterStep

\* A Python request is refused exactly if it does not fit.
LEMMA Encoded ==
  ASSUME NEW o
  PROVE  /\ EncodeRequest(o) = Refused <=> ~Fits(o)
         /\ Fits(o) => EncodeRequest(o) \in Requests
<1>1. ~Fits(o) => EncodeRequest(o) = Refused
  BY DEF EncodeRequest
<1>2. ASSUME Fits(o) PROVE EncodeRequest(o) # Refused /\ EncodeRequest(o) \in Requests
  <2> DEFINE r == EncodeRequest(o)
  <2>1. /\ r = [opcode |-> r.opcode, flags |-> r.flags, args |-> r.args]
        /\ DOMAIN r = {"opcode", "flags", "args"}
    BY <1>2 DEF EncodeRequest
  <2>2. Sound(r) /\ r.args \in [1..3 -> 0..Word-1]
    BY <1>2, RoundTrip DEF Fits
  <2>3. r.opcode \in Int /\ r.flags \in Int
    BY <2>2 DEF Sound, INLINE, WRITE, READ, SEND, RECV, WRITE_IMM, COMPARE_SWAP,
       FETCH_ADD
  <2>4. DOMAIN Refused = {"op"}
    BY DEF Refused
  <2> HIDE DEF r
  <2>5. r # Refused
    BY <2>1, <2>4
  <2>6. r \in Requests
    BY <2>1, <2>2, <2>3 DEF Requests
  <2> QED BY <2>5, <2>6 DEF r
<1> QED BY <1>1, <1>2

\* A Python request that does not fit raises before the adapter is called; the
\* others reach it as they are.
LEMMA SubmitStep == IInv /\ SubmitFromPython => IInv'
<1> SUFFICES ASSUME IInv, SubmitFromPython PROVE IInv'
  OBVIOUS
<1>1. PICK s \in SeqOf(PyOperations, MaxRequests) :
        LET raw == [k \in DOMAIN s |-> EncodeRequest(s[k])] IN
        /\ asked' = s
        /\ IF Refused \in Range(raw)
           THEN /\ at' = "raised" /\ client' = "Python"
                /\ UNCHANGED <<lang, entry, args, native, outputs, statuses, result,
                               told, results, accepted>>
           ELSE Enter("Python", "submit_transfer",
                      [Plain EXCEPT !.items = raw,
                                    !.array = IF s = <<>> THEN "empty" ELSE "good"])
  BY DEF SubmitFromPython
<1> DEFINE raw == [k \in DOMAIN s |-> EncodeRequest(s[k])]
           a == [Plain EXCEPT !.items = raw,
                              !.array = IF s = <<>> THEN "empty" ELSE "good"]
<1>2. s \in Seq(PyOperations)
  BY <1>1 DEF SeqOf
<1>3. at = "idle"
  BY DEF SubmitFromPython
<1>4. CASE Refused \in Range(raw)
  <2>1. /\ at' = "raised" /\ client' = "Python" /\ asked' = s
        /\ UNCHANGED <<lang, entry, args, native, outputs, statuses, result, told,
                       results, accepted>>
    BY <1>1, <1>4
  <2>2. \E k \in DOMAIN s : ~Fits(s[k])
    BY <1>4, Encoded DEF Range
  <2>3. TypeOK'
    BY <1>2, <1>3, <2>1 DEF IInv, TypeOK
  <2>4. CallInv'
    BY <1>3, <2>1 DEF IInv, CallInv, ArgsOK
  <2>5. AdaptersAgree'
    BY <1>3, <2>1 DEF IInv, CallInv, AdaptersAgree
  <2>6. OutputsHonest'
    BY <1>3, <2>1, NoneIsNew DEF IInv, CallInv, OutputsHonest, Entries, WithHandle
  <2>7. RequestsDelivered'
    BY <2>1, <2>2 DEF RequestsDelivered
  <2>8. StatusesReported'
    BY <1>3, <2>1 DEF IInv, CallInv, StatusesReported
  <2> QED BY <2>3, <2>4, <2>5, <2>6, <2>7, <2>8 DEF IInv
<1>5. CASE Refused \notin Range(raw)
  <2>1. Enter("Python", "submit_transfer", a) /\ asked' = s
    BY <1>1, <1>5
  <2>2. \A k \in DOMAIN s : Fits(s[k])
    BY <1>5, Encoded DEF Range
  <2>3. raw \in Seq(Requests)
    BY <1>2, <2>2, Encoded
  <2>4. s = [k \in DOMAIN raw |-> CppRequest(raw[k])]
    BY <1>2, <2>2, RoundTrip DEF Fits
  <2> HIDE DEF raw
  <2>5. a.items = raw /\ ArgsOK(a)
    BY <2>3, PlainOK DEF ArgsOK, Plain, Arrays
  <2>6. "submit_transfer" \in Entries
    BY DEF Entries, WithOutputs
  <2> HIDE DEF a
  <2> QED BY <1>2, <2>1, <2>4, <2>5, <2>6, EnterStep
<1> QED BY <1>4, <1>5

\* Python asks for statuses with good arguments.
LEMMA StatusesStep == IInv /\ StatusesFromPython => IInv'
<1> SUFFICES ASSUME IInv, StatusesFromPython PROVE IInv'
  OBVIOUS
<1>1. Enter("Python", "get_transfer_statuses", Plain) /\ asked' = <<>>
  BY DEF StatusesFromPython
<1>2. "get_transfer_statuses" \in Entries
  BY DEF Entries, WithHandle
<1> QED BY <1>1, <1>2, PlainOK, EnterStep

\* The engine refuses, or makes what it was asked for.
LEMMA AnswerStep == IInv /\ Answer => IInv'
<1> SUFFICES ASSUME IInv, Answer PROVE IInv'
  OBVIOUS
<1>0. /\ TypeOK /\ CallInv /\ AdaptersAgree /\ at = "inside"
      /\ UNCHANGED <<lang, client, entry, args, asked, native>>
      /\ told = <<>> /\ results = <<>> /\ statuses = None /\ result = None
      /\ entry \in Entries
  BY DEF IInv, Answer, CallInv
<1>1. AdaptersAgree'
  BY <1>0 DEF AdaptersAgree
<1>2. ASSUME at' \in {"returned", "aborted"} PROVE CallInv' /\ RequestsDelivered'
  BY <1>0, <1>2 DEF CallInv, ArgsOK, RequestsDelivered
<1>3. CASE /\ entry # "destroy_engine"
           /\ result' = "BUSY" /\ at' = "returned"
           /\ UNCHANGED <<outputs, statuses, told, results, accepted>>
  <2>1. TypeOK'
    BY <1>0, <1>3 DEF TypeOK, Errors, Code
  <2>2. OutputsHonest'
    BY <1>0, <1>3 DEF OutputsHonest, CallInv
  <2>3. StatusesReported'
    BY <1>0, <1>3 DEF StatusesReported
  <2> QED BY <1>1, <1>2, <1>3, <2>1, <2>2, <2>3 DEF IInv
<1>4. CASE /\ entry # "get_transfer_statuses"
           /\ result' = "OK" /\ at' = "returned"
           /\ outputs' = IF entry \in WithOutputs THEN "value" ELSE outputs
           /\ accepted' = IF entry = "submit_transfer" THEN native
                          ELSE IF entry = "destroy_engine" \/ entry = "free_batch"
                          THEN <<>> ELSE accepted
           /\ UNCHANGED <<statuses, told, results>>
  <2>1. accepted' \in Seq(NativeOperations)
    BY <1>0, <1>4 DEF TypeOK
  <2>2. TypeOK'
    BY <1>0, <1>4, <2>1 DEF TypeOK
  <2>3. OutputsHonest'
    BY <1>0, <1>4 DEF OutputsHonest
  <2>4. StatusesReported'
    BY <1>0, <1>4 DEF StatusesReported
  <2> QED BY <1>1, <1>2, <1>4, <2>2, <2>3, <2>4 DEF IInv
<1>5. CASE /\ entry = "get_transfer_statuses" /\ accepted # <<>>
           /\ told' \in [DOMAIN accepted -> Answers]
           /\ IF \E k \in DOMAIN accepted : lang = "cpp" /\ CppAborts(told'[k])
              THEN at' = "aborted" /\ UNCHANGED <<result, statuses, results>>
              ELSE /\ at' = "returned" /\ result' = "OK"
                   /\ statuses' = [k \in DOMAIN accepted |->
                                     IF lang = "cpp" THEN CppStatus(told'[k])
                                     ELSE RustStatus(told'[k])]
                   /\ results' = [k \in DOMAIN accepted |->
                                    DecodeStatus(statuses'[k], accepted[k].op)]
           /\ UNCHANGED <<outputs, accepted>>
  <2>1. CASE \E k \in DOMAIN accepted : lang = "cpp" /\ CppAborts(told'[k])
    <3>1. at' = "aborted" /\ UNCHANGED <<result, statuses, results>>
      BY <1>5, <2>1
    <3>2. PICK k \in DOMAIN accepted : CppAborts(told'[k])
      BY <2>1
    <3>3. told'[k] = Failed("OK")
      <4>1. told'[k] \in Answers
        BY <1>5, <3>2
      <4> QED BY <3>2, <4>1 DEF Answers, CppAborts, Failed, Pending, Completed, Message,
           WriteNotice
    <3>4. DOMAIN told' = DOMAIN accepted
      BY <1>5
    <3>5. Failed("OK") \in Range(told') /\ told' # <<>>
      BY <3>2, <3>3, <3>4 DEF Range
    <3>6. TypeOK'
      BY <1>0, <1>5, <3>1 DEF TypeOK
    <3>7. OutputsHonest'
      BY <1>0, <3>1, NoneIsNew DEF OutputsHonest
    <3>8. StatusesReported'
      BY <1>0, <3>1, <3>5 DEF StatusesReported
    <3> QED BY <1>1, <1>2, <3>1, <3>6, <3>7, <3>8 DEF IInv
  <2>2. CASE ~\E k \in DOMAIN accepted : lang = "cpp" /\ CppAborts(told'[k])
    <3>1. /\ at' = "returned" /\ result' = "OK"
          /\ statuses' = [k \in DOMAIN accepted |->
                            IF lang = "cpp" THEN CppStatus(told'[k])
                            ELSE RustStatus(told'[k])]
          /\ results' = [k \in DOMAIN accepted |->
                           DecodeStatus(statuses'[k], accepted[k].op)]
      BY <1>5, <2>2
    <3>2. DOMAIN told' = DOMAIN accepted /\ accepted' = accepted
      BY <1>5
    <3>3. ASSUME NEW k \in DOMAIN accepted PROVE told'[k] \in Sayings
      <4>1. told'[k] \in Answers
        BY <1>5
      <4>2. ~(lang = "cpp" /\ CppAborts(told'[k]))
        BY <2>2
      <4>3. CppAborts(Failed("OK"))
        BY DEF CppAborts, Failed
      <4>4. "IO_ERROR" \in Errors /\ "CANCELED" \in Errors /\ 0..1 \subseteq Nat
        BY DEF Errors, Code
      <4> QED BY <4>1, <4>2, <4>3, <4>4 DEF Answers, Sayings
    <3>4. ASSUME NEW k \in DOMAIN accepted
          PROVE  results'[k] = Reported(told'[k], accepted[k].op)
      <4>1. results'[k] = DecodeStatus(IF lang = "cpp" THEN CppStatus(told'[k])
                                       ELSE RustStatus(told'[k]), accepted[k].op)
        BY <3>1
      <4> QED BY <3>3, <4>1, StatusRoundTrip
    <3>5. TypeOK'
      BY <1>0, <1>5, <3>1, <3>2 DEF TypeOK
    <3>6. OutputsHonest'
      BY <1>0, <1>5, <3>1, <3>2 DEF OutputsHonest, WithOutputs
    <3>7. StatusesReported'
      BY <3>1, <3>2, <3>4 DEF StatusesReported, Reported
    <3> QED BY <1>1, <1>2, <3>1, <3>5, <3>6, <3>7 DEF IInv
  <2> QED BY <2>1, <2>2
<1> QED BY <1>3, <1>4, <1>5 DEF Answer

\* After a call nothing is left but the batch.
LEMMA ReturnStep == IInv /\ Return => IInv'
<1> SUFFICES ASSUME IInv, Return PROVE IInv'
  OBVIOUS
<1> USE DEF Return
<1>1. TypeOK'
  BY DEF IInv, TypeOK
<1>2. CallInv'
  BY PlainOK DEF CallInv
<1>3. AdaptersAgree' /\ OutputsHonest' /\ RequestsDelivered' /\ StatusesReported'
  BY DEF AdaptersAgree, OutputsHonest, RequestsDelivered, StatusesReported
<1> QED BY <1>1, <1>2, <1>3 DEF IInv

\* Nothing changes.
LEMMA StutterStep == IInv /\ UNCHANGED vars => IInv'
<1> SUFFICES ASSUME IInv, UNCHANGED vars PROVE IInv'
  OBVIOUS
<1> USE DEF vars, IInv
<1>1. TypeOK' /\ CallInv'
  BY DEF TypeOK, CallInv, ArgsOK
<1>2. AdaptersAgree'
  BY DEF AdaptersAgree
<1>3. OutputsHonest' /\ RequestsDelivered'
  BY DEF OutputsHonest, RequestsDelivered
<1>4. StatusesReported'
  BY DEF StatusesReported
<1> QED BY <1>1, <1>2, <1>3, <1>4

\* The invariant holds in every state.
THEOREM Invariance == Spec => []IInv
<1>1. IInv /\ [Next]_vars => IInv'
  BY CallFromCStep, SubmitStep, StatusesStep, AnswerStep, ReturnStep, StutterStep DEF Next
<1> QED BY <1>1, InitInv, PTL DEF Spec

\* Every variable keeps its type, and what an engine is given are operations of
\* C's widths.
THEOREM WidthsKept == Spec => []TypeOK
<1>1. IInv => TypeOK
  BY DEF IInv
<1> QED BY <1>1, Invariance, PTL

\* ffi.cpp, ffi.rs and engine.c judge every call alike.
THEOREM JudgedAlike == Spec => []AdaptersAgree
<1>1. IInv => AdaptersAgree
  BY DEF IInv
<1> QED BY <1>1, Invariance, PTL

\* A call that returns leaves defined storage behind.
THEOREM StorageDefined == Spec => []OutputsHonest
<1>1. IInv => OutputsHonest
  BY DEF IInv
<1> QED BY <1>1, Invariance, PTL

\* A batch reaches the engine whole and as it is, or not at all.
THEOREM BatchArrives == Spec => []RequestsDelivered
<1>1. IInv => RequestsDelivered
  BY DEF IInv
<1> QED BY <1>1, Invariance, PTL

\* Python is told what the engine said of each task.
THEOREM StatusesArrive == Spec => []StatusesReported
<1>1. IInv => StatusesReported
  BY DEF IInv
<1> QED BY <1>1, Invariance, PTL
=============================================================================
