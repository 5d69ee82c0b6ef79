---------------------------- MODULE ReplayProofs ----------------------------
(***************************************************************************)
(* Proofs about Replay, for every program in LLVM's form: the memory that  *)
(* the trace shows, what the data graph knows of it, and the snapshot.     *)
(***************************************************************************)
EXTENDS Replay, TraceReaderProofs

(* The trace and its reader *)

LEMMA ProgramSteps == [Next]_vars => [ProgramNext]_program
<1> SUFFICES ASSUME [Next]_vars PROVE [ProgramNext]_program
  OBVIOUS
<1>1. CASE UNCHANGED vars
  BY <1>1 DEF vars, program
<1>2. CASE Serialize
  BY <1>2 DEF Serialize
<1>3. CASE LoadOne
  <2>1. LoadOneDynamicInst(Accesses)
    BY <1>3 DEF LoadOne
  <2>2. CASE TraceLoad(Accesses) \/ TraceStore(Accesses)
    BY <2>2 DEF TraceLoad, TraceStore, Reads, ProgramNext
  <2>3. CASE TraceBranch
    BY <2>3 DEF TraceBranch, Reads, ProgramNext, Block
  <2>4. CASE TraceEnter
    BY <2>4 DEF TraceEnter, Reads, ProgramNext
  <2>5. CASE Untraced
    BY <2>5 DEF Untraced, ProgramNext
  <2>6. CASE TracePhi \/ TraceOperation \/ TraceCall \/ TraceReturn
    BY <2>6 DEF TracePhi, TraceOperation, TraceCall, TraceReturn, Reads, ProgramNext
  <2>7. QED
    BY <2>1, <2>2, <2>3, <2>4, <2>5, <2>6 DEF LoadOneDynamicInst
<1>4. QED
  BY <1>1, <1>2, <1>3 DEF Next

(* For every program in LLVM's form: the activations follow each other as   *)
(* callers and callees, and each stands where its function can be.          *)
LEMMA ProgramKept == ASSUME ProgramInv, [Next]_vars PROVE ProgramInv'
  BY ProgramSteps, ProgramNextKept

(* What the reader does in one step: an instruction is traced and read, ... *)
ReadOne(access) ==
  /\ tracing = "on" /\ ~aborted /\ UNCHANGED <<out, snapshot, tracing>>
  /\ InCode({"op", "landingpad", "load", "store", "br", "call", "invoke", "ret"})
  /\ Execute(access)
  /\ IF Code[Current].op \in {"load", "store"} THEN access \in Accesses ELSE access = NoAccess
  /\ memory' = IF Code[Current].op = "store"
               THEN [a \in Address |-> IF a \in Bytes(access) THEN Now ELSE memory[a]]
               ELSE memory
  /\ \E result : ParseCurrent(result, access)

(* or there is nothing to read that enters the list: phis, function         *)
(* entries, what is not traced and what is not read any more.               *)
Skip ==
  /\ UNCHANGED <<out, list, snapshot, currentId, loadMap, storeMap, prevControlInstId>>
  /\ aborted => aborted'
  /\ ~aborted' => UNCHANGED <<seen, memory>>
  /\ \/ UNCHANGED seen
     \/ \E e : seen' = Append(seen, e)

LEMMA StepExecutes ==
  ASSUME ProgramInv, NEW access, Execute(access)
  PROVE  /\ UNCHANGED seen \/ (\E e : seen' = Append(seen, e))
         /\ tracing # "on" => UNCHANGED seen /\ Now = 0
  BY DEF Execute, Now

(* Before the trace every byte is older than it. *)
LEMMA NothingWritten ==
  ASSUME ProgramInv, tracing = "before"
  PROVE  memory = [a \in Address |-> 0]
<1>1. Len(seen) = 0
  BY SeqFields DEF ProgramInv
<1>2. memory \in [Address -> 0 .. 0]
  BY <1>1 DEF ProgramInv
<1>3. \A a \in Address : memory[a] = 0
  BY <1>2
<1>4. QED
  BY <1>2, <1>3

(* A step that the reader does not see, or an instruction that is not read. *)
LEMMA UnreadStep ==
  ASSUME ProgramInv, tracing # "on" \/ aborted, UNCHANGED graph, UNCHANGED <<out, snapshot>>,
         NEW access, NEW ops, InCode(ops), Execute(access),
         \/ UNCHANGED memory
         \/ memory' = [a \in Address |-> IF a \in Bytes(access) THEN Now ELSE memory[a]]
  PROVE  Skip
<1>1. tracing # "over"
  BY DEF InCode
<1>2. CASE aborted
  BY <1>2, StepExecutes DEF Skip, graph
<1>3. CASE ~aborted
  <2>1. tracing = "before"
    BY <1>1, <1>3 DEF ProgramInv
  <2>2. UNCHANGED seen /\ Now = 0
    BY <2>1, StepExecutes
  <2>3. UNCHANGED memory
    BY <2>1, <2>2, NothingWritten
  <2>4. QED
    BY <2>2, <2>3 DEF Skip, graph
<1>4. QED
  BY <1>2, <1>3

LEMMA ReadStep ==
  ASSUME ProgramInv, UNCHANGED <<out, snapshot, tracing>>, NEW access, NEW ops, InCode(ops),
         ops \subseteq {"op", "landingpad", "load", "store", "br", "call", "invoke", "ret"},
         Execute(access),
         IF Code[Current].op \in {"load", "store"} THEN access \in Accesses ELSE access = NoAccess,
         memory' = IF Code[Current].op = "store"
                   THEN [a \in Address |-> IF a \in Bytes(access) THEN Now ELSE memory[a]]
                   ELSE memory,
         NEW result, WhenTracing(ParseCurrent(result, access))
  PROVE  ReadOne(access) \/ Skip
<1>1. CASE tracing = "on" /\ ~aborted
  <2>1. ParseCurrent(result, access)
    BY <1>1 DEF WhenTracing
  <2>2. InCode({"op", "landingpad", "load", "store", "br", "call", "invoke", "ret"})
    BY DEF InCode
  <2>3. QED
    BY <1>1, <2>1, <2>2 DEF ReadOne
<1>2. CASE ~ (tracing = "on" /\ ~aborted)
  <2>1. UNCHANGED graph
    BY <1>2 DEF WhenTracing
  <2>2. QED
    BY <1>2, <2>1, UnreadStep
<1>3. QED
  BY <1>1, <1>2

LEMMA ReaderSteps ==
  ASSUME ProgramInv, [Next]_vars
  PROVE  (\E access \in Accesses \cup {NoAccess} : ReadOne(access)) \/ Skip \/ Serialize
<1>1. CASE UNCHANGED vars
  BY <1>1 DEF vars, program, graph, Skip
<1>2. CASE LoadOne
  <2>1. LoadOneDynamicInst(Accesses) /\ UNCHANGED <<out, snapshot>>
    BY <1>2 DEF LoadOne
  <2>2. CASE TracePhi
    <3>1. Phi /\ WhenTracing(ParsePhi(Current, real'[Len(real)].val[Current]))
      BY <2>2 DEF TracePhi, Reads
    <3>2. UNCHANGED <<seen, memory>>
      BY <3>1 DEF Phi
    <3>3. UNCHANGED <<list, currentId, loadMap, storeMap, prevControlInstId, aborted>>
      BY <3>1 DEF WhenTracing, ParsePhi, graph
    <3>4. QED
      BY <2>1, <3>2, <3>3 DEF Skip
  <2>3. CASE TraceOperation
    <3>1. Operation /\ WhenTracing(ParseCurrent(Now, NoAccess))
      BY <2>3 DEF TraceOperation, Reads
    <3>2. InCode({"op", "landingpad"}) /\ Execute(NoAccess) /\ UNCHANGED <<memory, tracing>>
      BY <3>1 DEF Operation
    <3>3. Code[Current].op \in {"op", "landingpad"}
      BY <3>2 DEF InCode
    <3>4. QED
      BY <2>1, <3>1, <3>2, <3>3, ReadStep
  <2>4. CASE TraceLoad(Accesses)
    <3>1. PICK a \in Accesses : Load(a) /\ WhenTracing(ParseCurrent(Now, a))
      BY <2>4 DEF TraceLoad, Reads
    <3>2. InCode({"load"}) /\ Execute(a) /\ UNCHANGED <<memory, tracing>>
      BY <3>1 DEF Load
    <3>3. Code[Current].op = "load"
      BY <3>2 DEF InCode
    <3>4. QED
      BY <2>1, <3>1, <3>2, <3>3, ReadStep
  <2>5. CASE TraceStore(Accesses)
    <3>1. PICK a \in Accesses : Store(a) /\ WhenTracing(ParseCurrent(NoValue, a))
      BY <2>5 DEF TraceStore, Reads
    <3>2. /\ InCode({"store"}) /\ Execute(a) /\ UNCHANGED tracing
          /\ memory' = [x \in Address |-> IF x \in Bytes(a) THEN Now ELSE memory[x]]
      BY <3>1 DEF Store
    <3>3. Code[Current].op = "store"
      BY <3>2 DEF InCode
    <3>4. QED
      BY <2>1, <3>1, <3>2, <3>3, ReadStep
  <2>6. CASE TraceBranch
    <3>1. PICK i \in Inst : Branch(Code[i].bb) /\ WhenTracing(ParseCurrent(NoValue, NoAccess))
      BY <2>6 DEF TraceBranch, Reads
    <3>2. InCode({"br"}) /\ Execute(NoAccess) /\ UNCHANGED <<memory, tracing>>
      BY <3>1 DEF Branch
    <3>3. Code[Current].op = "br"
      BY <3>2 DEF InCode
    <3>4. QED
      BY <2>1, <3>1, <3>2, <3>3, ReadStep
  <2>7. CASE TraceCall
    <3>1. Call /\ WhenTracing(ParseCurrent(NoValue, NoAccess))
      BY <2>7 DEF TraceCall, Reads
    <3>2. InCode({"call", "invoke"}) /\ Execute(NoAccess) /\ UNCHANGED <<memory, tracing>>
      BY <3>1 DEF Call
    <3>3. Code[Current].op \in {"call", "invoke"}
      BY <3>2 DEF InCode
    <3>4. QED
      BY <2>1, <3>1, <3>2, <3>3, ReadStep
  <2>8. CASE TraceReturn
    <3>1. Return /\ WhenTracing(ParseCurrent(NoValue, NoAccess))
      BY <2>8 DEF TraceReturn, Reads
    <3>2. InCode({"ret"}) /\ Execute(NoAccess) /\ UNCHANGED <<memory, tracing>>
      BY <3>1 DEF Return
    <3>3. Code[Current].op = "ret"
      BY <3>2 DEF InCode
    <3>4. QED
      BY <2>1, <3>1, <3>2, <3>3, ReadStep
  <2>9. CASE TraceEnter
    <3>1. PICK f \in Instrumented : Enter(f) /\ WhenTracing(ParseFunctionEnter(f))
      BY <2>9 DEF TraceEnter, Reads
    <3>2. UNCHANGED <<seen, memory>>
      BY <3>1 DEF Enter
    <3>3. /\ UNCHANGED <<list, currentId, loadMap, storeMap, prevControlInstId>>
          /\ aborted => aborted'
      BY <3>1 DEF WhenTracing, ParseFunctionEnter, graph
    <3>4. QED
      BY <2>1, <3>2, <3>3 DEF Skip
  <2>10. CASE Untraced
    <3>1. UNCHANGED <<seen, memory>> /\ UNCHANGED graph
      BY <2>10 DEF Untraced, Enter, ReturnExternal, Throw, StartTrace, StopTrace
    <3>2. QED
      BY <2>1, <3>1 DEF Skip, graph
  <2>11. QED
    BY <2>1, <2>2, <2>3, <2>4, <2>5, <2>6, <2>7, <2>8, <2>9, <2>10 DEF LoadOneDynamicInst
<1>3. QED
  BY <1>1, <1>2 DEF Next

(* The entry of what is read, and the accesses that it is entered in.       *)
EntryOf(e, access) ==
  LET isLoad == Code[Current].op = "load" IN
  /\ e.id = currentId + 1 /\ e.inst = Current /\ e.access = access
  /\ e.bytes = [a \in Bytes(access) |-> memory[a]]
  /\ e.ctr = {prevControlInstId} \ {InvalidId}
  /\ e.mem = GetMemoryDependence(loadMap, storeMap, access, isLoad)
  /\ loadMap' = IF isLoad THEN UpdateBytes(loadMap, access, currentId + 1) ELSE loadMap
  /\ storeMap' = IF isLoad THEN storeMap ELSE UpdateBytes(storeMap, access, currentId + 1)
  /\ prevControlInstId' =
       IF Code[Current].op \in {"br", "ret", "call"} THEN currentId + 1 ELSE prevControlInstId

LEMMA EntryRead ==
  ASSUME NEW access, ReadOne(access)
  PROVE  /\ currentId' = currentId + 1 /\ UNCHANGED aborted
         /\ \E e : list' = Append(list, e) /\ EntryOf(e, access)
<1>1. PICK result : ParseCurrent(result, access)
  BY DEF ReadOne
<1>2. PICK bytes : bytes = [a \in Bytes(access) |-> memory[a]]
  OBVIOUS
<1>3. ParseInst(Current, Operands, result, access, bytes)
  BY <1>1, <1>2 DEF ParseCurrent
<1>4. PICK reg, iv, rv, pdf :
        list' = Append(list,
          [id |-> currentId + 1, pos |-> Len(seen) + 1, inst |-> Current, access |-> access,
           bytes |-> bytes, reg |-> reg, iv |-> iv, rv |-> rv,
           ctr |-> {prevControlInstId} \ {InvalidId}, pdf |-> pdf,
           mem |-> GetMemoryDependence(loadMap, storeMap, access, Code[Current].op = "load")])
  BY <1>3 DEF ParseInst
<1>5. PICK e : e =
          [id |-> currentId + 1, pos |-> Len(seen) + 1, inst |-> Current, access |-> access,
           bytes |-> bytes, reg |-> reg, iv |-> iv, rv |-> rv,
           ctr |-> {prevControlInstId} \ {InvalidId}, pdf |-> pdf,
           mem |-> GetMemoryDependence(loadMap, storeMap, access, Code[Current].op = "load")]
  OBVIOUS
<1>6. /\ e.id = currentId + 1 /\ e.inst = Current /\ e.access = access /\ e.bytes = bytes
      /\ e.ctr = {prevControlInstId} \ {InvalidId}
      /\ e.mem = GetMemoryDependence(loadMap, storeMap, access, Code[Current].op = "load")
  BY <1>5
<1>7. /\ currentId' = currentId + 1 /\ UNCHANGED aborted
      /\ loadMap' = IF Code[Current].op = "load" THEN UpdateBytes(loadMap, access, currentId + 1)
                    ELSE loadMap
      /\ storeMap' = IF Code[Current].op = "load" THEN storeMap
                     ELSE UpdateBytes(storeMap, access, currentId + 1)
      /\ prevControlInstId' =
           IF Code[Current].op \in {"br", "ret", "call"} THEN currentId + 1 ELSE prevControlInstId
  BY <1>3 DEF ParseInst
<1>8. EntryOf(e, access)
  BY <1>2, <1>6, <1>7 DEF EntryOf
<1>9. QED
  BY <1>4, <1>5, <1>7, <1>8

(* Is e the entry of an instruction with that id?                           *)
EntryOK(e, id) ==
  /\ e.id = id /\ e.inst \in Inst
  /\ IF Code[e.inst].op \in {"load", "store"} THEN e.access \in Accesses ELSE e.access = NoAccess

(* The list and what has left it hold every instruction of the trace, as    *)
(* long as it is read.                                                      *)
TraceInv ==
  /\ IsSeq(out) /\ IsSeq(list) /\ Len(All) = currentId
  /\ currentId <= Len(seen) /\ (~aborted => currentId = Len(seen))
  /\ \A k \in 1 .. currentId : EntryOK(All[k], k) /\ All[k].inst = seen[k].inst

LEMMA TraceFields ==
  ASSUME TraceInv
  PROVE  /\ IsSeq(All) /\ DOMAIN All = 1 .. currentId /\ currentId \in Nat
         /\ Len(out) \in Nat /\ Len(out) + Len(list) = currentId /\ Len(list) \in Nat
         /\ DOMAIN out = 1 .. Len(out) /\ Len(out) <= currentId
         /\ \A k \in 1 .. Len(out) : k \in 1 .. currentId /\ All[k] = out[k]
<1>1. IsSeq(out) /\ IsSeq(list) /\ Len(All) = currentId
  BY DEF TraceInv
<1>2. /\ IsSeq(All) /\ Len(All) = Len(out) + Len(list) /\ DOMAIN All = 1 .. Len(out) + Len(list)
      /\ \A k \in 1 .. Len(out) : All[k] = out[k]
  BY <1>1, ConcatFields DEF All
<1>3. Len(out) \in Nat /\ Len(list) \in Nat /\ DOMAIN out = 1 .. Len(out)
  BY <1>1, SeqFields
<1>4. QED
  BY <1>1, <1>2, <1>3

LEMMA TraceAppends ==
  ASSUME TraceInv, NEW e, list' = Append(list, e), UNCHANGED out
  PROVE  /\ All' = Append(All, e) /\ IsSeq(list')
         /\ Len(All') = currentId + 1 /\ All'[currentId + 1] = e
         /\ \A k \in 1 .. currentId : All'[k] = All[k]
<1>3. PICK s, t : s = out /\ t = list
  OBVIOUS
<1>4. IsSeq(s) /\ IsSeq(t) /\ Len(s \o t) = currentId
  BY <1>3 DEF TraceInv, All
<1>5. s \o Append(t, e) = Append(s \o t, e) /\ IsSeq(Append(t, e)) /\ IsSeq(s \o t)
  BY ONLY <1>4, ConcatAppend, AppendFields, ConcatFields
<1>6. PICK q : q = s \o t
  OBVIOUS
<1>7. /\ Len(Append(q, e)) = Len(q) + 1 /\ \A k \in 1 .. Len(q) : Append(q, e)[k] = q[k]
      /\ Append(q, e)[Len(q) + 1] = e
  BY ONLY <1>5, <1>6, AppendFields
<1>8. All' = Append(q, e) /\ All = q
  BY <1>3, <1>5, <1>6 DEF All
<1>9. IsSeq(list')
  BY <1>3, <1>5
<1>10. QED
  BY ONLY <1>4, <1>6, <1>7, <1>8, <1>9

(* What a step does to the trace.                                           *)
LEMMA TraceGrows ==
  ASSUME TraceInv, NEW access, ReadOne(access)
  PROVE  \E e : /\ EntryOf(e, access) /\ All' = Append(All, e) /\ IsSeq(list')
                /\ currentId' = currentId + 1 /\ UNCHANGED <<aborted, out>>
                /\ Len(All') = currentId + 1 /\ All'[currentId + 1] = e
                /\ \A k \in 1 .. currentId : All'[k] = All[k]
<1>1. PICK e : list' = Append(list, e) /\ EntryOf(e, access)
  BY EntryRead
<1>2. currentId' = currentId + 1 /\ UNCHANGED <<aborted, out>>
  BY EntryRead DEF ReadOne
<1>3. QED
  BY <1>1, <1>2, TraceAppends

LEMMA TraceStays ==
  ASSUME TraceInv, Skip \/ Serialize
  PROVE  /\ UNCHANGED <<All, currentId, loadMap, storeMap, prevControlInstId>>
         /\ IsSeq(out') /\ IsSeq(list')
<1>1. CASE Skip
  BY <1>1 DEF Skip, All, TraceInv
<1>2. CASE Serialize
  <2>1. out' = Append(out, Head(list)) /\ list' = Tail(list) /\ list # <<>>
    <3>1. Len(list) > Window => list # <<>>
      <4>1. Len(list) \in Nat /\ (list = <<>> <=> Len(list) = 0)
        BY SeqFields DEF TraceInv
      <4>2. QED
        BY <4>1, WindowAssumption
    <3>2. QED
      BY <1>2, <3>1 DEF Serialize, CommitOneDynamicInst
  <2>2. PICK s, t : s = out /\ t = list
    OBVIOUS
  <2>3. IsSeq(s) /\ IsSeq(t) /\ t # <<>>
    BY <2>1, <2>2 DEF TraceInv
  <2>4. PICK h : h = Head(t)
    OBVIOUS
  <2>5. Append(s, h) \o Tail(t) = s \o t /\ IsSeq(Tail(t)) /\ IsSeq(Append(s, h))
    BY ONLY <2>3, <2>4, ConcatShift, AppendFields
  <2>6. All' = All
    BY <2>1, <2>2, <2>4, <2>5 DEF All
  <2>7. QED
    BY <1>2, <2>1, <2>2, <2>4, <2>5, <2>6 DEF Serialize, CommitOneDynamicInst
<1>3. QED
  BY <1>1, <1>2

LEMMA BytesOf ==
  ASSUME NEW access \in Accesses \cup {NoAccess}
  PROVE  /\ access.addr \in Nat /\ access.size \in Nat /\ Bytes(access) \subseteq Address
         /\ access = NoAccess => Bytes(access) = {}
<1>1. CASE access \in Accesses
  <2>1. access.addr \in Nat /\ access.size \in Nat /\ Bytes(access) \subseteq Address
    BY <1>1, AccessAssumption
  <2>2. access = NoAccess => access.addr = 0 /\ access.size = 0
    BY DEF NoAccess
  <2>3. access = NoAccess => Bytes(access) = {}
    BY <2>2 DEF Bytes
  <2>4. QED
    BY <2>1, <2>3
<1>2. CASE access = NoAccess
  <2>1. access.addr = 0 /\ access.size = 0
    BY <1>2 DEF NoAccess
  <2>2. QED
    BY <2>1 DEF Bytes
<1>3. QED
  BY <1>1, <1>2

LEMMA EntryAccess ==
  ASSUME NEW e, NEW id, EntryOK(e, id)
  PROVE  /\ e.access \in Accesses \cup {NoAccess}
         /\ Code[e.inst].op \notin {"load", "store"} => Bytes(e.access) = {}
         /\ Bytes(e.access) \subseteq Address
  BY BytesOf DEF EntryOK

LEMMA TraceInitOK == Init => TraceInv
<1> SUFFICES ASSUME Init PROVE TraceInv
  OBVIOUS
<1>1. out = <<>> /\ list = <<>> /\ currentId = 0 /\ seen = <<>>
  BY DEF Init, GraphInit, ProgramInit
<1>2. PICK s : s = <<>>
  OBVIOUS
<1>3. IsSeq(s) /\ Len(s) = 0
  BY <1>2, EmptySeq DEF IsSeq
<1>4. Len(s \o s) = 0
  BY <1>3, ConcatFields
<1>5. QED
  BY <1>1, <1>2, <1>3, <1>4 DEF TraceInv, All

(* What ReadOne says of the program.                                        *)
LEMMA ReadFields ==
  ASSUME ProgramInv, TraceInv, NEW access \in Accesses \cup {NoAccess}, ReadOne(access)
  PROVE  /\ currentId = Len(seen) /\ currentId \in Nat /\ Now = currentId + 1
         /\ ~aborted /\ ~aborted' /\ tracing = "on" /\ tracing' = "on"
         /\ seen' = Append(seen, Truth(access)) /\ Current \in Inst
         /\ Len(seen') = currentId + 1 /\ seen'[currentId + 1] = Truth(access)
         /\ \A k \in 1 .. currentId : seen'[k] = seen[k]
         /\ real # <<>> /\ Running.fn \in Instrumented /\ Current = Running.at
         /\ Code[Current].fn = Running.fn /\ pc = "run"
         /\ Code[Current].op \in {"op", "landingpad", "load", "store", "br", "call", "invoke", "ret"}
<1>1. tracing = "on" /\ ~aborted /\ tracing' = tracing /\ Execute(access)
  BY DEF ReadOne
<1>2. ~aborted' /\ currentId = Len(seen) /\ IsSeq(seen) /\ currentId \in Nat
  BY <1>1, EntryRead, TraceFields DEF TraceInv, ProgramInv
<1>3. Now = currentId + 1 /\ seen' = Append(seen, Truth(access))
  BY <1>1, <1>2 DEF Now, Execute
<1>4. PICK s, t : s = seen /\ t = Truth(access)
  OBVIOUS
<1>5. /\ Len(Append(s, t)) = currentId + 1 /\ Append(s, t)[currentId + 1] = t
      /\ \A k \in 1 .. currentId : Append(s, t)[k] = s[k]
  BY <1>2, <1>4, AppendFields
<1>6. /\ Len(seen') = currentId + 1 /\ seen'[currentId + 1] = Truth(access)
      /\ \A k \in 1 .. currentId : seen'[k] = seen[k]
  BY ONLY <1>3, <1>4, <1>5
<1>7. InCode({"op", "landingpad", "load", "store", "br", "call", "invoke", "ret"})
  BY DEF ReadOne
<1>8. /\ real # <<>> /\ Running.fn \in Instrumented /\ Current \in Inst
      /\ Code[Current].fn = Running.fn /\ pc = "run" /\ Current = Running.at
      /\ Code[Current].op \in {"op", "landingpad", "load", "store", "br", "call", "invoke", "ret"}
  BY <1>7, InCodeFields
<1>9. QED
  BY <1>1, <1>2, <1>3, <1>6, <1>8

LEMMA TraceKept == ASSUME ProgramInv, TraceInv, [Next]_vars PROVE TraceInv'
<1>1. CASE \E access \in Accesses \cup {NoAccess} : ReadOne(access)
  <2>1. PICK access \in Accesses \cup {NoAccess} : ReadOne(access)
    BY <1>1
  <2>2. PICK e : /\ EntryOf(e, access) /\ IsSeq(list')
                 /\ currentId' = currentId + 1 /\ UNCHANGED <<aborted, out>>
                 /\ Len(All') = currentId + 1 /\ All'[currentId + 1] = e
                 /\ \A k \in 1 .. currentId : All'[k] = All[k]
    BY <2>1, TraceGrows
  <2>3. /\ currentId = Len(seen) /\ currentId \in Nat /\ Len(seen') = currentId + 1
        /\ seen'[currentId + 1] = Truth(access)
        /\ \A k \in 1 .. currentId : seen'[k] = seen[k]
        /\ Current \in Inst
    BY <2>1, ReadFields
  <2>4. EntryOK(e, currentId + 1) /\ e.inst = Truth(access).inst
    <3>1. e.id = currentId + 1 /\ e.inst = Current /\ e.access = access
      BY <2>2 DEF EntryOf
    <3>2. Truth(access).inst = Current
      BY DEF Truth
    <3>3. IF Code[Current].op \in {"load", "store"} THEN access \in Accesses ELSE access = NoAccess
      BY <2>1 DEF ReadOne
    <3>4. QED
      BY <2>3, <3>1, <3>2, <3>3 DEF EntryOK
  <2>5. \A k \in 1 .. currentId' : EntryOK(All'[k], k) /\ All'[k].inst = seen'[k].inst
    <3>1. \A k \in 1 .. currentId' : k = currentId + 1 \/ k \in 1 .. currentId
      BY <2>2, <2>3
    <3>2. \A k \in 1 .. currentId : EntryOK(All[k], k) /\ All[k].inst = seen[k].inst
      BY DEF TraceInv
    <3>3. ASSUME NEW k \in 1 .. currentId'
          PROVE  EntryOK(All'[k], k) /\ All'[k].inst = seen'[k].inst
      <4>1. CASE k = currentId + 1
        BY <2>2, <2>3, <2>4, <4>1
      <4>2. CASE k \in 1 .. currentId
        BY <2>2, <2>3, <3>2, <4>2
      <4>3. QED
        BY <3>1, <4>1, <4>2
    <3>4. QED
      BY <3>3
  <2>6. IsSeq(out')
    BY <2>2 DEF TraceInv
  <2>7. QED
    BY ONLY <2>2, <2>3, <2>5, <2>6 DEF TraceInv, EntryOK
<1>2. CASE Skip \/ Serialize
  <2>1. UNCHANGED <<All, currentId>> /\ IsSeq(out') /\ IsSeq(list')
    BY <1>2, TraceStays
  <2>2. /\ Len(seen) <= Len(seen') /\ \A k \in 1 .. Len(seen) : seen'[k] = seen[k]
        /\ ~aborted' => ~aborted /\ Len(seen') = Len(seen)
    <3>1. IsSeq(seen) /\ Len(seen) \in Nat
      BY SeqFields DEF ProgramInv
    <3>2. CASE Skip
      <4>1. CASE UNCHANGED seen
        BY <3>1, <3>2, <4>1 DEF Skip
      <4>2. CASE \E e : seen' = Append(seen, e)
        <5>1. PICK e : seen' = Append(seen, e)
          BY <4>2
        <5>2. Len(seen') = Len(seen) + 1 /\ \A k \in 1 .. Len(seen) : seen'[k] = seen[k]
          BY <3>1, <5>1, AppendFields
        <5>3. QED
          BY <3>1, <3>2, <5>2 DEF Skip
      <4>3. QED
        BY <3>2, <4>1, <4>2 DEF Skip
    <3>3. CASE Serialize
      BY <3>1, <3>3 DEF Serialize, CommitOneDynamicInst, program
    <3>4. QED
      BY <1>2, <3>2, <3>3
  <2>3. \A k \in 1 .. currentId : k \in 1 .. Len(seen)
    BY TraceFields, SeqFields DEF TraceInv, ProgramInv
  <2>4. \A k \in 1 .. currentId : EntryOK(All'[k], k) /\ All'[k].inst = seen'[k].inst
    BY <2>1, <2>2, <2>3 DEF TraceInv
  <2>5. Len(All') = currentId' /\ currentId' <= Len(seen') /\ (~aborted' => currentId' = Len(seen'))
    <3>1. Len(seen) \in Nat /\ Len(seen') \in Nat /\ currentId \in Nat
      BY ProgramKept, SeqFields, TraceFields DEF ProgramInv
    <3>2. QED
      BY <2>1, <2>2, <3>1 DEF TraceInv
  <2>6. QED
    BY <2>1, <2>4, <2>5 DEF TraceInv, EntryOK
<1>3. QED
  BY <1>1, <1>2, ReaderSteps

-----------------------------------------------------------------------------
(* Memory and its snapshot *)

(* Entry j of the trace is a load from a, or a store to it.                 *)
Touches(t, j, op, a) == Code[t[j].inst].op = op /\ a \in Bytes(t[j].access)

(* w is the last of the first n entries that stores to a, 0 if none does.   *)
WroteLast(t, a, n, w) ==
  /\ w = 0 \/ (w \in 1 .. n /\ Touches(t, w, "store", a))
  /\ \A j \in 1 .. n : Touches(t, j, "store", a) => j <= w

(* Memory is what the stores of the trace have made of it, and every load   *)
(* was given what it read.                                                  *)
MemoryInv ==
  /\ ~aborted => \A a \in Address : WroteLast(All, a, currentId, memory[a])
  /\ \A k \in 1 .. currentId : \A a \in Address :
       Touches(All, k, "load", a) => WroteLast(All, a, k - 1, All[k].bytes[a])

LEMMA WroteSame ==
  ASSUME NEW s, NEW t, NEW n \in Nat, NEW m \in Nat, m <= n,
         \A k \in 1 .. n : t[k] = s[k], NEW a, NEW w, WroteLast(s, a, m, w)
  PROVE  WroteLast(t, a, m, w)
<1>1. \A k \in 1 .. m : k \in 1 .. n
  OBVIOUS
<1>2. \A k \in 1 .. m : Touches(t, k, "store", a) <=> Touches(s, k, "store", a)
  BY <1>1 DEF Touches
<1>3. QED
  BY <1>2 DEF WroteLast

LEMMA MemoryKept ==
  ASSUME ProgramInv, TraceInv, MemoryInv, [Next]_vars PROVE MemoryInv'
<1>1. CASE \E access \in Accesses \cup {NoAccess} : ReadOne(access)
  <2>1. PICK access \in Accesses \cup {NoAccess} : ReadOne(access)
    BY <1>1
  <2>2. PICK e : /\ EntryOf(e, access) /\ currentId' = currentId + 1
                 /\ All'[currentId + 1] = e
                 /\ \A k \in 1 .. currentId : All'[k] = All[k]
    BY <2>1, TraceGrows
  <2>3. PICK n \in Nat, s \in {All}, t \in {All'} : n = currentId /\ s = All /\ t = All'
    BY TraceFields
  <2>4. t[n + 1] = e /\ \A k \in 1 .. n : t[k] = s[k]
    BY <2>2, <2>3
  <2>5. /\ e.inst = Current /\ e.access = access
        /\ e.bytes = [a \in Bytes(access) |-> memory[a]]
    BY <2>2 DEF EntryOf
  <2>6. ~aborted /\ Now = n + 1 /\ Current \in Inst
    BY <2>1, <2>3, ReadFields
  <2>7. \A a \in Address : WroteLast(s, a, n, memory[a])
    BY <2>3, <2>6 DEF MemoryInv
  <2>8. \A a \in Address : WroteLast(t, a, n, memory[a])
    BY <2>4, <2>7, WroteSame
  <2>9. ASSUME NEW a \in Address PROVE WroteLast(t, a, n + 1, memory'[a])
    <3>1. \A k \in 1 .. n + 1 : k = n + 1 \/ k \in 1 .. n
      OBVIOUS
    <3>2. Touches(t, n + 1, "store", a) <=> Code[Current].op = "store" /\ a \in Bytes(access)
      BY <2>4, <2>5 DEF Touches
    <3>3. CASE Code[Current].op = "store" /\ a \in Bytes(access)
      <4>1. memory'[a] = n + 1
        BY <2>1, <2>6, <3>3 DEF ReadOne
      <4>2. QED
        BY <3>1, <3>2, <3>3, <4>1 DEF WroteLast
    <3>4. CASE ~ (Code[Current].op = "store" /\ a \in Bytes(access))
      <4>1. memory'[a] = memory[a]
        BY <2>1, <3>4 DEF ReadOne
      <4>2. \A w \in 1 .. n : w \in 1 .. n + 1
        OBVIOUS
      <4>3. WroteLast(t, a, n, memory[a])
        BY <2>8
      <4>4. QED
        BY ONLY <3>1, <3>2, <3>4, <4>1, <4>2, <4>3 DEF WroteLast
    <3>5. QED
      BY <3>3, <3>4
  <2>10. ASSUME NEW k \in 1 .. n + 1, NEW a \in Address, Touches(t, k, "load", a)
         PROVE  WroteLast(t, a, k - 1, t[k].bytes[a])
    <3>1. CASE k = n + 1
      <4>1. t[k].bytes[a] = memory[a] /\ k - 1 = n
        BY <2>4, <2>5, <2>10, <3>1 DEF Touches
      <4>2. QED
        BY <2>8, <4>1
    <3>2. CASE k \in 1 .. n
      <4>1. t[k] = s[k]
        BY <2>4, <3>2
      <4>2. WroteLast(s, a, k - 1, s[k].bytes[a])
        BY <2>3, <2>10, <3>2, <4>1 DEF MemoryInv, Touches
      <4>3. k - 1 \in Nat /\ k - 1 <= n
        BY <3>2
      <4>4. QED
        BY <2>4, <4>1, <4>2, <4>3, WroteSame
    <3>3. QED
      BY <3>1, <3>2
  <2>11. QED
    BY <2>2, <2>3, <2>9, <2>10 DEF MemoryInv
<1>2. CASE Skip \/ Serialize
  <2>1. UNCHANGED <<All, currentId>>
    BY <1>2, TraceStays
  <2>2. ~aborted' => ~aborted /\ UNCHANGED memory
    BY <1>2 DEF Skip, Serialize, CommitOneDynamicInst, program
  <2>3. QED
    BY <2>1, <2>2 DEF MemoryInv
<1>3. QED
  BY <1>1, <1>2, ReaderSteps

(* A byte is in the snapshot once it was loaded from: as the first load     *)
(* that has left the list found it.                                         *)
SnapshotInv ==
  /\ \E S : snapshot \in [Address -> S]
  /\ \A a \in Address :
       \/ snapshot[a] = NoValue /\ \A j \in 1 .. Len(out) : ~Touches(out, j, "load", a)
       \/ \E j \in 1 .. Len(out) :
            /\ Touches(out, j, "load", a) /\ snapshot[a] = out[j].bytes[a] /\ snapshot[a] # NoValue
            /\ \A i \in 1 .. Len(out) : Touches(out, i, "load", a) => j <= i

LEMMA WroteNumber ==
  ASSUME NEW t, NEW a, NEW n \in Nat, NEW w, WroteLast(t, a, n, w)
  PROVE  w \in 0 .. n /\ w # NoValue
  BY DEF WroteLast, NoValue

LEMMA SnapshotKept ==
  ASSUME ProgramInv, TraceInv, MemoryInv, SnapshotInv, [Next]_vars PROVE SnapshotInv'
<1>1. CASE (\E access \in Accesses \cup {NoAccess} : ReadOne(access)) \/ Skip
  <2>1. UNCHANGED <<out, snapshot>>
    BY <1>1 DEF ReadOne, Skip
  <2>2. QED
    BY <2>1 DEF SnapshotInv
<1>2. CASE Serialize
  <2>1. out' = Append(out, Head(list)) /\ AddAccess(Head(list)) /\ list # <<>>
    <3>1. Len(list) \in Nat /\ (list = <<>> <=> Len(list) = 0)
      BY SeqFields DEF TraceInv
    <3>2. Len(list) > Window => list # <<>>
      BY <3>1, WindowAssumption
    <3>3. QED
      BY <1>2, <3>2 DEF Serialize
  <2>2. PICK d : d = Head(list)
    OBVIOUS
  <2>3. PICK n \in Nat, s \in {out}, t \in {out'} : n = Len(out) /\ s = out /\ t = out'
    BY TraceFields
  <2>4. Len(t) = n + 1 /\ t[n + 1] = d /\ \A k \in 1 .. n : t[k] = s[k]
    BY <2>1, <2>2, <2>3, AppendFields DEF TraceInv
  <2>5. n + 1 \in 1 .. currentId /\ d = All[n + 1]
    <3>1. PICK l : l = list
      OBVIOUS
    <3>2. IsSeq(s) /\ IsSeq(l) /\ l # <<>> /\ Len(l) \in Nat /\ Len(l) # 0
      BY <2>1, <2>3, <3>1, SeqFields DEF TraceInv
    <3>3. Head(l) = (s \o l)[Len(s) + 1]
      BY ONLY <3>2, ConcatShift
    <3>4. n + Len(l) = currentId
      BY <2>3, <3>1, TraceFields
    <3>5. QED
      BY <2>2, <2>3, <3>1, <3>2, <3>3, <3>4 DEF All
  <2>6. EntryOK(d, n + 1)
    BY <2>5 DEF TraceInv
  <2>7. \A k \in 1 .. n + 1 : k = n + 1 \/ (k \in 1 .. n /\ k <= n + 1)
    OBVIOUS
  <2>8. \A k \in 1 .. n : k \in 1 .. n + 1
    OBVIOUS
  <2>9. PICK S : snapshot \in [Address -> S]
    BY DEF SnapshotInv
  <2>10. PICK p \in {snapshot}, q \in {snapshot'} : p = snapshot /\ q = snapshot'
    OBVIOUS
  <2>11. \A a \in Address : \A k \in 1 .. n : Touches(t, k, "load", a) <=> Touches(s, k, "load", a)
    BY <2>4 DEF Touches
  <2>12. \A a \in Address : Touches(t, n + 1, "load", a) <=> Code[d.inst].op = "load" /\ a \in Bytes(d.access)
    BY <2>4 DEF Touches
  <2>13. ASSUME NEW a \in Address
         PROVE  \/ q[a] = NoValue /\ \A j \in 1 .. n + 1 : ~Touches(t, j, "load", a)
                \/ \E j \in 1 .. n + 1 :
                     /\ Touches(t, j, "load", a) /\ q[a] = t[j].bytes[a] /\ q[a] # NoValue
                     /\ \A i \in 1 .. n + 1 : Touches(t, i, "load", a) => j <= i
    <3>1. \/ p[a] = NoValue /\ \A j \in 1 .. n : ~Touches(s, j, "load", a)
          \/ \E j \in 1 .. n : /\ Touches(s, j, "load", a) /\ p[a] = s[j].bytes[a] /\ p[a] # NoValue
                               /\ \A i \in 1 .. n : Touches(s, i, "load", a) => j <= i
      BY <2>3, <2>10 DEF SnapshotInv
    <3>2. CASE \E j \in 1 .. n : /\ Touches(s, j, "load", a) /\ p[a] = s[j].bytes[a] /\ p[a] # NoValue
                                 /\ \A i \in 1 .. n : Touches(s, i, "load", a) => j <= i
      <4>1. PICK j \in 1 .. n : /\ Touches(s, j, "load", a) /\ p[a] = s[j].bytes[a] /\ p[a] # NoValue
                                /\ \A i \in 1 .. n : Touches(s, i, "load", a) => j <= i
        BY <3>2
      <4>2. q[a] = p[a]
        BY <2>1, <2>2, <2>10, <4>1 DEF AddAccess
      <4>3. j <= n + 1
        OBVIOUS
      <4>4. \A i \in 1 .. n + 1 : Touches(t, i, "load", a) => j <= i
        BY <2>7, <2>11, <4>1, <4>3
      <4>5. Touches(t, j, "load", a) /\ t[j] = s[j] /\ j \in 1 .. n + 1
        BY <2>4, <2>8, <2>11, <4>1
      <4>6. QED
        BY ONLY <4>1, <4>2, <4>4, <4>5
    <3>3. CASE p[a] = NoValue /\ \A j \in 1 .. n : ~Touches(s, j, "load", a)
      <4>1. CASE Code[d.inst].op = "load" /\ a \in Bytes(d.access)
        <5>1. q[a] = d.bytes[a]
          BY <2>1, <2>2, <2>10, <3>3, <4>1 DEF AddAccess
        <5>2. Touches(All, n + 1, "load", a)
          BY <2>5, <4>1 DEF Touches
        <5>3. WroteLast(All, a, n + 1 - 1, All[n + 1].bytes[a])
          BY <2>5, <5>2 DEF MemoryInv
        <5>4. q[a] # NoValue
          BY <2>5, <5>1, <5>3, WroteNumber
        <5>5. \A i \in 1 .. n + 1 : Touches(t, i, "load", a) => n + 1 <= i
          BY <2>7, <2>11, <3>3
        <5>6. Touches(t, n + 1, "load", a) /\ q[a] = t[n + 1].bytes[a] /\ n + 1 \in 1 .. n + 1
          BY <2>4, <2>12, <4>1, <5>1
        <5>7. QED
          BY ONLY <5>4, <5>5, <5>6
      <4>2. CASE ~ (Code[d.inst].op = "load" /\ a \in Bytes(d.access))
        <5>1. q[a] = p[a]
          BY <2>1, <2>2, <2>10, <4>2 DEF AddAccess
        <5>2. \A j \in 1 .. n + 1 : ~Touches(t, j, "load", a)
          BY <2>7, <2>11, <2>12, <3>3, <4>2
        <5>3. QED
          BY <3>3, <5>1, <5>2
      <4>3. QED
        BY <4>1, <4>2
    <3>4. QED
      BY <3>1, <3>2, <3>3
  <2>14. \E T : q \in [Address -> T]
    <3>1. CASE q = p
      BY <2>9, <2>10, <3>1
    <3>2. CASE q = [a \in Address |-> IF a \in Bytes(d.access) /\ p[a] = NoValue
                                      THEN d.bytes[a] ELSE p[a]]
      <4>1. q \in [Address -> {q[a] : a \in Address}]
        BY <3>2
      <4>2. QED
        BY <4>1
    <3>3. QED
      BY <2>1, <2>2, <2>10, <3>1, <3>2 DEF AddAccess
  <2>15. QED
    BY <2>3, <2>4, <2>10, <2>13, <2>14 DEF SnapshotInv
<1>3. QED
  BY <1>1, <1>2, ReaderSteps

LEMMA MemoryInitOK == Init => MemoryInv /\ SnapshotInv
<1> SUFFICES ASSUME Init PROVE MemoryInv /\ SnapshotInv
  OBVIOUS
<1>1. currentId = 0 /\ out = <<>> /\ Len(out) = 0
  BY DEF Init, GraphInit
<1>2. memory = [a \in Address |-> 0] /\ snapshot = [a \in Address |-> NoValue]
  BY DEF Init, ProgramInit, WarmerInit
<1>3. \A k \in 1 .. 0 : FALSE
  OBVIOUS
<1>4. MemoryInv
  BY <1>1, <1>2, <1>3 DEF MemoryInv, WroteLast
<1>5. snapshot \in [Address -> {NoValue}]
  BY <1>2
<1>6. SnapshotInv
  BY <1>1, <1>2, <1>3, <1>5 DEF SnapshotInv
<1>7. QED
  BY <1>4, <1>6

(* The last of some writers is their greatest number. *)
LEMMA LastIsMax ==
  ASSUME NEW n \in Nat, NEW t, NEW a, NEW w, WroteLast(t, a, n, w), NEW W,
         W = {j \in 1 .. n : Touches(t, j, "store", a)}
  PROVE  IF W = {} THEN w = 0 ELSE w = Max(W)
<1>1. CASE W = {}
  <2>1. ~ (w \in 1 .. n /\ Touches(t, w, "store", a))
    BY <1>1
  <2>2. QED
    BY <1>1, <2>1 DEF WroteLast
<1>2. CASE W # {}
  <2>1. PICK j \in 1 .. n : Touches(t, j, "store", a)
    BY <1>2
  <2>2. j <= w /\ w \in Int
    BY <2>1 DEF WroteLast
  <2>3. w \in W /\ \A y \in W : w >= y
    BY <2>1, <2>2 DEF WroteLast
  <2>4. \A x \in W : (\A y \in W : x >= y) => x = w
    <3>1. \A x \in W : x \in Int
      OBVIOUS
    <3>2. QED
      BY <2>2, <2>3, <3>1
  <2>5. Max(W) = w
    BY ONLY <2>3, <2>4 DEF Max
  <2>6. QED
    BY <1>2, <2>5
<1>3. QED
  BY <1>1, <1>2

LEMMA SnapshotTells == TraceInv /\ MemoryInv /\ SnapshotInv => SnapshotReplays
<1> SUFFICES ASSUME TraceInv, MemoryInv, SnapshotInv PROVE SnapshotReplays
  OBVIOUS
<1>1. PICK n \in Nat, m \in Nat, s \in {out}, t \in {All} :
        n = currentId /\ m = Len(out) /\ s = out /\ t = All
  BY TraceFields
<1>2. /\ DOMAIN t = 1 .. n /\ DOMAIN s = 1 .. m /\ m <= n
      /\ \A k \in 1 .. m : k \in 1 .. n /\ t[k] = s[k]
  BY <1>1, TraceFields
<1>3. ASSUME NEW k \in Executions(out, "load"), NEW a \in Bytes(out[k].access)
      PROVE  LET writers == {j \in Executions(All, "store") : j < k /\ a \in Bytes(All[j].access)}
             IN  out[k].bytes[a] = IF writers = {} THEN snapshot[a] ELSE Max(writers)
  <2>1. k \in 1 .. m /\ Touches(s, k, "load", a)
    BY <1>1, <1>2, <1>3 DEF Executions, Touches
  <2>2. a \in Address
    <3>1. EntryOK(t[k], k) /\ t[k] = s[k]
      BY <1>1, <1>2, <2>1 DEF TraceInv
    <3>2. QED
      BY <2>1, <3>1, EntryAccess DEF Touches
  <2>3. Touches(t, k, "load", a) /\ k \in 1 .. n /\ t[k].bytes = s[k].bytes
    BY <1>2, <2>1 DEF Touches
  <2>4. PICK w : w = s[k].bytes[a]
    OBVIOUS
  <2>5. WroteLast(t, a, k - 1, w)
    BY <1>1, <2>2, <2>3, <2>4 DEF MemoryInv
  <2>6. PICK W : W = {j \in 1 .. k - 1 : Touches(t, j, "store", a)}
    OBVIOUS
  <2>7. k - 1 \in Nat
    BY <2>1
  <2>8. IF W = {} THEN w = 0 ELSE w = Max(W)
    BY <2>5, <2>6, <2>7, LastIsMax
  <2>9. W = {j \in Executions(All, "store") : j < k /\ a \in Bytes(All[j].access)}
    <3>1. \A j : j \in 1 .. k - 1 <=> j \in 1 .. n /\ j < k
      BY <2>3
    <3>2. QED
      BY <1>1, <1>2, <2>6, <3>1 DEF Executions, Touches
  <2>10. CASE W = {}
    <3>1. PICK j \in 1 .. m : /\ Touches(s, j, "load", a) /\ snapshot[a] = s[j].bytes[a]
                              /\ \A i \in 1 .. m : Touches(s, i, "load", a) => j <= i
      BY <1>1, <2>1, <2>2 DEF SnapshotInv
    <3>2. j <= k /\ j \in 1 .. n /\ Touches(t, j, "load", a) /\ t[j] = s[j] /\ j - 1 \in Nat
      BY <1>2, <2>1, <3>1 DEF Touches
    <3>3. WroteLast(t, a, j - 1, s[j].bytes[a])
      BY <1>1, <2>2, <3>2 DEF MemoryInv
    <3>4. PICK V : V = {i \in 1 .. j - 1 : Touches(t, i, "store", a)}
      OBVIOUS
    <3>5. V \subseteq W
      <4>1. \A i \in 1 .. j - 1 : i \in 1 .. k - 1
        BY <2>1, <3>2
      <4>2. QED
        BY <2>6, <3>4, <4>1
    <3>6. s[j].bytes[a] = 0
      <4>1. V = {}
        BY <2>10, <3>5
      <4>2. QED
        BY <3>2, <3>3, <3>4, <4>1, LastIsMax
    <3>7. QED
      BY <1>1, <2>4, <2>8, <2>9, <2>10, <3>1, <3>6
  <2>11. CASE W # {}
    BY <1>1, <2>4, <2>8, <2>9, <2>11
  <2>12. QED
    BY <2>10, <2>11
<1>4. QED
  BY <1>3 DEF SnapshotReplays

(* For every program, window and length of the trace: from the snapshot of  *)
(* initial memory, the serialized stores give each serialized load the      *)
(* bytes that it really read (CacheWarmer.cpp:37-82).                       *)
THEOREM SnapshotAlwaysReplays == Spec => []SnapshotReplays
<1>1. Init => ProgramInv /\ TraceInv /\ MemoryInv /\ SnapshotInv
  BY ProgramInitOK, TraceInitOK, MemoryInitOK DEF Init
<1>2. ProgramInv /\ TraceInv /\ MemoryInv /\ SnapshotInv /\ [Next]_vars =>
        (ProgramInv /\ TraceInv /\ MemoryInv /\ SnapshotInv)'
  BY ProgramKept, TraceKept, MemoryKept, SnapshotKept
<1>3. ProgramInv /\ TraceInv /\ MemoryInv /\ SnapshotInv => SnapshotReplays
  BY SnapshotTells
<1>4. QED
  BY <1>1, <1>2, <1>3, PTL DEF Spec

-----------------------------------------------------------------------------
(* Dependences through memory *)

(* The bytes that the first n entries have loaded, or stored. *)
AccessesOf(t, n, op) ==
  {e \in LogEntry : e.id \in 1 .. n /\ Touches(t, e.id, op, e.addr)}

AccessedBytes(access, id) == {[addr |-> a, id |-> id] : a \in Bytes(access)}

MapOK(m, E) == m \in AccessMap /\ Indexed(m) /\ Remembers(m, E)

(* The maps remember what the instructions of the trace have accessed.      *)
MapInv ==
  /\ MapOK(loadMap, AccessesOf(All, currentId, "load"))
  /\ MapOK(storeMap, AccessesOf(All, currentId, "store"))

(* t continues the n entries of s with one more access. *)
Continues(t, s, n, access) ==
  (\A k \in 1 .. n : t[k] = s[k]) /\ t[n + 1].access = access

AccessesContinue(t, s, n, access, op) ==
  AccessesOf(t, n + 1, op) =
    AccessesOf(s, n, op) \cup
      (IF Code[t[n + 1].inst].op = op THEN AccessedBytes(access, n + 1) ELSE {})

LEMMA AccessesGrow ==
  ASSUME NEW n \in Nat, NEW s, NEW t, NEW op, NEW access \in Accesses \cup {NoAccess},
         Continues(t, s, n, access)
  PROVE  AccessesContinue(t, s, n, access, op)
<1>0. (\A k \in 1 .. n : t[k] = s[k]) /\ t[n + 1].access = access
  BY DEF Continues
<1>1. PICK c : c = Code[t[n + 1].inst].op
  OBVIOUS
<1>2. \A k : k \in 1 .. n + 1 <=> k \in 1 .. n \/ k = n + 1
  OBVIOUS
<1>3. n + 1 \in Nat \ {InvalidId} /\ n + 1 \notin 1 .. n
  BY DEF InvalidId
<1>4. PICK X, Y, Z : /\ X = AccessesOf(t, n + 1, op) /\ Y = AccessesOf(s, n, op)
                     /\ Z = AccessedBytes(access, n + 1)
  OBVIOUS
<1>5. ASSUME NEW e \in X PROVE e \in Y \/ (c = op /\ e \in Z)
  <2>1. /\ e \in LogEntry /\ e.id \in 1 .. n + 1 /\ Code[t[e.id].inst].op = op
        /\ e.addr \in Bytes(t[e.id].access)
    BY <1>4, <1>5 DEF AccessesOf, Touches
  <2>2. CASE e.id = n + 1
    <3>1. c = op /\ e.addr \in Bytes(access)
      BY <1>0, <1>1, <2>1, <2>2
    <3>2. e = [addr |-> e.addr, id |-> n + 1]
      BY <2>1, <2>2 DEF LogEntry
    <3>3. QED
      BY <1>4, <3>1, <3>2 DEF AccessedBytes
  <2>3. CASE e.id \in 1 .. n
    BY <1>0, <1>4, <2>1, <2>3 DEF AccessesOf, Touches
  <2>4. QED
    BY <1>2, <2>1, <2>2, <2>3
<1>6. ASSUME NEW e \in Y PROVE e \in X
  BY <1>0, <1>2, <1>4, <1>6 DEF AccessesOf, Touches
<1>7. ASSUME NEW e \in Z, c = op PROVE e \in X
  <2>1. PICK a \in Bytes(access) : e = [addr |-> a, id |-> n + 1]
    BY <1>4, <1>7 DEF AccessedBytes
  <2>2. a \in Address
    BY <2>1, BytesOf
  <2>3. e \in LogEntry /\ e.id = n + 1 /\ e.addr = a
    BY <1>3, <2>1, <2>2 DEF LogEntry
  <2>4. QED
    BY <1>1, <1>2, <1>4, <1>7, <2>1, <2>3, <1>0 DEF AccessesOf, Touches
<1>8. X = Y \cup (IF c = op THEN Z ELSE {})
  BY <1>5, <1>6, <1>7
<1>9. QED
  BY <1>1, <1>4, <1>8 DEF AccessesContinue

LEMMA MapUpdated ==
  ASSUME NEW n \in Nat, NEW t, NEW op, NEW m, MapOK(m, AccessesOf(t, n, op)),
         NEW access \in Accesses \cup {NoAccess}
  PROVE  MapOK(UpdateBytes(m, access, n + 1), AccessesOf(t, n, op) \cup AccessedBytes(access, n + 1))
<1>1. PICK E : E = AccessesOf(t, n, op)
  OBVIOUS
<1>2. E \in SUBSET LogEntry /\ \A e \in E : e.id < n + 1
  BY <1>1 DEF AccessesOf, Touches
<1>3. PICK id : id = n + 1
  OBVIOUS
<1>4. id \in Nat \ {InvalidId} /\ \A e \in E : e.id < id
  BY <1>2, <1>3 DEF InvalidId
<1>5. m \in AccessMap /\ Indexed(m) /\ Remembers(m, E)
  BY <1>1 DEF MapOK
<1>6. access.addr \in Nat /\ access.size \in Nat /\ Bytes(access) \subseteq Address
  BY BytesOf
<1>7. LET k == UpdateBytes(m, access, id) IN
      /\ k \in AccessMap /\ Indexed(k)
      /\ Remembers(k, E \cup {[addr |-> a, id |-> id] : a \in Bytes(access)})
  BY ONLY <1>2, <1>4, <1>5, <1>6, AccessRemembered
<1>8. QED
  BY <1>1, <1>3, <1>7 DEF MapOK, AccessedBytes

LEMMA MapKept == ASSUME ProgramInv, TraceInv, MapInv, [Next]_vars PROVE MapInv'
<1>1. CASE \E access \in Accesses \cup {NoAccess} : ReadOne(access)
  <2>1. PICK access \in Accesses \cup {NoAccess} : ReadOne(access)
    BY <1>1
  <2>2. PICK e : /\ EntryOf(e, access) /\ currentId' = currentId + 1
                 /\ All'[currentId + 1] = e
                 /\ \A k \in 1 .. currentId : All'[k] = All[k]
    BY <2>1, TraceGrows
  <2>3. PICK n \in Nat, s \in {All}, t \in {All'} : n = currentId /\ s = All /\ t = All'
    BY TraceFields
  <2>4. t[n + 1] = e /\ \A k \in 1 .. n : t[k] = s[k]
    BY <2>2, <2>3
  <2>5. t[n + 1].inst = Current /\ t[n + 1].access = access
    BY <2>2, <2>4 DEF EntryOf
  <2>6. PICK A : A = AccessedBytes(access, n + 1)
    OBVIOUS
  <2>7. \A op \in {"load", "store"} :
          AccessesOf(t, n + 1, op) =
            AccessesOf(s, n, op) \cup (IF Code[Current].op = op THEN A ELSE {})
    <3>1. ASSUME NEW op
          PROVE  AccessesOf(t, n + 1, op) =
                   AccessesOf(s, n, op) \cup
                     (IF Code[t[n + 1].inst].op = op THEN AccessedBytes(access, n + 1) ELSE {})
      <4>1. n \in Nat /\ access \in Accesses \cup {NoAccess}
        OBVIOUS
      <4>2. Continues(t, s, n, access)
        BY <2>4, <2>5 DEF Continues
      <4>3. AccessesContinue(t, s, n, access, op)
        BY ONLY <4>1, <4>2, AccessesGrow
      <4>4. QED
        BY <4>3 DEF AccessesContinue
    <3>2. QED
      BY ONLY <2>5, <2>6, <3>1
  <2>8. Code[Current].op \notin {"load", "store"} => A = {}
    <3>1. Code[Current].op \notin {"load", "store"} => Bytes(access) = {}
      BY <2>1, BytesOf DEF ReadOne
    <3>2. QED
      BY <2>6, <3>1 DEF AccessedBytes
  <2>9. MapOK(loadMap, AccessesOf(s, n, "load")) /\ MapOK(storeMap, AccessesOf(s, n, "store"))
    BY <2>3 DEF MapInv
  <2>10. /\ MapOK(UpdateBytes(loadMap, access, n + 1), AccessesOf(s, n, "load") \cup A)
         /\ MapOK(UpdateBytes(storeMap, access, n + 1), AccessesOf(s, n, "store") \cup A)
    BY <2>6, <2>9, MapUpdated
  <2>11. CASE Code[Current].op = "load"
    <3>1. loadMap' = UpdateBytes(loadMap, access, n + 1) /\ storeMap' = storeMap
      BY <2>2, <2>3, <2>11 DEF EntryOf
    <3>2. /\ AccessesOf(t, n + 1, "load") = AccessesOf(s, n, "load") \cup A
          /\ AccessesOf(t, n + 1, "store") = AccessesOf(s, n, "store")
      BY <2>7, <2>11
    <3>3. QED
      BY <2>2, <2>3, <2>9, <2>10, <3>1, <3>2 DEF MapInv
  <2>12. CASE Code[Current].op # "load"
    <3>1. storeMap' = UpdateBytes(storeMap, access, n + 1) /\ loadMap' = loadMap
      BY <2>2, <2>3, <2>12 DEF EntryOf
    <3>2. /\ AccessesOf(t, n + 1, "load") = AccessesOf(s, n, "load")
          /\ AccessesOf(t, n + 1, "store") = AccessesOf(s, n, "store") \cup A
      BY <2>7, <2>8, <2>12
    <3>3. QED
      BY <2>2, <2>3, <2>9, <2>10, <3>1, <3>2 DEF MapInv
  <2>13. QED
    BY <2>11, <2>12
<1>2. CASE Skip \/ Serialize
  <2>1. UNCHANGED <<All, currentId, loadMap, storeMap>>
    BY <1>2, TraceStays
  <2>2. QED
    BY <2>1 DEF MapInv
<1>3. QED
  BY <1>1, <1>2, ReaderSteps

(* The bytes that entries i to k - 1 touch, and whether the log has         *)
(* forgotten entry i by then.                                               *)
BytesBetween(t, op, i, k) ==
  UNION {{j} \X Bytes(t[j].access) : j \in {j \in i .. k - 1 : Code[t[j].inst].op = op}}
Forgot(t, op, i, k) == Cardinality(BytesBetween(t, op, i, k)) > LogThreshold

HasAccesses(t, n) == \A j \in 1 .. n : t[j].access \in Accesses \cup {NoAccess}

LEMMA InBetween ==
  ASSUME NEW t, NEW op, NEW i, NEW k, NEW j \in i .. k - 1, NEW a
  PROVE  Touches(t, j, op, a) => <<j, a>> \in BytesBetween(t, op, i, k)
<1> SUFFICES ASSUME Touches(t, j, op, a) PROVE <<j, a>> \in BytesBetween(t, op, i, k)
  OBVIOUS
<1>1. PICK B : B = {j} \X Bytes(t[j].access)
  OBVIOUS
<1>2. <<j, a>> \in B
  BY <1>1 DEF Touches
<1> DEFINE S == {{x} \X Bytes(t[x].access) : x \in {x \in i .. k - 1 : Code[t[x].inst].op = op}}
<1>3. B \in S
  BY <1>1 DEF Touches
<1>4. BytesBetween(t, op, i, k) = UNION S
  BY DEF BytesBetween
<1> HIDE DEF S
<1>5. QED
  BY ONLY <1>2, <1>3, <1>4

LEMMA FiniteBetween ==
  ASSUME NEW n \in Nat, NEW t, HasAccesses(t, n), NEW op, NEW i \in Nat \ {0}, NEW k \in 1 .. n + 1
  PROVE  IsFiniteSet(BytesBetween(t, op, i, k)) /\ Cardinality(BytesBetween(t, op, i, k)) \in Nat
<1>1. PICK J : J = {j \in i .. k - 1 : Code[t[j].inst].op = op}
  OBVIOUS
<1>2. IsFiniteSet(J)
  <2>1. J \in SUBSET (i .. k - 1) /\ i \in Int /\ k - 1 \in Int
    BY <1>1
  <2>2. IsFiniteSet(i .. k - 1)
    BY ONLY <2>1, FS_Interval
  <2>3. QED
    BY ONLY <2>1, <2>2, FS_Subset
<1>3. PICK S : S = {{j} \X Bytes(t[j].access) : j \in J}
  OBVIOUS
<1>4. PICK f : f = [j \in J |-> {j} \X Bytes(t[j].access)]
  OBVIOUS
<1>5. f \in Surjection(J, S)
  BY <1>3, <1>4 DEF Surjection
<1>6. IsFiniteSet(S)
  BY ONLY <1>2, <1>5, FS_Surjection
<1>7. \A T \in S : IsFiniteSet(T)
  <2>1. TAKE T \in S
  <2>2. PICK j \in J : T = {j} \X Bytes(t[j].access)
    BY <1>3
  <2>3. t[j].access \in Accesses \cup {NoAccess}
    <3>1. j \in 1 .. n
      BY <1>1
    <3>2. QED
      BY <3>1 DEF HasAccesses
  <2>4. PICK low \in Nat, size \in Nat : low = t[j].access.addr /\ size = t[j].access.size
    BY <2>3, BytesOf
  <2>5. Bytes(t[j].access) = low .. low + size - 1 /\ low \in Int /\ low + size - 1 \in Int
    BY <2>4 DEF Bytes
  <2>6. IsFiniteSet(Bytes(t[j].access))
    BY ONLY <2>5, FS_Interval
  <2>7. IsFiniteSet({j})
    BY ONLY FS_Singleton
  <2>8. QED
    BY ONLY <2>2, <2>6, <2>7, FS_Product
<1>8. IsFiniteSet(UNION S)
  BY ONLY <1>6, <1>7, FS_UNION
<1>9. BytesBetween(t, op, i, k) = UNION S
  BY <1>1, <1>3 DEF BytesBetween
<1>10. QED
  BY ONLY <1>8, <1>9, FS_CardinalityType

(* A full log of later accesses.                                            *)
LEMMA FullLog ==
  ASSUME NEW n \in Nat, NEW t, HasAccesses(t, n), NEW op, NEW m, MapOK(m, AccessesOf(t, n, op)),
         NEW e \in AccessesOf(t, n, op), Len(m.log) = LogThreshold,
         \A k \in DOMAIN m.log : Before(e, m.log[k])
  PROVE  Forgot(t, op, e.id, n + 1)
<1>1. PICK l : l = m.log
  OBVIOUS
<1>2. PICK L \in Nat : L = LogThreshold
  BY AddressAssumption
<1>3. DOMAIN l = 1 .. L
  BY <1>1, <1>2, LenProperties DEF MapOK, AccessMap
<1>4. PICK E : E = AccessesOf(t, n, op)
  OBVIOUS
<1>5. /\ \A k \in 1 .. L : l[k] \in E /\ Before(e, l[k])
      /\ \A j, k \in 1 .. L : j < k => Before(l[j], l[k])
  BY <1>1, <1>3, <1>4 DEF MapOK, Remembers
<1>6. \A x \in E : /\ x \in LogEntry /\ x.id \in 1 .. n /\ Touches(t, x.id, op, x.addr)
                   /\ x = [addr |-> x.addr, id |-> x.id]
  BY <1>4 DEF AccessesOf, LogEntry
<1>7. PICK g : g = [x \in 0 .. L |-> IF x = 0 THEN e ELSE l[x]]
  OBVIOUS
<1>8. \A x \in 0 .. L : x = 0 \/ x \in 1 .. L
  OBVIOUS
<1>9. \A x \in 0 .. L : g[x] \in E
  BY <1>4, <1>5, <1>7, <1>8
<1>10. \A x, y \in 0 .. L : x < y => Before(g[x], g[y])
  BY <1>5, <1>7, <1>8
<1>11. PICK h : h = [x \in 0 .. L |-> <<g[x].id, g[x].addr>>]
  OBVIOUS
<1>12. PICK P : P = BytesBetween(t, op, e.id, n + 1)
  OBVIOUS
<1>13. \A x \in 0 .. L : h[x] \in P
  <2>1. TAKE x \in 0 .. L
  <2>2. g[x].id \in 1 .. n /\ Touches(t, g[x].id, op, g[x].addr)
    BY <1>6, <1>9
  <2>3. e.id \in 1 .. n
    BY <1>4, <1>6
  <2>4. e.id <= g[x].id
    <3>1. x = 0 => g[x] = e
      BY <1>7
    <3>2. x \in 1 .. L => Before(e, g[x])
      BY <1>5, <1>7
    <3>3. QED
      BY <1>8, <2>2, <2>3, <3>1, <3>2 DEF Before
  <2>5. g[x].id \in e.id .. n + 1 - 1
    BY <2>2, <2>3, <2>4
  <2>6. <<g[x].id, g[x].addr>> \in P
    BY <1>12, <2>2, <2>5, InBetween
  <2>7. QED
    BY <1>11, <2>6
<1>14. \A x, y \in 0 .. L : h[x] = h[y] => x = y
  <2>1. ASSUME NEW x \in 0 .. L, NEW y \in 0 .. L, x < y PROVE h[x] # h[y]
    <3>1. Before(g[x], g[y]) /\ g[x] \in LogEntry /\ g[y] \in LogEntry
      BY <1>6, <1>9, <1>10, <2>1
    <3>2. g[x] # g[y]
      BY <3>1, BeforeOrder
    <3>3. h[x] = <<g[x].id, g[x].addr>> /\ h[y] = <<g[y].id, g[y].addr>>
      BY <1>11
    <3>4. g[x] = [addr |-> g[x].addr, id |-> g[x].id] /\ g[y] = [addr |-> g[y].addr, id |-> g[y].id]
      BY <1>6, <1>9
    <3>5. QED
      BY ONLY <3>2, <3>3, <3>4
  <2>2. QED
    BY <2>1
<1>15. h \in Injection(0 .. L, P)
  BY <1>11, <1>13, <1>14 DEF Injection, IsInjective
<1>16. IsFiniteSet(P) /\ Cardinality(P) \in Nat
  <2>1. e.id \in Nat \ {0} /\ n + 1 \in 1 .. n + 1
    BY <1>4, <1>6
  <2>2. QED
    BY <1>12, <2>1, FiniteBetween
<1>17. Cardinality(0 .. L) <= Cardinality(P)
  BY ONLY <1>15, <1>16, FS_Injection
<1>18. Cardinality(0 .. L) = L + 1
  <2>1. Cardinality(0 .. L) = IF 0 > L THEN 0 ELSE L - 0 + 1
    BY FS_Interval
  <2>2. QED
    BY <2>1
<1>19. QED
  BY <1>2, <1>12, <1>16, <1>17, <1>18 DEF Forgot

(* What a look-up says: the last access to a, or nothing, and then the log  *)
(* has forgotten every access to a.                                         *)
LEMMA LookedUp ==
  ASSUME NEW n \in Nat, NEW t, HasAccesses(t, n), NEW op, NEW m, MapOK(m, AccessesOf(t, n, op)),
         NEW a \in Address
  PROVE  LET w == GetLastAccess(m, a) IN
         /\ w # InvalidId => w \in 1 .. n /\ Touches(t, w, op, a)
         /\ \A i \in 1 .. n : Touches(t, i, op, a) =>
              (w # InvalidId /\ i <= w) \/ Forgot(t, op, i, n + 1)
<1>1. PICK w : w = m.map[a]
  OBVIOUS
<1>2. PICK E : E = AccessesOf(t, n, op)
  OBVIOUS
<1>3. m \in AccessMap /\ Indexed(m) /\ Remembers(m, E)
  BY <1>2 DEF MapOK
<1>4. \A x \in E : x \in LogEntry /\ x.id \in 1 .. n /\ Touches(t, x.id, op, x.addr)
  BY <1>2 DEF AccessesOf
<1>5. w # InvalidId => \E k \in DOMAIN m.log :
        /\ m.log[k] = [addr |-> a, id |-> w]
        /\ \A j \in DOMAIN m.log : m.log[j].addr = a => j <= k
  BY <1>1, <1>3 DEF Indexed, Newest
<1>6. w = InvalidId => \A k \in DOMAIN m.log : m.log[k].addr # a
  BY <1>1, <1>3 DEF Indexed
<1>7. w # InvalidId => w \in 1 .. n /\ Touches(t, w, op, a)
  <2>1. SUFFICES ASSUME w # InvalidId PROVE w \in 1 .. n /\ Touches(t, w, op, a)
    OBVIOUS
  <2>2. PICK k \in DOMAIN m.log : m.log[k] = [addr |-> a, id |-> w]
    BY <1>5, <2>1
  <2>3. m.log[k] \in E
    BY <1>3 DEF Remembers
  <2>4. m.log[k].id = w /\ m.log[k].addr = a
    BY <2>2
  <2>5. QED
    BY <1>4, <2>3, <2>4
<1>8. ASSUME NEW i \in 1 .. n, Touches(t, i, op, a)
      PROVE  (w # InvalidId /\ i <= w) \/ Forgot(t, op, i, n + 1)
  <2>1. PICK e : e = [addr |-> a, id |-> i]
    OBVIOUS
  <2>2. e \in E /\ e.id = i /\ e.addr = a /\ e \in LogEntry
    BY <1>2, <1>8, <2>1 DEF AccessesOf, LogEntry, InvalidId
  <2>3. \/ \E j \in DOMAIN m.log : m.log[j] = e
        \/ Len(m.log) = LogThreshold /\ \A k \in DOMAIN m.log : Before(e, m.log[k])
    BY <1>3, <2>2 DEF Remembers
  <2>4. CASE w = InvalidId
    <3>1. Len(m.log) = LogThreshold /\ \A k \in DOMAIN m.log : Before(e, m.log[k])
      BY <1>6, <2>2, <2>3, <2>4
    <3>2. Forgot(t, op, e.id, n + 1)
      BY <1>2, <2>2, <3>1, FullLog
    <3>3. QED
      BY <2>2, <3>2
  <2>5. CASE w # InvalidId
    <3>1. PICK k \in DOMAIN m.log : /\ m.log[k] = [addr |-> a, id |-> w]
                                    /\ \A j \in DOMAIN m.log : m.log[j].addr = a => j <= k
      BY <1>5, <2>5
    <3>2. PICK f : f = m.log[k]
      OBVIOUS
    <3>3. f \in LogEntry /\ f.id = w /\ f.addr = a /\ w \in 1 .. n
      <4>1. f \in E
        BY <1>3, <3>2 DEF Remembers
      <4>2. QED
        BY <1>4, <3>1, <3>2, <4>1
    <3>4. CASE \E j \in DOMAIN m.log : m.log[j] = e
      <4>1. PICK j \in DOMAIN m.log : m.log[j] = e
        BY <3>4
      <4>2. j <= k
        BY <2>2, <3>1, <4>1
      <4>3. j \in Nat /\ k \in Nat
        <5>1. DOMAIN m.log = 1 .. Len(m.log)
          BY <1>3, LenProperties DEF AccessMap
        <5>2. QED
          BY <5>1
      <4>4. j = k \/ j < k
        BY <4>2, <4>3
      <4>5. CASE j = k
        BY <2>2, <2>5, <3>2, <3>3, <4>1, <4>5
      <4>6. CASE j < k
        <5>1. Before(e, f)
          BY <1>3, <3>2, <4>1, <4>6 DEF Remembers
        <5>2. i < w
          BY <2>2, <3>3, <5>1, BeforeOrder
        <5>3. QED
          BY <2>5, <3>3, <5>2
      <4>7. QED
        BY <4>4, <4>5, <4>6
    <3>5. CASE \A x \in DOMAIN m.log : Before(e, m.log[x])
      <4>1. Before(e, f)
        BY <3>2, <3>5
      <4>2. i < w
        BY <2>2, <3>3, <4>1, BeforeOrder
      <4>3. QED
        BY <2>5, <3>3, <4>2
    <3>6. QED
      BY <2>3, <3>4, <3>5
  <2>6. QED
    BY <2>4, <2>5
<1>9. QED
  BY <1>1, <1>7, <1>8 DEF GetLastAccess

(* Does entry k wait for the last accesses to its bytes before it?          *)
WaitsFor(t, k, op) ==
  \A a \in Bytes(t[k].access) : \A i \in 1 .. k - 1 : Touches(t, i, op, a) =>
    \/ \E w \in t[k].mem : i <= w /\ Touches(t, w, op, a)
    \/ Forgot(t, op, i, k)

MemDepsOK(t, k) ==
  /\ t[k].mem \subseteq 1 .. k - 1
  /\ \A i \in t[k].mem : \E a \in Bytes(t[k].access) :
       \/ Touches(t, i, "store", a)
       \/ Touches(t, i, "load", a) /\ Code[t[k].inst].op # "load"
  /\ WaitsFor(t, k, "store")
  /\ Code[t[k].inst].op # "load" => WaitsFor(t, k, "load")

DepsInv == \A k \in 1 .. currentId : MemDepsOK(All, k)

LEMMA BetweenSame ==
  ASSUME NEW n \in Nat, NEW s, NEW t, \A j \in 1 .. n : t[j] = s[j], NEW op, NEW i \in Nat \ {0},
         NEW k \in Nat, k <= n + 1
  PROVE  Forgot(s, op, i, k) <=> Forgot(t, op, i, k)
<1>1. \A j \in i .. k - 1 : t[j] = s[j]
  <2>1. \A j \in i .. k - 1 : j \in 1 .. n
    OBVIOUS
  <2>2. QED
    BY <2>1
<1>2. {j \in i .. k - 1 : Code[t[j].inst].op = op} = {j \in i .. k - 1 : Code[s[j].inst].op = op}
  BY <1>1
<1>3. PICK J : J = {j \in i .. k - 1 : Code[s[j].inst].op = op}
  OBVIOUS
<1>4. {{j} \X Bytes(t[j].access) : j \in J} = {{j} \X Bytes(s[j].access) : j \in J}
  BY <1>1, <1>3
<1>5. BytesBetween(t, op, i, k) = BytesBetween(s, op, i, k)
  BY ONLY <1>2, <1>3, <1>4 DEF BytesBetween
<1>6. QED
  BY ONLY <1>5 DEF Forgot

LEMMA MemDepsSame ==
  ASSUME NEW n \in Nat, NEW s, NEW t, \A j \in 1 .. n : t[j] = s[j], NEW k \in 1 .. n,
         MemDepsOK(s, k)
  PROVE  MemDepsOK(t, k)
<1>1. \A i \in 1 .. k - 1 : i \in 1 .. n /\ i \in Nat \ {0}
  OBVIOUS
<1>2. t[k] = s[k] /\ \A i \in 1 .. k - 1 : t[i] = s[i]
  BY <1>1
<1>3. t[k].mem \subseteq 1 .. k - 1
  BY <1>2 DEF MemDepsOK
<1>4. \A i \in 1 .. k - 1, op \in {"load", "store"}, a \in Bytes(t[k].access) :
        Touches(t, i, op, a) <=> Touches(s, i, op, a)
  BY <1>2 DEF Touches
<1>5. \A i \in 1 .. k - 1, op \in {"load", "store"} : Forgot(s, op, i, k) <=> Forgot(t, op, i, k)
  <2>1. k \in Nat /\ k <= n + 1
    OBVIOUS
  <2>2. QED
    BY <1>1, <2>1, BetweenSame
<1>6. ASSUME NEW op \in {"load", "store"}, WaitsFor(s, k, op) PROVE WaitsFor(t, k, op)
  BY <1>2, <1>3, <1>4, <1>5, <1>6 DEF WaitsFor
<1>7. \A i \in t[k].mem : \E a \in Bytes(t[k].access) :
        \/ Touches(t, i, "store", a)
        \/ Touches(t, i, "load", a) /\ Code[t[k].inst].op # "load"
  <2>1. TAKE i \in t[k].mem
  <2>2. PICK a \in Bytes(t[k].access) : \/ Touches(s, i, "store", a)
                                        \/ Touches(s, i, "load", a) /\ Code[t[k].inst].op # "load"
    BY <1>2 DEF MemDepsOK
  <2>3. QED
    BY <1>3, <1>4, <2>2
<1>8. QED
  BY <1>2, <1>3, <1>6, <1>7 DEF MemDepsOK

LEMMA NewDeps ==
  ASSUME NEW n \in Nat, NEW t, HasAccesses(t, n), NEW loads, NEW stores,
         MapOK(loads, AccessesOf(t, n, "load")), MapOK(stores, AccessesOf(t, n, "store")),
         NEW access \in Accesses \cup {NoAccess}, t[n + 1].access = access,
         t[n + 1].mem = GetMemoryDependence(loads, stores, access, Code[t[n + 1].inst].op = "load")
  PROVE  MemDepsOK(t, n + 1)
<1>1. PICK e, isLoad : e = t[n + 1] /\ isLoad = (Code[e.inst].op = "load")
  OBVIOUS
<1>2. PICK A : A = Bytes(access)
  OBVIOUS
<1>3. A \subseteq Address /\ Bytes(e.access) = A
  BY <1>1, <1>2, BytesOf
<1>4. PICK S, L : /\ S = {GetLastAccess(stores, a) : a \in A}
                  /\ L = {GetLastAccess(loads, a) : a \in A}
  OBVIOUS
<1>5. e.mem = (S \cup (IF isLoad THEN {} ELSE L)) \ {InvalidId}
  BY <1>1, <1>2, <1>4 DEF GetMemoryDependence
<1>6. \A a \in A : LET w == GetLastAccess(stores, a) IN
        /\ w # InvalidId => w \in 1 .. n /\ Touches(t, w, "store", a)
        /\ \A i \in 1 .. n : Touches(t, i, "store", a) =>
             (w # InvalidId /\ i <= w) \/ Forgot(t, "store", i, n + 1)
  BY <1>3, LookedUp
<1>7. \A a \in A : LET w == GetLastAccess(loads, a) IN
        /\ w # InvalidId => w \in 1 .. n /\ Touches(t, w, "load", a)
        /\ \A i \in 1 .. n : Touches(t, i, "load", a) =>
             (w # InvalidId /\ i <= w) \/ Forgot(t, "load", i, n + 1)
  BY <1>3, LookedUp
<1>8. 1 .. n + 1 - 1 = 1 .. n
  OBVIOUS
<1>9. ASSUME NEW i \in e.mem
      PROVE  /\ i \in 1 .. n
             /\ \E a \in A : Touches(t, i, "store", a) \/ (Touches(t, i, "load", a) /\ ~isLoad)
  <2>1. i # InvalidId /\ (i \in S \/ (i \in L /\ ~isLoad))
    BY <1>5, <1>9
  <2>2. CASE i \in S
    <3>1. PICK a \in A : i = GetLastAccess(stores, a)
      BY <1>4, <2>2
    <3>2. QED
      BY <1>6, <2>1, <3>1
  <2>3. CASE i \in L /\ ~isLoad
    <3>1. PICK a \in A : i = GetLastAccess(loads, a)
      BY <1>4, <2>3
    <3>2. QED
      BY <1>7, <2>1, <2>3, <3>1
  <2>4. QED
    BY <2>1, <2>2, <2>3
<1>10. WaitsFor(t, n + 1, "store")
  <2>1. ASSUME NEW a \in A, NEW i \in 1 .. n, Touches(t, i, "store", a)
        PROVE  \/ \E w \in e.mem : i <= w /\ Touches(t, w, "store", a)
               \/ Forgot(t, "store", i, n + 1)
    <3>1. PICK w : w = GetLastAccess(stores, a)
      OBVIOUS
    <3>2. /\ w # InvalidId => w \in 1 .. n /\ Touches(t, w, "store", a)
          /\ (w # InvalidId /\ i <= w) \/ Forgot(t, "store", i, n + 1)
      BY <1>6, <2>1, <3>1
    <3>3. w # InvalidId => w \in e.mem
      BY <1>4, <1>5, <3>1
    <3>4. QED
      BY <3>2, <3>3
  <2>2. QED
    BY <1>1, <1>3, <1>8, <2>1 DEF WaitsFor
<1>11. ASSUME ~isLoad PROVE WaitsFor(t, n + 1, "load")
  <2>1. ASSUME NEW a \in A, NEW i \in 1 .. n, Touches(t, i, "load", a)
        PROVE  \/ \E w \in e.mem : i <= w /\ Touches(t, w, "load", a)
               \/ Forgot(t, "load", i, n + 1)
    <3>1. PICK w : w = GetLastAccess(loads, a)
      OBVIOUS
    <3>2. /\ w # InvalidId => w \in 1 .. n /\ Touches(t, w, "load", a)
          /\ (w # InvalidId /\ i <= w) \/ Forgot(t, "load", i, n + 1)
      BY <1>7, <2>1, <3>1
    <3>3. w # InvalidId => w \in e.mem
      BY <1>4, <1>5, <1>11, <3>1
    <3>4. QED
      BY <3>2, <3>3
  <2>2. QED
    BY <1>1, <1>3, <1>8, <2>1 DEF WaitsFor
<1>12. Code[t[n + 1].inst].op # "load" <=> ~isLoad
  BY <1>1
<1>13. t[n + 1].mem \subseteq 1 .. n + 1 - 1
  BY ONLY <1>1, <1>8, <1>9
<1>14. \A i \in t[n + 1].mem : \E a \in Bytes(t[n + 1].access) :
         \/ Touches(t, i, "store", a)
         \/ Touches(t, i, "load", a) /\ Code[t[n + 1].inst].op # "load"
  BY ONLY <1>1, <1>3, <1>9, <1>12, Zenon
<1>15. Code[t[n + 1].inst].op # "load" => WaitsFor(t, n + 1, "load")
  BY <1>11, <1>12
<1>16. QED
  BY ONLY <1>10, <1>13, <1>14, <1>15 DEF MemDepsOK

LEMMA DepsKept == ASSUME ProgramInv, TraceInv, MapInv, DepsInv, [Next]_vars PROVE DepsInv'
<1>1. CASE \E access \in Accesses \cup {NoAccess} : ReadOne(access)
  <2>1. PICK access \in Accesses \cup {NoAccess} : ReadOne(access)
    BY <1>1
  <2>2. PICK e : /\ EntryOf(e, access) /\ currentId' = currentId + 1
                 /\ All'[currentId + 1] = e
                 /\ \A k \in 1 .. currentId : All'[k] = All[k]
    BY <2>1, TraceGrows
  <2>3. PICK n \in Nat, s \in {All}, t \in {All'} : n = currentId /\ s = All /\ t = All'
    BY TraceFields
  <2>4. t[n + 1] = e /\ \A k \in 1 .. n : t[k] = s[k]
    BY <2>2, <2>3
  <2>5. /\ t[n + 1].inst = Current /\ t[n + 1].access = access
        /\ t[n + 1].mem = GetMemoryDependence(loadMap, storeMap, access, Code[Current].op = "load")
    BY <2>2, <2>4 DEF EntryOf
  <2>6. HasAccesses(t, n)
    <3>1. \A k \in 1 .. n : EntryOK(t[k], k)
      BY <2>3, <2>4 DEF TraceInv
    <3>2. QED
      BY <3>1, EntryAccess DEF HasAccesses
  <2>7. \A op \in {"load", "store"} : AccessesOf(t, n, op) = AccessesOf(s, n, op)
    BY <2>4 DEF AccessesOf, Touches
  <2>8. PICK loads, stores : loads = loadMap /\ stores = storeMap
    OBVIOUS
  <2>9. MapOK(loads, AccessesOf(t, n, "load")) /\ MapOK(stores, AccessesOf(t, n, "store"))
    BY <2>3, <2>7, <2>8 DEF MapInv
  <2>10. t[n + 1].mem =
           GetMemoryDependence(loads, stores, access, Code[t[n + 1].inst].op = "load")
    BY <2>5, <2>8
  <2>11. MemDepsOK(t, n + 1)
    BY <2>5, <2>6, <2>9, <2>10, NewDeps
  <2>12. \A k \in 1 .. n : MemDepsOK(t, k)
    <3>1. \A k \in 1 .. n : MemDepsOK(s, k)
      BY <2>3 DEF DepsInv
    <3>2. QED
      BY <2>4, <3>1, MemDepsSame
  <2>13. \A k \in 1 .. n + 1 : k = n + 1 \/ k \in 1 .. n
    OBVIOUS
  <2>14. QED
    BY <2>2, <2>3, <2>11, <2>12, <2>13 DEF DepsInv
<1>2. CASE Skip \/ Serialize
  <2>1. UNCHANGED <<All, currentId>>
    BY <1>2, TraceStays
  <2>2. QED
    BY <2>1 DEF DepsInv
<1>3. QED
  BY <1>1, <1>2, ReaderSteps

LEMMA MapInitOK == Init => MapInv /\ DepsInv
<1> SUFFICES ASSUME Init PROVE MapInv /\ DepsInv
  OBVIOUS
<1>1. currentId = 0 /\ loadMap = EmptyMap /\ storeMap = EmptyMap
  BY DEF Init, GraphInit
<1>2. \A t, op : AccessesOf(t, 0, op) = {}
  BY DEF AccessesOf
<1>3. MapOK(EmptyMap, {})
  BY EmptyMapIndexed, EmptyMapRemembers DEF MapOK
<1>4. QED
  BY <1>1, <1>2, <1>3 DEF MapInv, DepsInv

(* What each of the first k entries waits for, through others. *)
IsReach(f, t, k) ==
  f = [j \in 0 .. k |-> IF j = 0 THEN {} ELSE t[j].mem \cup (UNION {f[d] : d \in t[j].mem})]

(* Entries wait for earlier ones. *)
WaitsBack(t, n) == \A j \in 1 .. n : t[j].mem \subseteq 1 .. j - 1

LEMMA ReachExists ==
  ASSUME NEW n \in Nat, NEW t, WaitsBack(t, n), NEW m \in 0 .. n
  PROVE  \E f : IsReach(f, t, m)
<1> DEFINE S == {k \in Nat : k <= n => \E f : IsReach(f, t, k)}
<1>1. 0 \in S
  <2>1. PICK f : f = [j \in 0 .. 0 |-> {}]
    OBVIOUS
  <2>2. f = [j \in 0 .. 0 |-> IF j = 0 THEN {} ELSE t[j].mem \cup (UNION {f[d] : d \in t[j].mem})]
    BY <2>1
  <2>3. IsReach(f, t, 0)
    BY ONLY <2>2 DEF IsReach
  <2>4. QED
    BY <2>3
<1>2. ASSUME NEW k \in Nat, k \in S, k + 1 <= n PROVE \E f : IsReach(f, t, k + 1)
  <2>1. PICK f : IsReach(f, t, k)
    <3>1. k <= n
      BY <1>2
    <3>2. QED
      BY <1>2, <3>1
  <2> DEFINE U(h, j) == t[j].mem \cup (UNION {h[d] : d \in t[j].mem})
  <2>2. \A j \in 0 .. k : f[j] = IF j = 0 THEN {} ELSE U(f, j)
    BY <2>1 DEF IsReach
  <2>3. PICK g : g = [j \in 0 .. k + 1 |-> IF j = k + 1 THEN U(f, k + 1) ELSE f[j]]
    OBVIOUS
  <2>4. \A d \in 0 .. k : g[d] = f[d] /\ d \in 0 .. k + 1
    <3> HIDE DEF U
    <3>1. \A d \in 0 .. k : d \in 0 .. k + 1 /\ d # k + 1
      OBVIOUS
    <3>2. QED
      BY <2>3, <3>1
  <2>5. \A j \in 1 .. k + 1 : \A d \in t[j].mem : d \in 0 .. k
    <3>1. \A j \in 1 .. k + 1 : t[j].mem \subseteq 1 .. j - 1
      BY <1>2 DEF WaitsBack
    <3>2. QED
      BY <3>1
  <2>6. \A j \in 1 .. k + 1 : U(g, j) = U(f, j)
    <3>1. TAKE j \in 1 .. k + 1
    <3>2. {g[d] : d \in t[j].mem} = {f[d] : d \in t[j].mem}
      BY <2>4, <2>5
    <3>3. QED
      BY ONLY <3>2
  <2>7. ASSUME NEW j \in 0 .. k + 1 PROVE g[j] = IF j = 0 THEN {} ELSE U(g, j)
    <3> HIDE DEF U
    <3>1. CASE j = k + 1
      <4>1. j # 0 /\ j \in 1 .. k + 1
        BY <3>1
      <4>2. QED
        BY <2>3, <2>6, <3>1, <4>1
    <3>2. CASE j \in 1 .. k
      <4>1. j # 0 /\ j \in 1 .. k + 1 /\ j \in 0 .. k
        BY <3>2
      <4>2. QED
        BY <2>2, <2>4, <2>6, <4>1
    <3>3. CASE j = 0
      <4>1. 0 \in 0 .. k
        OBVIOUS
      <4>2. QED
        BY <2>2, <2>4, <3>3, <4>1
    <3>4. QED
      BY <3>1, <3>2, <3>3
  <2>8. g = [j \in 0 .. k + 1 |-> IF j = 0 THEN {} ELSE U(g, j)]
    <3> HIDE DEF U
    <3>1. g = [j \in 0 .. k + 1 |-> g[j]]
      BY <2>3
    <3>2. QED
      BY ONLY <2>7, <3>1
  <2>9. IsReach(g, t, k + 1)
    BY ONLY <2>8 DEF IsReach
  <2>10. QED
    BY <2>9
<1>3. \A k \in Nat : k \in S => k + 1 \in S
  BY <1>2
<1>4. Nat \subseteq S
  <2> HIDE DEF S
  <2>1. QED
    BY <1>1, <1>3, Induction
<1>5. QED
  BY <1>4

(* They are the same however many entries are looked at. *)
LEMMA ReachUnique ==
  ASSUME NEW n \in Nat, NEW t, WaitsBack(t, n), NEW k \in 0 .. n, NEW m \in 0 .. k,
         NEW f, IsReach(f, t, k), NEW g, IsReach(g, t, m)
  PROVE  f[m] = g[m]
<1> DEFINE U(h, j) == t[j].mem \cup (UNION {h[d] : d \in t[j].mem})
<1>1. \A j \in 0 .. k : f[j] = IF j = 0 THEN {} ELSE U(f, j)
  BY DEF IsReach
<1>2. \A j \in 0 .. m : g[j] = IF j = 0 THEN {} ELSE U(g, j)
  BY DEF IsReach
<1> DEFINE D == {j \in 0 .. m : f[j] # g[j]}
<1>3. D = {}
  <2>1. SUFFICES ASSUME D # {} PROVE FALSE
    OBVIOUS
  <2>2. D \subseteq Nat
    OBVIOUS
  <2>3. \E x \in D : \A y \in D : x <= y
    <3> HIDE DEF D
    <3>1. QED
      BY <2>1, <2>2, LeastElement
  <2>4. PICK j \in 0 .. m : f[j] # g[j] /\ \A y \in D : j <= y
    BY <2>3
  <2>5. j \in 0 .. k
    OBVIOUS
  <2>6. j # 0
    BY <1>1, <1>2, <2>4, <2>5
  <2>7. \A d \in t[j].mem : f[d] = g[d]
    <3>1. j \in 1 .. n
      BY <2>6
    <3>2. \A d \in t[j].mem : d \in 0 .. m /\ ~ (j <= d)
      BY <3>1 DEF WaitsBack
    <3>3. QED
      BY <2>4, <3>2
  <2>8. {f[d] : d \in t[j].mem} = {g[d] : d \in t[j].mem}
    BY <2>7
  <2>9. U(f, j) = U(g, j)
    BY ONLY <2>8
  <2>10. QED
    <3> HIDE DEF U
    <3>1. QED
      BY <1>1, <1>2, <2>4, <2>5, <2>6, <2>9
<1>4. m \in 0 .. m
  OBVIOUS
<1>5. QED
  BY <1>3, <1>4

LEMMA AfterGrows ==
  ASSUME NEW n \in Nat, NEW t, WaitsBack(t, n), NEW k \in 1 .. n, NEW d \in t[k].mem
  PROVE  d \in After(t, k) /\ After(t, d) \subseteq After(t, k)
<1>1. d \in 0 .. k /\ d \in 0 .. n /\ k \in 0 .. n
  BY DEF WaitsBack
<1> DEFINE f(x) == CHOOSE g : IsReach(g, t, x)
<1>2. \A x : After(t, x) = f(x)[x]
  BY DEF After, IsReach
<1>3. IsReach(f(k), t, k) /\ IsReach(f(d), t, d)
  BY <1>1, ReachExists
<1> HIDE DEF f
<1>4. f(k)[d] = f(d)[d]
  BY <1>1, <1>3, ReachUnique
<1>5. PICK h : h = f(k)
  OBVIOUS
<1>6. h[k] = t[k].mem \cup (UNION {h[x] : x \in t[k].mem})
  <2> DEFINE U(g, j) == t[j].mem \cup (UNION {g[x] : x \in t[j].mem})
  <2>0. IsReach(h, t, k)
    BY <1>3, <1>5
  <2>1. \A j \in 0 .. k : h[j] = IF j = 0 THEN {} ELSE U(h, j)
    BY ONLY <2>0 DEF IsReach
  <2>2. k \in 0 .. k /\ k # 0
    OBVIOUS
  <2> HIDE DEF U
  <2>3. h[k] = U(h, k)
    BY <2>1, <2>2
  <2>4. QED
    BY <2>3 DEF U
<1>7. h[d] \in {h[x] : x \in t[k].mem}
  OBVIOUS
<1>8. h[d] \subseteq h[k] /\ d \in h[k]
  BY ONLY <1>6, <1>7, d \in t[k].mem
<1>9. QED
  BY <1>2, <1>4, <1>5, <1>8

LEMMA ForgotStays ==
  ASSUME NEW n \in Nat, NEW t, HasAccesses(t, n), NEW op, NEW i \in 1 .. n, NEW w \in 1 .. n,
         NEW k \in 1 .. n, w <= k, Forgot(t, op, i, w)
  PROVE  Forgot(t, op, i, k)
<1>1. PICK P, Q : P = BytesBetween(t, op, i, w) /\ Q = BytesBetween(t, op, i, k)
  OBVIOUS
<1>2. i \in Nat \ {0} /\ k \in 1 .. n + 1 /\ w \in 1 .. n + 1
  OBVIOUS
<1>3. IsFiniteSet(Q) /\ Cardinality(Q) \in Nat /\ Cardinality(P) \in Nat
  BY <1>1, <1>2, FiniteBetween
<1>4. P \subseteq Q
  <2>1. {j \in i .. w - 1 : Code[t[j].inst].op = op} \subseteq {j \in i .. k - 1 : Code[t[j].inst].op = op}
    <3>1. \A j \in i .. w - 1 : j \in i .. k - 1
      OBVIOUS
    <3>2. QED
      BY <3>1
  <2>2. PICK J, K : /\ J = {j \in i .. w - 1 : Code[t[j].inst].op = op}
                    /\ K = {j \in i .. k - 1 : Code[t[j].inst].op = op}
    OBVIOUS
  <2>3. /\ P = UNION {{j} \X Bytes(t[j].access) : j \in J}
        /\ Q = UNION {{j} \X Bytes(t[j].access) : j \in K}
    BY ONLY <1>1, <2>2 DEF BytesBetween
  <2>4. QED
    BY ONLY <2>1, <2>2, <2>3
<1>5. Cardinality(P) <= Cardinality(Q)
  BY ONLY <1>3, <1>4, FS_Subset
<1>6. QED
  BY <1>1, <1>3, <1>5, AddressAssumption DEF Forgot

(* An access waits for every earlier store to one of its bytes.             *)
LEMMA StoresAwaited ==
  ASSUME NEW n \in Nat, NEW t, HasAccesses(t, n), \A k \in 1 .. n : MemDepsOK(t, k),
         NEW k \in 1 .. n, NEW i \in 1 .. k - 1, NEW a \in Bytes(t[k].access),
         Touches(t, i, "store", a)
  PROVE  i \in After(t, k) \/ Forgot(t, "store", i, k)
<1>1. WaitsBack(t, n)
  BY DEF WaitsBack, MemDepsOK
<1> DEFINE Awaited(j, x) == x \in After(t, j) \/ Forgot(t, "store", x, j)
           Earlier(j, x) == \E b \in Bytes(t[j].access) : Touches(t, x, "store", b)
           D == {j \in 1 .. n : \E x \in 1 .. j - 1 : Earlier(j, x) /\ ~Awaited(j, x)}
<1>2. D = {}
  <2>1. SUFFICES ASSUME D # {} PROVE FALSE
    OBVIOUS
  <2>2. D \subseteq Nat
    OBVIOUS
  <2>3. \E x \in D : \A y \in D : x <= y
    <3> HIDE DEF D
    <3>1. QED
      BY <2>1, <2>2, LeastElement
  <2>4. PICK j \in 1 .. n : /\ \E x \in 1 .. j - 1 : Earlier(j, x) /\ ~Awaited(j, x)
                            /\ \A y \in D : j <= y
    BY <2>3
  <2>5. PICK x \in 1 .. j - 1 : Earlier(j, x) /\ ~Awaited(j, x)
    BY <2>4
  <2>6. PICK b \in Bytes(t[j].access) : Touches(t, x, "store", b)
    BY <2>5
  <2>7. WaitsFor(t, j, "store")
    BY DEF MemDepsOK
  <2>8. PICK w \in t[j].mem : x <= w /\ Touches(t, w, "store", b)
    BY <2>5, <2>6, <2>7 DEF WaitsFor
  <2>9. w \in 1 .. j - 1 /\ w \in 1 .. n /\ x \in 1 .. n
    BY DEF MemDepsOK
  <2>10. w \in After(t, j) /\ After(t, w) \subseteq After(t, j)
    BY <1>1, AfterGrows
  <2>11. x # w
    BY <2>5, <2>10
  <2>12. x \in 1 .. w - 1
    BY <2>8, <2>9, <2>11
  <2>13. Earlier(w, x)
    BY <2>6, <2>8 DEF Touches
  <2>14. ~ (j <= w)
    BY <2>9
  <2>15. Awaited(w, x)
    <3>1. w \notin D
      <4> HIDE DEF D
      <4>1. QED
        BY <2>4, <2>14
    <3>2. QED
      <4> HIDE DEF Awaited, Earlier
      <4>1. QED
        BY <2>9, <2>12, <2>13, <3>1
  <2>16. CASE Forgot(t, "store", x, w)
    <3>1. w <= j
      BY <2>9
    <3>2. Forgot(t, "store", x, j)
      BY <2>9, <2>16, <3>1, ForgotStays
    <3>3. QED
      BY <2>5, <3>2
  <2>17. QED
    BY <2>5, <2>10, <2>15, <2>16
<1>3. Earlier(k, i)
  OBVIOUS
<1>4. Awaited(k, i)
  <2> HIDE DEF Awaited, Earlier
  <2>1. QED
    BY <1>2, <1>3
<1>5. QED
  BY <1>4

LEMMA OrderTells == TraceInv /\ DepsInv => MemoryOrdered
<1> SUFFICES ASSUME TraceInv, DepsInv PROVE MemoryOrdered
  OBVIOUS
<1>1. PICK n \in Nat, t \in {All} : n = currentId /\ t = All
  BY TraceFields
<1>2. DOMAIN t = 1 .. n
  BY <1>1, TraceFields
<1>3. HasAccesses(t, n) /\ \A k \in 1 .. n : MemDepsOK(t, k)
  <2>1. \A k \in 1 .. n : EntryOK(t[k], k)
    BY <1>1 DEF TraceInv
  <2>2. QED
    BY <1>1, <2>1, EntryAccess DEF HasAccesses, DepsInv
<1>4. PICK loads, stores, bytes :
        /\ loads = Executions(t, "load") /\ stores = Executions(t, "store")
        /\ bytes = [k \in 1 .. n |-> Bytes(t[k].access)]
  OBVIOUS
<1>5. /\ \A k : k \in loads <=> k \in 1 .. n /\ Code[t[k].inst].op = "load"
      /\ \A k : k \in stores <=> k \in 1 .. n /\ Code[t[k].inst].op = "store"
      /\ \A k \in 1 .. n : bytes[k] = Bytes(t[k].access)
  BY <1>2, <1>4 DEF Executions
<1> DEFINE Forgotten(kind, i, k) ==
             Cardinality(UNION {{j} \X bytes[j] : j \in kind \cap (i .. k - 1)}) > LogThreshold
<1>6. ASSUME NEW i \in 1 .. n, NEW k \in 1 .. n
      PROVE  /\ Forgot(t, "store", i, k) => Forgotten(stores, i, k)
             /\ Forgot(t, "load", i, k) => Forgotten(loads, i, k)
  <2>1. ASSUME NEW op, NEW kind, \A j : j \in kind <=> j \in 1 .. n /\ Code[t[j].inst].op = op
        PROVE  Forgot(t, op, i, k) => Forgotten(kind, i, k)
    <3>1. {j \in i .. k - 1 : Code[t[j].inst].op = op} = kind \cap (i .. k - 1)
      <4>1. \A j \in i .. k - 1 : j \in 1 .. n
        OBVIOUS
      <4>2. QED
        BY <2>1, <4>1
    <3>2. PICK J : J = kind \cap (i .. k - 1)
      OBVIOUS
    <3>3. \A j \in J : bytes[j] = Bytes(t[j].access)
      BY <1>5, <2>1, <3>2
    <3>4. {{j} \X Bytes(t[j].access) : j \in J} = {{j} \X bytes[j] : j \in J}
      BY <3>3
    <3>5. BytesBetween(t, op, i, k) = UNION {{j} \X bytes[j] : j \in kind \cap (i .. k - 1)}
      BY ONLY <3>1, <3>2, <3>4 DEF BytesBetween
    <3>6. QED
      BY ONLY <3>5 DEF Forgot
  <2>2. QED
    BY <1>5, <2>1
<1> HIDE DEF Forgotten
<1>7. ASSUME NEW k \in loads \cup stores
      PROVE  /\ \A i \in t[k].mem : i < k /\ bytes[i] \cap bytes[k] # {} /\ {i, k} \cap stores # {}
             /\ \A i \in stores : i < k /\ bytes[i] \cap bytes[k] # {} =>
                  i \in After(t, k) \/ Forgotten(stores, i, k)
             /\ k \in stores => \A i \in loads :
                  i < k /\ (\E a \in bytes[i] \cap bytes[k] :
                              \A j \in loads \cap (i + 1 .. k) : a \notin bytes[j]) =>
                    i \in t[k].mem \/ Forgotten(loads, i, k)
  <2>1. k \in 1 .. n /\ MemDepsOK(t, k) /\ Code[t[k].inst].op \in {"load", "store"}
    BY <1>3, <1>5, <1>7
  <2>2. ASSUME NEW i \in t[k].mem
        PROVE  i < k /\ bytes[i] \cap bytes[k] # {} /\ {i, k} \cap stores # {}
    <3>1. i \in 1 .. k - 1 /\ i \in 1 .. n
      BY <2>1 DEF MemDepsOK
    <3>2. PICK a \in Bytes(t[k].access) :
            \/ Touches(t, i, "store", a)
            \/ Touches(t, i, "load", a) /\ Code[t[k].inst].op # "load"
      BY <2>1 DEF MemDepsOK
    <3>3. a \in bytes[i] /\ a \in bytes[k]
      BY <1>5, <2>1, <3>1, <3>2 DEF Touches
    <3>4. i \in stores \/ k \in stores
      BY <1>5, <2>1, <3>1, <3>2 DEF Touches
    <3>5. i < k
      BY ONLY <2>1, <3>1
    <3>6. bytes[i] \cap bytes[k] # {}
      BY ONLY <3>3
    <3>7. {i, k} \cap stores # {}
      BY ONLY <3>4
    <3>8. QED
      BY ONLY <3>5, <3>6, <3>7
  <2>3. ASSUME NEW i \in stores, i < k, bytes[i] \cap bytes[k] # {}
        PROVE  i \in After(t, k) \/ Forgotten(stores, i, k)
    <3>1. i \in 1 .. k - 1 /\ i \in 1 .. n
      BY <1>5, <2>1, <2>3
    <3>2. PICK a \in Bytes(t[k].access) : Touches(t, i, "store", a)
      BY <1>5, <2>1, <2>3, <3>1 DEF Touches
    <3>3. i \in After(t, k) \/ Forgot(t, "store", i, k)
      BY <1>3, <2>1, <3>1, <3>2, StoresAwaited
    <3>4. QED
      BY <1>6, <2>1, <3>1, <3>3
  <2>4. ASSUME k \in stores, NEW i \in loads, i < k, NEW a \in bytes[i] \cap bytes[k],
               \A j \in loads \cap (i + 1 .. k) : a \notin bytes[j]
        PROVE  i \in t[k].mem \/ Forgotten(loads, i, k)
    <3>1. i \in 1 .. k - 1 /\ i \in 1 .. n
      BY <1>5, <2>1, <2>4
    <3>2. a \in Bytes(t[k].access) /\ Touches(t, i, "load", a)
      BY <1>5, <2>1, <2>4, <3>1 DEF Touches
    <3>3. WaitsFor(t, k, "load")
      BY <1>5, <2>1, <2>4 DEF MemDepsOK
    <3>4. CASE Forgot(t, "load", i, k)
      BY <1>6, <2>1, <3>1, <3>4
    <3>5. CASE \E w \in t[k].mem : i <= w /\ Touches(t, w, "load", a)
      <4>1. PICK w \in t[k].mem : i <= w /\ Touches(t, w, "load", a)
        BY <3>5
      <4>2. w \in 1 .. k - 1 /\ w \in 1 .. n
        BY <2>1 DEF MemDepsOK
      <4>3. w \in loads /\ a \in bytes[w]
        BY <1>5, <4>1, <4>2 DEF Touches
      <4>4. w \notin i + 1 .. k
        BY <2>4, <4>3
      <4>5. w = i
        BY <2>1, <3>1, <4>1, <4>2, <4>4
      <4>6. QED
        BY <4>5
    <3>6. QED
      BY <3>1, <3>2, <3>3, <3>4, <3>5 DEF WaitsFor
  <2>5. QED
    BY <2>2, <2>3, <2>4
<1>8. \A k \in loads \cup stores :
        /\ \A i \in t[k].mem : i < k /\ bytes[i] \cap bytes[k] # {} /\ {i, k} \cap stores # {}
        /\ \A i \in stores : i < k /\ bytes[i] \cap bytes[k] # {} =>
             i \in After(t, k) \/ Forgotten(stores, i, k)
        /\ k \in stores => \A i \in loads :
             i < k /\ (\E a \in bytes[i] \cap bytes[k] :
                         \A j \in loads \cap (i + 1 .. k) : a \notin bytes[j]) =>
               i \in t[k].mem \/ Forgotten(loads, i, k)
  BY ONLY <1>7
<1>9. /\ t = All
      /\ loads = Executions(All, "load")
      /\ stores = Executions(All, "store")
      /\ bytes = [k \in DOMAIN All |-> Bytes(All[k].access)]
  BY ONLY <1>1, <1>2, <1>4, Zenon
<1> DEFINE Ordered(trace, l, s, b) ==
  \A k \in l \cup s :
    /\ \A i \in trace[k].mem : i < k /\ b[i] \cap b[k] # {} /\ {i, k} \cap s # {}
    /\ \A i \in s : i < k /\ b[i] \cap b[k] # {} =>
         \/ i \in After(trace, k)
         \/ Cardinality(UNION {{j} \X b[j] : j \in s \cap i .. k - 1}) > LogThreshold
    /\ k \in s => \A i \in l :
         i < k /\ (\E a \in b[i] \cap b[k] : \A j \in l \cap i + 1 .. k : a \notin b[j]) =>
           \/ i \in trace[k].mem
           \/ Cardinality(UNION {{j} \X b[j] : j \in l \cap i .. k - 1}) > LogThreshold
<1>10. Ordered(t, loads, stores, bytes)
  BY ONLY <1>8 DEF Forgotten
<1>11. MemoryOrdered <=> Ordered(All, Executions(All, "load"), Executions(All, "store"),
                                 [k \in DOMAIN All |-> Bytes(All[k].access)])
  BY ONLY DEF MemoryOrdered
<1> HIDE DEF Ordered
<1>12. QED
  BY ONLY <1>9, <1>10, <1>11

(* For every program, threshold and length of the trace: an access waits,   *)
(* directly or through others, for the stores before it to its bytes and a *)
(* store for the last loads, unless the log has forgotten them, and no      *)
(* access waits directly for one that it does not conflict with             *)
(* (DataGraph.h:26-33, DataGraph.cpp:22-82).                                *)
THEOREM MemoryAlwaysOrdered == Spec => []MemoryOrdered
<1>1. Init => ProgramInv /\ TraceInv /\ MapInv /\ DepsInv
  BY ProgramInitOK, TraceInitOK, MapInitOK DEF Init
<1>2. ProgramInv /\ TraceInv /\ MapInv /\ DepsInv /\ [Next]_vars =>
        (ProgramInv /\ TraceInv /\ MapInv /\ DepsInv)'
  BY ProgramKept, TraceKept, MapKept, DepsKept
<1>3. TraceInv /\ DepsInv => MemoryOrdered
  BY OrderTells
<1>4. QED
  BY <1>1, <1>2, <1>3, PTL DEF Spec

=============================================================================
