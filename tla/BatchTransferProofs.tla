------------------------ MODULE BatchTransferProofs ------------------------
(***************************************************************************)
(* Proofs about BatchTransfer, for every transfer size, chunk size and      *)
(* number of workers.                                                       *)
(***************************************************************************)
EXTENDS BatchTransfer, Sums, FiniteSetTheorems, WellFoundedInduction, TLAPS

-----------------------------------------------------------------------------
(* How the chunks divide the transfer. *)

\* numChunks (highlevel.go:272) is the least number of chunks that reaches
\* transferSize.
LEMMA NumChunksBounds ==
    /\ NumChunks \in Nat \ {0}
    /\ (NumChunks - 1) * ChunkSize < TransferSize
    /\ TransferSize <= NumChunks * ChunkSize
<1> DEFINE q == (TransferSize - 1) \div ChunkSize
<1>1. q \in Nat /\ q * ChunkSize <= TransferSize - 1 /\ TransferSize - 1 < (q + 1) * ChunkSize
  BY SizeAssumption
<1> HIDE DEF q
<1>2. NumChunks = q + 1
  BY DEF NumChunks, q
<1> QED
  BY <1>1, <1>2, SizeAssumption

\* The arguments the producer loop gives a chunk's operation (highlevel.go:294-297)
\* start inside the transfer and end inside it, and only at its end for the last.
LEMMA ChunkBounds ==
    ASSUME NEW i \in Chunks
    PROVE  /\ Offset(i) \in Nat
           /\ Length(i) \in 1 .. ChunkSize
           /\ Offset(i) + Length(i) <= TransferSize
           /\ i # NumChunks - 1 => Offset(i) + Length(i) = Offset(i + 1)
           /\ i = NumChunks - 1 => Offset(i) + Length(i) = TransferSize
<1> DEFINE n == NumChunks
<1>1. n \in Nat \ {0} /\ (n - 1) * ChunkSize < TransferSize /\ TransferSize <= n * ChunkSize
  BY NumChunksBounds
<1>2. i \in Nat /\ i <= n - 1
  BY <1>1 DEF Chunks
<1> HIDE DEF n
<1>3. i * ChunkSize \in Nat
  BY <1>2, SizeAssumption
<1>4. CASE i = n - 1
  <2>1. n * ChunkSize = i * ChunkSize + ChunkSize
    BY <1>1, <1>2, <1>4, SizeAssumption
  <2> QED
    BY <1>1, <1>2, <1>3, <1>4, <2>1, SizeAssumption DEF Offset, Length, n
<1>5. CASE i # n - 1
  <2>1. (i + 1) * ChunkSize = i * ChunkSize + ChunkSize
    BY <1>2, SizeAssumption
  <2>2. (i + 1) * ChunkSize <= (n - 1) * ChunkSize
    BY <1>1, <1>2, <1>5, SizeAssumption
  <2> QED
    BY <1>1, <1>2, <1>3, <1>5, <2>1, <2>2, SizeAssumption DEF Offset, Length, n
<1> QED
  BY <1>4, <1>5

\* The chunks cover the transfer and no two of them share a byte.
LEMMA ChunksPartition ==
    /\ \A b \in 0 .. (TransferSize - 1) : \E i \in Chunks : b \in Bytes(i)
    /\ \A i \in Chunks : Bytes(i) \subseteq 0 .. (TransferSize - 1)
    /\ \A i, j \in Chunks : i # j => Bytes(i) \cap Bytes(j) = {}
<1>1. ASSUME NEW b \in 0 .. (TransferSize - 1) PROVE \E i \in Chunks : b \in Bytes(i)
  <2> DEFINE i == b \div ChunkSize
  <2>1. i \in Nat /\ i * ChunkSize <= b /\ b < (i + 1) * ChunkSize
    BY SizeAssumption
  <2> HIDE DEF i
  <2>2. (i + 1) * ChunkSize = i * ChunkSize + ChunkSize
    BY <2>1, SizeAssumption
  <2>3. i * ChunkSize < NumChunks * ChunkSize
    BY <2>1, NumChunksBounds, SizeAssumption
  <2>4. i < NumChunks
    BY <2>1, <2>3, NumChunksBounds, SizeAssumption
  <2>5. i \in Chunks
    BY <2>1, <2>4, NumChunksBounds DEF Chunks
  <2>6. b \in Bytes(i)
    <3>1. Offset(i) = i * ChunkSize /\ Offset(i) \in Nat /\ Length(i) \in Nat
      BY <2>5, ChunkBounds DEF Offset
    <3>2. CASE i = NumChunks - 1
      BY <2>1, <2>5, <3>1, <3>2, ChunkBounds, SizeAssumption DEF Bytes
    <3>3. CASE i # NumChunks - 1
      BY <2>1, <2>2, <3>1, <3>3, SizeAssumption DEF Bytes, Length
    <3> QED
      BY <3>2, <3>3
  <2> QED
    BY <2>5, <2>6
<1>2. ASSUME NEW i \in Chunks PROVE Bytes(i) \subseteq 0 .. (TransferSize - 1)
  BY ChunkBounds, SizeAssumption DEF Bytes
<1>3. ASSUME NEW i \in Chunks, NEW j \in Chunks, i < j
      PROVE  Bytes(i) \cap Bytes(j) = {}
  <2>1. i \in Nat /\ j \in Nat /\ i + 1 <= j /\ i # NumChunks - 1
    BY <1>3, NumChunksBounds DEF Chunks
  <2>2. (i + 1) * ChunkSize <= j * ChunkSize
    BY <2>1, SizeAssumption
  <2>3. Offset(i) + Length(i) <= Offset(j)
    BY <2>1, <2>2, ChunkBounds DEF Offset
  <2> QED
    BY <2>3, ChunkBounds, SizeAssumption DEF Bytes
<1>4. ASSUME NEW i \in Chunks, NEW j \in Chunks, i # j
      PROVE  Bytes(i) \cap Bytes(j) = {}
  <2>1. i < j \/ j < i
    BY <1>4, NumChunksBounds DEF Chunks
  <2> QED
    BY <2>1, <1>3
<1> QED
  BY <1>1, <1>2, <1>4

-----------------------------------------------------------------------------
(* The inductive invariant. *)

IInv == TypeOK /\ ChunkAccounting

\* Before the first closure is sent no chunk is anywhere.
LEMMA InitIInv == Init => IInv
<1> SUFFICES ASSUME Init PROVE IInv
  OBVIOUS
<1> USE DEF Init
<1>1. TypeOK
  <2>1. 0 \in 0 .. NumChunks
    BY NumChunksBounds
  <2>2. wpc \in [Workers -> {"range", "running", "sending", "exited"}]
    OBVIOUS
  <2>3. wop \in [Workers -> Chunks \cup {NoChunk}]
    OBVIOUS
  <2>4. result \in [Chunks -> OpOutcomes \cup {"none"}]
    OBVIOUS
  <2>5. operationChannel \in Seq(Chunks) /\ operationResponseChannel \in Seq(Chunks)
    OBVIOUS
  <2>6. operationChannelClosed \in BOOLEAN /\ cancelled \in BOOLEAN /\ crashed \in BOOLEAN
    OBVIOUS
  <2>7. ret \in {"none", "nil", "err"} /\ chunkIndex = 0 /\ responses = 0
    OBVIOUS
  <2> HIDE DEF Init
  <2> QED
    BY <2>1, <2>2, <2>3, <2>4, <2>5, <2>6, <2>7 DEF TypeOK
<1>2. Received = {}
  BY DEF Received, Taken
<1>3. CountedOnce
  BY <1>2, FS_EmptySet DEF CountedOnce
<1>4. ChannelInOrder /\ OneHolder /\ AnsweredOnce /\ NotTakenNotRun
  BY NumChunksBounds DEF ChannelInOrder, OneHolder, AnsweredOnce, NotTakenNotRun
<1> QED
  BY <1>1, <1>3, <1>4 DEF IInv, ChunkAccounting

\* Facts about the state that every step below uses.
LEMMA IInvFacts ==
    ASSUME IInv
    PROVE  /\ Taken \in 0 .. NumChunks
           /\ IsFiniteSet(Received)
           /\ Received \subseteq Chunks
           /\ \A w \in Workers : wpc[w] \in {"running", "sending"} => wop[w] \in Chunks
<1> USE NumChunksBounds DEF IInv, TypeOK
<1>1. Taken \in 0 .. NumChunks
  BY DEF Taken, ChunkAccounting, ChannelInOrder
<1>2. Received \subseteq Chunks
  BY <1>1 DEF Received, Chunks
<1>3. IsFiniteSet(Received)
  <2>1. IsFiniteSet(Chunks)
    BY FS_Interval DEF Chunks
  <2> QED
    BY <1>2, <2>1, FS_Subset
<1>4. \A w \in Workers : wpc[w] \in {"running", "sending"} => wop[w] \in Chunks
  BY <1>1 DEF ChunkAccounting, OneHolder, Chunks
<1> QED
  BY <1>1, <1>2, <1>3, <1>4

\* Sending a closure puts the next chunk at the end of operationChannel.
LEMMA ProduceIInv == IInv /\ Produce => IInv'
<1> SUFFICES ASSUME IInv, Produce PROVE IInv'
  OBVIOUS
<1> USE NumChunksBounds DEF Produce, workerVars
<1>1. TypeOK'
  BY DEF IInv, TypeOK, Chunks
<1>2. Taken' = Taken /\ Received' = Received
  BY DEF IInv, TypeOK, Taken, Received, Answered, Holds
<1>3. ChannelInOrder'
  <2> DEFINE ch == operationChannel
  <2>1. /\ ch \in Seq(Chunks) /\ Len(ch) \in Nat /\ chunkIndex \in Nat
        /\ Len(ch') = Len(ch) + 1
        /\ \A k \in 1 .. Len(ch) : ch'[k] = ch[k]
        /\ ch'[Len(ch) + 1] = chunkIndex
    BY DEF IInv, TypeOK
  <2>2. \A k \in 1 .. Len(ch') : ch'[k] = Taken + k - 1
    BY <2>1 DEF IInv, ChunkAccounting, ChannelInOrder, Taken
  <2> QED
    BY <1>2, <2>1, <2>2 DEF IInv, ChunkAccounting, ChannelInOrder
<1>4. OneHolder' /\ AnsweredOnce' /\ CountedOnce' /\ NotTakenNotRun'
  BY <1>2 DEF IInv, ChunkAccounting, OneHolder, AnsweredOnce, CountedOnce, NotTakenNotRun, Holds
<1> QED
  BY <1>1, <1>3, <1>4 DEF IInv, ChunkAccounting

\* Closing operationChannel moves no chunk.
LEMMA CloseIInv == IInv /\ CloseOperationChannel => IInv'
<1> SUFFICES ASSUME IInv, CloseOperationChannel PROVE IInv'
  OBVIOUS
<1> USE DEF CloseOperationChannel, workerVars
<1>1. TypeOK'
  BY DEF IInv, TypeOK
<1>2. Taken' = Taken /\ Received' = Received
  BY DEF Taken, Received, Answered, Holds
<1>3. ChannelInOrder' /\ OneHolder' /\ AnsweredOnce' /\ CountedOnce' /\ NotTakenNotRun'
  BY <1>2 DEF IInv, ChunkAccounting, ChannelInOrder, OneHolder, AnsweredOnce, CountedOnce,
              NotTakenNotRun, Holds
<1> QED
  BY <1>1, <1>3 DEF IInv, ChunkAccounting

\* Receiving a response moves its chunk from operationResponseChannel to Received, and
\* the count grows by one with it.
LEMMA ReceiveIInv == IInv /\ ReceiveResponse => IInv'
<1> SUFFICES ASSUME IInv, ReceiveResponse PROVE IInv'
  OBVIOUS
<1> DEFINE ch == operationResponseChannel
<1>0. PICK h \in Chunks : h = Head(ch)
  BY DEF IInv, TypeOK, ReceiveResponse
<1>1. /\ ch \in Seq(Chunks) /\ ch # << >> /\ Len(ch) \in Nat \ {0}
      /\ h = ch[1] /\ h \in Chunks
      /\ ch' = Tail(ch) /\ ch' \in Seq(Chunks)
      /\ Len(ch') = Len(ch) - 1
      /\ \A k \in 1 .. Len(ch') : ch'[k] = ch[k + 1]
  BY <1>0 DEF IInv, TypeOK, ReceiveResponse
<1>2. TypeOK'
  <2>1. responses' \in 0 .. NumChunks
    BY NumChunksBounds DEF IInv, TypeOK, ReceiveResponse
  <2>2. cancelled' \in BOOLEAN /\ ret' \in {"none", "nil", "err"}
    BY DEF IInv, TypeOK, ReceiveResponse
  <2> QED
    BY <1>1, <2>1, <2>2 DEF IInv, TypeOK, ReceiveResponse, workerVars
<1>3. Taken' = Taken /\ Taken \in Int
  BY IInvFacts DEF ReceiveResponse, Taken
<1>4. h \in 0 .. (Taken - 1) /\ result[h] \in {"ok", "err"} /\ \A w \in Workers : ~Holds(w, h)
  BY <1>1 DEF IInv, ChunkAccounting, AnsweredOnce
<1>5. Answered(h) /\ ~Answered(h)'
  <2>1. \A k \in 1 .. Len(ch') : ch'[k] # h
    BY <1>1 DEF IInv, ChunkAccounting, AnsweredOnce
  <2> QED
    BY <1>1, <2>1 DEF Answered
<1>6. ASSUME NEW i, i # h PROVE Answered(i)' <=> Answered(i)
  <2>1. ASSUME Answered(i) PROVE Answered(i)'
    <3>1. PICK k \in 1 .. Len(ch) : ch[k] = i
      BY <2>1 DEF Answered
    <3>2. k # 1 /\ k - 1 \in 1 .. Len(ch') /\ ch'[k - 1] = i
      BY <1>1, <1>6, <3>1
    <3> QED
      BY <3>2 DEF Answered
  <2>2. ASSUME Answered(i)' PROVE Answered(i)
    <3>1. PICK k \in 1 .. Len(ch') : ch'[k] = i
      BY <2>2 DEF Answered
    <3>2. k + 1 \in 1 .. Len(ch) /\ ch[k + 1] = i
      BY <1>1, <3>1
    <3> QED
      BY <3>2 DEF Answered
  <2> QED
    BY <2>1, <2>2
<1>7. \A w \in Workers : \A i : Holds(w, i)' <=> Holds(w, i)
  BY DEF Holds, ReceiveResponse, workerVars
<1>8. Received' = Received \cup {h} /\ h \notin Received
  BY <1>3, <1>4, <1>5, <1>6, <1>7 DEF Received
<1>9. CountedOnce'
  <2>1. responses' = Cardinality(Received')
    BY <1>8, IInvFacts, FS_AddElement DEF IInv, ChunkAccounting, CountedOnce, ReceiveResponse
  <2>2. result' = result /\ (ret' # "err" => ret' = ret /\ result[h] = "ok")
    BY <1>0 DEF ReceiveResponse, workerVars
  <2>3. \A i \in Received' : result'[i] \in {"ok", "err"} /\ (ret' # "err" => result'[i] = "ok")
    BY <1>4, <1>8, <2>2 DEF IInv, ChunkAccounting, CountedOnce, ReceiveResponse
  <2>4. ret' # "nil"
    BY DEF ReceiveResponse
  <2>5. ret' = "err" => \E i \in Received' : result'[i] = "err"
    BY <1>0, <1>4, <1>8, <2>2 DEF ReceiveResponse
  <2> QED
    BY <2>1, <2>3, <2>4, <2>5 DEF CountedOnce
<1>10. AnsweredOnce'
  <2>1. ASSUME NEW k \in 1 .. Len(ch')
        PROVE  /\ ch'[k] \in 0 .. (Taken - 1)
               /\ result[ch'[k]] \in {"ok", "err"}
               /\ \A w \in Workers : ~Holds(w, ch'[k])
               /\ \A l \in 1 .. Len(ch') : ch'[l] = ch'[k] => l = k
    <3>1. k + 1 \in 1 .. Len(ch) /\ ch'[k] = ch[k + 1]
      BY <1>1
    <3>2. ASSUME NEW l \in 1 .. Len(ch'), ch'[l] = ch'[k] PROVE l = k
      <4>1. l + 1 \in 1 .. Len(ch) /\ ch[l + 1] = ch[k + 1]
        BY <1>1, <3>1, <3>2
      <4>2. l + 1 = k + 1
        BY <3>1, <4>1 DEF IInv, ChunkAccounting, AnsweredOnce
      <4> QED
        BY <1>1, <4>2
    <3> QED
      BY <3>1, <3>2 DEF IInv, ChunkAccounting, AnsweredOnce
  <2>2. result' = result
    BY DEF ReceiveResponse, workerVars
  <2> QED
    BY <1>3, <1>7, <2>1, <2>2 DEF AnsweredOnce
<1>11. ChannelInOrder' /\ OneHolder' /\ NotTakenNotRun'
  BY <1>3 DEF IInv, ChunkAccounting, ChannelInOrder, OneHolder, NotTakenNotRun, Holds,
              ReceiveResponse, workerVars
<1> QED
  BY <1>2, <1>9, <1>10, <1>11 DEF IInv, ChunkAccounting

\* Returning nil happens with every response counted.
LEMMA ReturnNilIInv == IInv /\ ReturnNil => IInv'
<1> SUFFICES ASSUME IInv, ReturnNil PROVE IInv'
  OBVIOUS
<1> USE DEF ReturnNil, workerVars
<1>1. TypeOK'
  BY DEF IInv, TypeOK
<1>2. Taken' = Taken /\ Received' = Received
  BY DEF Taken, Received, Answered, Holds
<1>3. ChannelInOrder' /\ OneHolder' /\ AnsweredOnce' /\ NotTakenNotRun'
  BY <1>2 DEF IInv, ChunkAccounting, ChannelInOrder, OneHolder, AnsweredOnce, NotTakenNotRun, Holds
<1>4. CountedOnce'
  BY <1>2 DEF IInv, ChunkAccounting, CountedOnce
<1> QED
  BY <1>1, <1>3, <1>4 DEF IInv, ChunkAccounting

\* A worker that receives a closure becomes the only holder of its chunk.
LEMMA TakeIInv == ASSUME NEW w \in Workers, IInv, TakeOperation(w) PROVE IInv'
<1> DEFINE ch == operationChannel
<1>1. /\ ch \in Seq(Chunks) /\ ch # << >> /\ Len(ch) \in Nat \ {0}
      /\ Head(ch) = ch[1] /\ ch[1] \in Chunks
      /\ ch' = Tail(ch) /\ ch' \in Seq(Chunks)
      /\ Len(ch') = Len(ch) - 1
      /\ \A k \in 1 .. Len(ch') : ch'[k] = ch[k + 1]
  BY DEF IInv, TypeOK, TakeOperation
<1>2. TypeOK'
  BY <1>1 DEF IInv, TypeOK, TakeOperation, callerVars
<1>3. Taken \in Nat /\ chunkIndex' = chunkIndex /\ chunkIndex \in Nat /\ Taken' = Taken + 1
  BY <1>1, IInvFacts DEF IInv, TypeOK, TakeOperation, callerVars, Taken
<1>4. Head(ch) = Taken
  BY <1>1, <1>3 DEF IInv, ChunkAccounting, ChannelInOrder
<1>5. ChannelInOrder'
  BY <1>1, <1>3 DEF IInv, ChunkAccounting, ChannelInOrder, TakeOperation, callerVars
<1>6. \A v \in Workers, i \in Int : Holds(v, i)' <=> (Holds(v, i) \/ (v = w /\ i = Taken))
  BY <1>4 DEF IInv, TypeOK, TakeOperation, Holds
<1>7. \A v \in Workers : ~Holds(v, Taken)
  BY <1>3 DEF IInv, ChunkAccounting, OneHolder, Holds
<1>8. result' = result /\ crashed' = crashed /\ operationResponseChannel' = operationResponseChannel
  BY DEF TakeOperation
<1>9. OneHolder'
  <2>1. wpc' = [wpc EXCEPT ![w] = "running"] /\ wop' = [wop EXCEPT ![w] = Taken]
    BY <1>4 DEF TakeOperation
  <2>2. wpc[w] = "range" /\ result[Taken] = "none"
    BY <1>1, <1>3, <1>4 DEF TakeOperation, IInv, ChunkAccounting, NotTakenNotRun
  <2>3. ASSUME NEW v \in Workers, wpc'[v] \in {"running", "sending"}
        PROVE  /\ wop'[v] \in 0 .. (Taken' - 1)
               /\ wpc'[v] = "running" /\ ~crashed' => result'[wop'[v]] = "none"
               /\ wpc'[v] = "sending" => result'[wop'[v]] \in {"ok", "err"}
               /\ \A u \in Workers : Holds(u, wop[v])' => u = v
    <3>1. CASE v = w
      BY <1>3, <1>7, <1>8, <2>1, <2>2, <3>1 DEF IInv, TypeOK, Holds
    <3>2. CASE v # w
      <4>1. wpc[v] = wpc'[v] /\ wop'[v] = wop[v] /\ wop[v] \in 0 .. (Taken - 1)
        BY <2>1, <2>3, <3>2 DEF IInv, TypeOK, ChunkAccounting, OneHolder
      <4>2. \A u \in Workers : Holds(u, wop[v])' => u = v
        BY <1>3, <2>1, <2>3, <3>2, <4>1 DEF IInv, TypeOK, ChunkAccounting, OneHolder, Holds
      <4> QED
        BY <1>3, <1>8, <2>3, <4>1, <4>2 DEF IInv, ChunkAccounting, OneHolder
    <3> QED
      BY <3>1, <3>2
  <2> QED
    BY <2>3 DEF OneHolder
<1>10. AnsweredOnce'
  <2>1. \A k \in 1 .. Len(operationResponseChannel) :
           operationResponseChannel[k] \in 0 .. (Taken - 1)
    BY DEF IInv, ChunkAccounting, AnsweredOnce
  <2>2. ASSUME NEW k \in 1 .. Len(operationResponseChannel), NEW v \in Workers
        PROVE  ~Holds(v, operationResponseChannel[k])'
    <3>1. PICK i \in 0 .. (Taken - 1) : i = operationResponseChannel[k]
      BY <2>1
    <3>2. ~Holds(v, i)
      BY <3>1 DEF IInv, ChunkAccounting, AnsweredOnce
    <3> QED
      BY <1>3, <1>6, <1>8, <3>1, <3>2 DEF Holds
  <2> QED
    BY <1>3, <1>8, <2>1, <2>2 DEF IInv, ChunkAccounting, AnsweredOnce
<1>11. Received' = Received
  <2>1. ASSUME NEW i PROVE i \in Received' <=> i \in Received
    <3>1. Answered(i)' <=> Answered(i)
      BY <1>8 DEF Answered
    <3>2. CASE i \in 0 .. (Taken - 1)
      BY <1>3, <1>6, <3>1, <3>2 DEF Received
    <3>3. CASE i = Taken
      BY <1>3, <1>6, <3>3 DEF Received
    <3>4. CASE i \notin 0 .. Taken
      BY <1>3, <3>4 DEF Received
    <3> QED
      BY <1>3, <3>2, <3>3, <3>4
  <2> QED
    BY <2>1 DEF Received
<1>12. CountedOnce' /\ NotTakenNotRun'
  BY <1>3, <1>8, <1>11 DEF IInv, ChunkAccounting, CountedOnce, NotTakenNotRun, Chunks,
                           TakeOperation, callerVars
<1> QED
  BY <1>2, <1>5, <1>9, <1>10, <1>12 DEF IInv, ChunkAccounting

\* The end of an operation leaves its chunk with the worker that ran it.
LEMMA EndIInv ==
    ASSUME NEW w \in Workers, NEW out \in Outcomes, IInv, ~crashed, EndOperation(w, out)
    PROVE  IInv'
<1>1. PICK i \in Chunks : i = wop[w]
  BY IInvFacts DEF EndOperation
<1>2. Holds(w, i) /\ result' = [result EXCEPT ![i] = out] /\ out \in OpOutcomes
  BY <1>1, OutcomesAssumption DEF EndOperation, Holds
<1>3. TypeOK'
  BY <1>1, <1>2 DEF IInv, TypeOK, EndOperation, callerVars
<1>4. Taken' = Taken /\ Taken \in Nat
  BY IInvFacts DEF EndOperation, callerVars, Taken
<1>5. \A v \in Workers : \A j : Holds(v, j)' <=> Holds(v, j)
  BY DEF IInv, TypeOK, EndOperation, Holds
<1>6. Received' = Received /\ i \notin Received
  BY <1>2, <1>4, <1>5 DEF Received, Answered, EndOperation
<1>7. \A j \in Chunks \ {i} : result'[j] = result[j]
  BY <1>2 DEF IInv, TypeOK
<1>8. OneHolder'
  <2>1. ASSUME NEW v \in Workers, wpc'[v] \in {"running", "sending"}
        PROVE  /\ wop'[v] \in 0 .. (Taken' - 1)
               /\ wpc'[v] = "running" /\ ~crashed' => result'[wop'[v]] = "none"
               /\ wpc'[v] = "sending" => result'[wop'[v]] \in {"ok", "err"}
               /\ \A u \in Workers : Holds(u, wop[v])' => u = v
    <3>1. wop' = wop
      BY DEF EndOperation
    <3>2. wpc[v] \in {"running", "sending"}
      BY <2>1 DEF IInv, TypeOK, EndOperation
    <3>3. wop[v] \in 0 .. (Taken - 1) /\ wop[v] \in Chunks /\ \A u \in Workers : Holds(u, wop[v]) => u = v
      BY <3>2, IInvFacts DEF IInv, ChunkAccounting, OneHolder
    <3>4. \A u \in Workers : Holds(u, wop[v])' => u = v
      BY <1>5, <3>1, <3>3 DEF Holds
    <3>5. CASE v = w
      BY <1>1, <1>2, <1>4, <3>1, <3>3, <3>4, <3>5 DEF IInv, TypeOK, EndOperation, OpOutcomes
    <3>6. CASE v # w
      <4>1. wop[v] # i /\ wpc'[v] = wpc[v]
        BY <1>2, <3>3, <3>6 DEF IInv, TypeOK, EndOperation
      <4> QED
        BY <1>4, <1>7, <3>1, <3>2, <3>3, <3>4, <4>1 DEF IInv, ChunkAccounting, OneHolder
    <3> QED
      BY <3>5, <3>6
  <2> QED
    BY <2>1 DEF OneHolder
<1>9. AnsweredOnce'
  <2>1. ASSUME NEW k \in 1 .. Len(operationResponseChannel)
        PROVE  operationResponseChannel[k] \in Chunks \ {i}
    BY <1>2 DEF IInv, TypeOK, ChunkAccounting, AnsweredOnce
  <2>2. operationResponseChannel' = operationResponseChannel
    BY DEF EndOperation
  <2>3. ASSUME NEW k \in 1 .. Len(operationResponseChannel), NEW v \in Workers
        PROVE  ~Holds(v, operationResponseChannel[k])'
    <3>1. PICK j : j = operationResponseChannel[k]
      OBVIOUS
    <3>2. ~Holds(v, j)
      BY <3>1 DEF IInv, ChunkAccounting, AnsweredOnce
    <3> QED
      BY <1>5, <2>2, <3>1, <3>2 DEF Holds
  <2> QED
    BY <1>4, <1>7, <2>1, <2>2, <2>3 DEF IInv, ChunkAccounting, AnsweredOnce
<1>10. CountedOnce'
  <2>1. \A j \in Received : result'[j] = result[j]
    BY <1>6, <1>7, IInvFacts
  <2> QED
    BY <1>6, <2>1 DEF IInv, ChunkAccounting, CountedOnce, EndOperation, callerVars
<1>11. ChannelInOrder'
  BY <1>4 DEF IInv, ChunkAccounting, ChannelInOrder, EndOperation, callerVars
<1>12. NotTakenNotRun'
  <2>1. i < Taken
    BY <1>1, <1>4 DEF IInv, ChunkAccounting, OneHolder, EndOperation
  <2> QED
    BY <1>4, <1>7, <2>1 DEF IInv, ChunkAccounting, NotTakenNotRun, Chunks
<1> QED
  BY <1>3, <1>8, <1>9, <1>10, <1>11, <1>12 DEF IInv, ChunkAccounting

\* Sending a response moves the chunk from its worker to operationResponseChannel,
\* where it was not before.
LEMMA SendIInv == ASSUME NEW w \in Workers, IInv, SendResponse(w) PROVE IInv'
<1> DEFINE ch == operationResponseChannel
<1>1. PICK i \in Chunks : i = wop[w]
  BY IInvFacts DEF SendResponse
<1>2. /\ ch \in Seq(Chunks) /\ Len(ch) \in Nat
      /\ ch' = Append(ch, i) /\ ch' \in Seq(Chunks)
      /\ Len(ch') = Len(ch) + 1
      /\ \A k \in 1 .. Len(ch) : ch'[k] = ch[k]
      /\ ch'[Len(ch) + 1] = i
  BY <1>1 DEF IInv, TypeOK, SendResponse
<1>3. TypeOK'
  BY <1>1, <1>2 DEF IInv, TypeOK, SendResponse, callerVars
<1>4. Taken' = Taken /\ result' = result /\ crashed' = crashed
  BY DEF SendResponse, callerVars, Taken
<1>5. /\ Holds(w, i) /\ i \in 0 .. (Taken - 1)
      /\ result[i] \in {"ok", "err"}
      /\ \A v \in Workers : Holds(v, i) => v = w
  BY <1>1 DEF SendResponse, Holds, IInv, ChunkAccounting, OneHolder
<1>6. \A v \in Workers : \A j : Holds(v, j)' <=> (Holds(v, j) /\ v # w)
  BY DEF IInv, TypeOK, SendResponse, Holds
<1>7. ASSUME NEW j PROVE Answered(j)' <=> (Answered(j) \/ j = i)
  <2>1. ASSUME Answered(j) PROVE Answered(j)'
    BY <1>2, <2>1 DEF Answered
  <2>2. Answered(i)'
    <3>1. Len(ch) + 1 \in 1 .. Len(ch')
      BY <1>2
    <3> QED
      BY <1>2, <3>1 DEF Answered
  <2>3. ASSUME Answered(j)', j # i PROVE Answered(j)
    BY <1>2, <2>3 DEF Answered
  <2> QED
    BY <2>1, <2>2, <2>3
<1>8. Received' = Received
  <2>1. ASSUME NEW j PROVE j \in Received' <=> j \in Received
    <3>1. CASE j = i
      BY <1>5, <1>7, <3>1 DEF Received
    <3>2. CASE j # i
      <4>1. \A v \in Workers : Holds(v, j)' <=> Holds(v, j)
        BY <1>1, <1>6, <3>2 DEF Holds
      <4> QED
        BY <1>4, <1>7, <3>2, <4>1 DEF Received
    <3> QED
      BY <3>1, <3>2
  <2> QED
    BY <2>1 DEF Received
<1>9. OneHolder'
  <2>1. ASSUME NEW v \in Workers, wpc'[v] \in {"running", "sending"}
        PROVE  /\ v # w /\ wpc'[v] = wpc[v] /\ wop'[v] = wop[v]
               /\ \A u \in Workers : Holds(u, wop[v])' => u = v
    <3>1. v # w /\ wpc'[v] = wpc[v] /\ wop'[v] = wop[v]
      BY <2>1 DEF IInv, TypeOK, SendResponse
    <3>2. \A u \in Workers : Holds(u, wop[v]) => u = v
      BY <2>1, <3>1 DEF IInv, ChunkAccounting, OneHolder
    <3>3. \A u \in Workers : Holds(u, wop[v])' => Holds(u, wop[v])
      BY <1>6, <3>1 DEF Holds
    <3> QED
      BY <3>1, <3>2, <3>3
  <2> QED
    BY <1>4, <2>1 DEF IInv, ChunkAccounting, OneHolder
<1>10. AnsweredOnce'
  <2>1. ASSUME NEW k \in 1 .. Len(ch')
        PROVE  /\ ch'[k] \in 0 .. (Taken - 1)
               /\ result[ch'[k]] \in {"ok", "err"}
               /\ \A l \in 1 .. Len(ch') : ch'[l] = ch'[k] => l = k
    <3>1. \A l \in 1 .. Len(ch) : ch[l] # i
      BY <1>5 DEF IInv, ChunkAccounting, AnsweredOnce
    <3>2. CASE k = Len(ch) + 1
      BY <1>2, <1>5, <3>1, <3>2
    <3>3. CASE k \in 1 .. Len(ch)
      BY <1>2, <3>1, <3>3 DEF IInv, ChunkAccounting, AnsweredOnce
    <3> QED
      BY <1>2, <3>2, <3>3
  <2>2. ASSUME NEW k \in 1 .. Len(ch'), NEW v \in Workers PROVE ~Holds(v, ch[k])'
    <3>1. PICK j : j = ch'[k]
      OBVIOUS
    <3>2. ~Holds(v, j)'
      <4>1. CASE k = Len(ch) + 1
        BY <1>2, <1>5, <1>6, <3>1, <4>1
      <4>2. CASE k \in 1 .. Len(ch)
        BY <1>2, <1>6, <3>1, <4>2 DEF IInv, ChunkAccounting, AnsweredOnce
      <4> QED
        BY <1>2, <4>1, <4>2
    <3> QED
      BY <3>1, <3>2 DEF Holds
  <2> QED
    BY <1>4, <2>1, <2>2 DEF AnsweredOnce
<1>11. CountedOnce' /\ ChannelInOrder' /\ NotTakenNotRun'
  BY <1>4, <1>8 DEF IInv, ChunkAccounting, CountedOnce, ChannelInOrder, NotTakenNotRun,
                    SendResponse, callerVars
<1> QED
  BY <1>3, <1>9, <1>10, <1>11 DEF IInv, ChunkAccounting

\* A worker that exits holds no chunk.
LEMMA ExitIInv == ASSUME NEW w \in Workers, IInv, ExitWorker(w) PROVE IInv'
<1>1. TypeOK'
  BY DEF IInv, TypeOK, ExitWorker, callerVars
<1>2. \A v \in Workers : \A j : Holds(v, j)' <=> Holds(v, j)
  BY DEF IInv, TypeOK, ExitWorker, Holds
<1>3. Taken' = Taken /\ Received' = Received
  BY <1>2 DEF ExitWorker, callerVars, Taken, Received, Answered
<1>4. OneHolder' /\ AnsweredOnce'
  BY <1>3 DEF IInv, TypeOK, ChunkAccounting, OneHolder, AnsweredOnce, Holds, ExitWorker, callerVars
<1>5. ChannelInOrder' /\ CountedOnce' /\ NotTakenNotRun'
  BY <1>3 DEF IInv, ChunkAccounting, ChannelInOrder, CountedOnce, NotTakenNotRun, ExitWorker, callerVars
<1> QED
  BY <1>1, <1>4, <1>5 DEF IInv, ChunkAccounting

\* Every step of the caller or of a worker keeps the accounting.
LEMMA StepIInv == IInv /\ [Next]_vars => IInv'
<1> SUFFICES ASSUME IInv, [Next]_vars PROVE IInv'
  OBVIOUS
<1>1. CASE CallerStep
  BY <1>1, ProduceIInv, CloseIInv, ReceiveIInv, ReturnNilIInv DEF CallerStep
<1>2. ASSUME NEW w \in Workers, WorkerStep(w) PROVE IInv'
  BY <1>2, TakeIInv, EndIInv, SendIInv, ExitIInv DEF WorkerStep, EndSomehow
<1>3. CASE UNCHANGED vars
  <2>1. TypeOK'
    BY <1>3 DEF IInv, TypeOK, vars, callerVars, workerVars
  <2>2. Taken' = Taken /\ Received' = Received
    BY <1>3 DEF Taken, Received, Answered, Holds, vars, callerVars, workerVars
  <2>3. ChannelInOrder' /\ OneHolder' /\ AnsweredOnce' /\ CountedOnce' /\ NotTakenNotRun'
    BY <1>3, <2>2 DEF IInv, ChunkAccounting, ChannelInOrder, OneHolder, AnsweredOnce, CountedOnce,
                      NotTakenNotRun, Holds, vars, callerVars, workerVars
  <2> QED
    BY <2>1, <2>3 DEF IInv, ChunkAccounting
<1> QED
  BY <1>1, <1>2, <1>3 DEF Next, Terminated

\* The invariant behind every other theorem: at every moment each chunk is in one
\* place, and the wait loop has counted the chunks it received (highlevel.go:270-315).
THEOREM Accounting == Spec => []IInv
BY InitIInv, StepIInv, PTL DEF Spec

-----------------------------------------------------------------------------
(* What the invariant gives. *)

\* The variables of doBatchTransfer and its workers keep their types; in particular
\* no more than numChunks responses are ever received.
THEOREM TypeCorrect == Spec => []TypeOK
<1>1. IInv => TypeOK
  BY DEF IInv
<1> QED
  BY <1>1, Accounting, PTL

\* No chunk is run twice, lost, or counted twice by the wait loop.
THEOREM ChunkAccountingHolds == Spec => []ChunkAccounting
<1>1. IInv => ChunkAccounting
  BY DEF IInv
<1> QED
  BY <1>1, Accounting, PTL

\* Operations running in parallel use disjoint parts of the caller's buffer
\* (highlevel.go:83, 200), whatever its size and the range size.
THEOREM RunningOpsDisjointHolds == Spec => []RunningOpsDisjoint
<1>1. ASSUME IInv PROVE RunningOpsDisjoint
  <2>1. ASSUME NEW v \in Workers, wpc[v] = "running"
        PROVE  Bytes(wop[v]) \subseteq 0 .. (TransferSize - 1)
    BY <1>1, <2>1, IInvFacts, ChunksPartition
  <2>2. ASSUME NEW v \in Workers, wpc[v] = "running",
               NEW w \in Workers \ {v}, wpc[w] = "running"
        PROVE  Bytes(wop[v]) \cap Bytes(wop[w]) = {}
    <3>1. wop[v] \in Chunks /\ wop[w] \in Chunks
      BY <1>1, <2>2, IInvFacts
    <3>2. wop[v] # wop[w]
      BY <1>1, <2>2 DEF IInv, ChunkAccounting, OneHolder, Holds
    <3> QED
      BY <3>1, <3>2, ChunksPartition
  <2> QED
    BY <2>1, <2>2 DEF RunningOpsDisjoint
<1> QED
  BY <1>1, Accounting, PTL

\* Once the wait loop has counted NumChunks responses, it has received every chunk.
LEMMA AllReceived ==
    ASSUME IInv, responses = NumChunks
    PROVE  Received = Chunks
<1>1. IsFiniteSet(Chunks) /\ Cardinality(Chunks) = NumChunks
  BY NumChunksBounds, FS_Interval DEF Chunks
<1>2. Received \in SUBSET Chunks
  BY IInvFacts
<1>3. Cardinality(Received) = NumChunks
  BY DEF IInv, ChunkAccounting, CountedOnce
<1> QED
  BY <1>1, <1>2, <1>3, FS_Subset

\* What the operations of a batch may rely on: each runs a chunk of its own, for the
\* first time; when doBatchTransfer returns nil, all have ended well.
OperationsApart ==
    /\ TypeOK
    /\ \A w \in Workers : wpc[w] = "running" =>
         /\ wop[w] \in Chunks
         /\ ~crashed => result[wop[w]] = "none"
         /\ \A v \in Workers : wpc[v] = "running" /\ wop[v] = wop[w] => v = w
    /\ ret = "nil" => /\ \A i \in Chunks : result[i] = "ok"
                      /\ \A w \in Workers : wpc[w] # "running"

\* OperationsApart is what the inductive invariant says of running operations and of a nil return.
LEMMA IInvOperationsApart == IInv => OperationsApart
<1> SUFFICES ASSUME IInv PROVE OperationsApart
  OBVIOUS
<1>1. ASSUME NEW w \in Workers, wpc[w] = "running"
      PROVE  /\ wop[w] \in Chunks
             /\ ~crashed => result[wop[w]] = "none"
             /\ \A v \in Workers : wpc[v] = "running" /\ wop[v] = wop[w] => v = w
  BY <1>1, IInvFacts DEF IInv, ChunkAccounting, OneHolder, Holds
<1>2. ASSUME ret = "nil"
      PROVE  (\A i \in Chunks : result[i] = "ok") /\ (\A w \in Workers : wpc[w] # "running")
  <2>1. Received = Chunks
    BY <1>2, AllReceived DEF IInv, ChunkAccounting, CountedOnce
  <2>2. \A i \in Chunks : result[i] = "ok"
    BY <1>2, <2>1 DEF IInv, ChunkAccounting, CountedOnce
  <2>3. \A w \in Workers : wpc[w] # "running"
    BY <1>1, <2>1 DEF Received, Holds
  <2> QED
    BY <2>2, <2>3
<1> QED
  BY <1>1, <1>2 DEF IInv, OperationsApart

\* A nil error from doBatchTransfer (highlevel.go:314) means that every byte was
\* transferred by an operation that returned nil.
THEOREM NilMeansCompleteHolds == Spec => []NilMeansComplete
<1>1. ASSUME IInv PROVE NilMeansComplete
  <2>1. ASSUME ret = "nil" PROVE \A i \in Chunks : result[i] = "ok"
    BY <1>1, <2>1, IInvOperationsApart DEF OperationsApart
  <2> QED
    BY <2>1, ChunksPartition DEF NilMeansComplete
<1> QED
  BY <1>1, Accounting, PTL

\* A worker can always deliver its error, even after doBatchTransfer has returned
\* and nobody receives any more: numChunks slots (highlevel.go:274) are enough.
THEOREM SendNeverBlocksHolds == Spec => []SendNeverBlocks
<1>1. ASSUME IInv PROVE SendNeverBlocks
  <2>1. SUFFICES ASSUME NEW w \in Workers, wpc[w] = "sending"
                 PROVE  Len(operationResponseChannel) < NumChunks
    BY DEF SendNeverBlocks, ResponseCapacity
  <2> DEFINE ch == operationResponseChannel
             S  == 1 .. Len(ch)
             T  == Chunks \ {wop[w]}
  <2>2. wop[w] \in Chunks /\ ch \in Seq(Chunks) /\ Len(ch) \in Nat
    BY <1>1, <2>1, IInvFacts DEF IInv, TypeOK
  <2>3. IsFiniteSet(Chunks) /\ Cardinality(Chunks) = NumChunks
    BY NumChunksBounds, FS_Interval DEF Chunks
  <2>4. IsFiniteSet(T) /\ Cardinality(T) = NumChunks - 1
    BY <2>2, <2>3, FS_RemoveElement
  <2>5. \A k \in S : ch[k] \in T /\ \A l \in S : ch[k] = ch[l] => k = l
    BY <1>1, <2>1, <2>2 DEF IInv, ChunkAccounting, AnsweredOnce, Holds
  <2>6. [k \in S |-> ch[k]] \in Injection(S, T)
    BY <2>5 DEF Injection, IsInjective
  <2>7. Cardinality(S) <= Cardinality(T)
    BY <2>4, <2>6, FS_Injection
  <2>8. Cardinality(S) = Len(ch)
    BY <2>2, FS_Interval
  <2> QED
    BY <2>2, <2>4, <2>7, <2>8, NumChunksBounds
<1> QED
  BY <1>1, Accounting, PTL

\* doBatchTransfer implements the abstract transfer: each chunk is tried at most
\* once, and the verdict fits what happened to the chunks (highlevel.go:307-314).
THEOREM Refinement == Spec => ImplementsPromise
<1>1. Init => Promise!Init
  BY DEF Init, Promise!Init
<1>2. ASSUME IInv, [Next]_vars PROVE [Promise!Next]_(Promise!vars)
  <2> USE DEF Promise!vars
  <2>1. CASE result' = result /\ ret' = ret
    BY <2>1
  <2>2. CASE ReceiveResponse
    <3>1. CASE result[Head(operationResponseChannel)] = "ok"
      BY <2>1, <2>2, <3>1 DEF ReceiveResponse, workerVars
    <3>2. CASE result[Head(operationResponseChannel)] # "ok"
      <4>1. PICK i \in Chunks : i = Head(operationResponseChannel)
        BY <1>2, <2>2 DEF IInv, TypeOK, ReceiveResponse
      <4>2. result[i] = "err"
        <5>1. operationResponseChannel[1] = i /\ 1 \in 1 .. Len(operationResponseChannel)
          BY <1>2, <2>2, <4>1 DEF IInv, TypeOK, ReceiveResponse
        <5> QED
          BY <1>2, <3>2, <4>1, <5>1 DEF IInv, ChunkAccounting, AnsweredOnce
      <4> QED
        BY <2>2, <3>2, <4>2 DEF ReceiveResponse, workerVars, Promise!Next, Promise!Fail
    <3> QED
      BY <3>1, <3>2
  <2>3. CASE ReturnNil
    <3>1. Received = Chunks
      BY <1>2, <2>3, AllReceived DEF ReturnNil
    <3>2. \A i \in Chunks : result[i] = "ok"
      BY <1>2, <2>3, <3>1 DEF ReturnNil, IInv, ChunkAccounting, CountedOnce
    <3> QED
      BY <2>3, <3>2 DEF ReturnNil, workerVars, Promise!Next, Promise!Succeed
  <2>4. ASSUME NEW w \in Workers, NEW out \in Outcomes, ~crashed, EndOperation(w, out)
        PROVE  [Promise!Next]_(Promise!vars)
    <3>1. PICK i \in Chunks : i = wop[w]
      BY <1>2, <2>4, IInvFacts DEF EndOperation
    <3>2. result[i] = "none" /\ result' = [result EXCEPT ![i] = out] /\ ret' = ret
      BY <1>2, <2>4, <3>1 DEF EndOperation, callerVars, IInv, ChunkAccounting, OneHolder
    <3>3. result \in [Chunks -> OpOutcomes \cup {"none"}]
      BY <1>2 DEF IInv, TypeOK
    <3>4. i \in Promise!Untried
      BY <3>2 DEF Promise!Untried
    <3>5. CASE out = "ok"
      BY <3>2, <3>3, <3>4, <3>5 DEF Promise!Next, Promise!EndWell
    <3>6. CASE out = "err"
      BY <3>2, <3>3, <3>4, <3>6 DEF Promise!Next, Promise!EndBadly
    <3>7. CASE out = "panic"
      BY <3>2, <3>3, <3>7
    <3> QED
      BY <3>5, <3>6, <3>7, OutcomesAssumption DEF OpOutcomes
  <2>5. CASE CallerStep
    BY <2>1, <2>2, <2>3, <2>5 DEF CallerStep, Produce, CloseOperationChannel, workerVars
  <2>6. ASSUME NEW w \in Workers, WorkerStep(w) PROVE [Promise!Next]_(Promise!vars)
    BY <2>1, <2>4, <2>6 DEF WorkerStep, EndSomehow, TakeOperation, SendResponse, ExitWorker, callerVars
  <2>7. CASE UNCHANGED vars
    BY <2>1, <2>7 DEF vars, callerVars, workerVars
  <2> QED
    BY <1>2, <2>5, <2>6, <2>7 DEF Next, Terminated
<1> QED
  BY <1>1, <1>2, Accounting, PTL DEF Spec, ImplementsPromise, Promise!Spec

-----------------------------------------------------------------------------
(* Sums over the chunks or the workers of a batch, which the proofs about uploads and  *)
(* downloads need: by induction on the number of summands, which is an induction over  *)
(* a set of numbers, taken from the well-foundedness of <.                             *)

\* Induction: a set that has 0, and n + 1 with every n, has every number.
LEMMA SetInduction ==
    ASSUME NEW P, 0 \in P, \A n \in Nat : n \in P => n + 1 \in P
    PROVE  Nat \subseteq P
<1> DEFINE Bad == Nat \ P
<1>1. SUFFICES ASSUME Bad # {} PROVE FALSE
  OBVIOUS
<1>2. PICK n \in Bad : \A m \in Bad : ~(<< m, n >> \in OpToRel(<, Nat))
  BY <1>1, NatLessThanWellFounded, WFMin
<1>3. n \in Nat /\ n # 0
  OBVIOUS
<1>4. n - 1 \in Nat /\ n - 1 < n /\ (n - 1) + 1 = n
  BY <1>3
<1>5. << n - 1, n >> \in OpToRel(<, Nat)
  BY <1>3, <1>4 DEF OpToRel
<1>6. n - 1 \notin Bad
  BY <1>2, <1>5
<1> QED
  BY <1>4, <1>6

-----------------------------------------------------------------------------
(* The function behind a sum: the sum over each part of the domain. *)

Pick(s) == CHOOSE x \in s : TRUE

\* The sum over s, if part gives the sums over smaller sets.
SumStep(f, part, s) == IF s = {} THEN 0 ELSE f[Pick(s)] + part[s \ {Pick(s)}]

Part(f) == CHOOSE g : g = [s \in SUBSET DOMAIN f |-> SumStep(f, g, s)]

\* SumOf is the fold of the community modules, which is Part at the whole domain.
LEMMA SumIsPart == ASSUME NEW f PROVE SumOf(f) = Part(f)[DOMAIN f]
BY DEF SumOf, MapThenSumSet, MapThenFoldSet, Part, SumStep, Pick

\* The recursion of the fold has a solution if the domain is finite.
LEMMA PartExists ==
    ASSUME NEW f, IsFiniteSet(DOMAIN f)
    PROVE  \E g : g = [s \in SUBSET DOMAIN f |-> SumStep(f, g, s)]
<1> DEFINE D == DOMAIN f
           Upto(n) == {s \in SUBSET D : Cardinality(s) <= n}
           P == {n \in Nat : \E g : g = [s \in Upto(n) |-> SumStep(f, g, s)]}
<1>1. \A s \in SUBSET D : IsFiniteSet(s) /\ Cardinality(s) \in Nat /\ Cardinality(s) <= Cardinality(D)
  BY FS_Subset, FS_CardinalityType
<1>2. \A s \in SUBSET D : s # {} =>
        /\ Pick(s) \in s
        /\ s \ {Pick(s)} \in SUBSET D
        /\ Cardinality(s \ {Pick(s)}) = Cardinality(s) - 1
  BY <1>1, FS_RemoveElement DEF Pick
<1>3. 0 \in P
  <2> DEFINE g == [s \in Upto(0) |-> 0]
  <2>1. \A s \in Upto(0) : s = {}
    BY <1>1, FS_EmptySet
  <2>2. g = [s \in Upto(0) |-> SumStep(f, g, s)]
    BY <2>1 DEF SumStep
  <2> QED
    BY <2>2
<1>4. ASSUME NEW n \in Nat, n \in P PROVE n + 1 \in P
  <2>1. PICK g : g = [s \in Upto(n) |-> SumStep(f, g, s)]
    BY <1>4
  <2> DEFINE h == [s \in Upto(n + 1) |-> SumStep(f, g, s)]
  <2>2. \A s \in Upto(n) : s \in Upto(n + 1)
    BY <1>1
  <2>3. \A s \in Upto(n) : h[s] = g[s]
    BY <2>1, <2>2
  <2>4. \A s \in Upto(n + 1) : s # {} => s \ {Pick(s)} \in Upto(n)
    BY <1>1, <1>2
  <2>5. \A s \in Upto(n + 1) : SumStep(f, g, s) = SumStep(f, h, s)
    BY <2>3, <2>4 DEF SumStep
  <2>6. h = [s \in Upto(n + 1) |-> SumStep(f, h, s)]
    BY <2>5
  <2>7. \E k : k = [s \in Upto(n + 1) |-> SumStep(f, k, s)]
    <3> HIDE DEF h
    <3> QED
      BY <2>6
  <2> QED
    BY <2>7
<1> HIDE DEF P
<1>5. Cardinality(D) \in P
  BY <1>1, <1>3, <1>4, SetInduction
<1>6. Upto(Cardinality(D)) = SUBSET D
  BY <1>1
<1> QED
  BY <1>5, <1>6 DEF P

\* So Part satisfies it.
LEMMA PartStep ==
    ASSUME NEW f, IsFiniteSet(DOMAIN f), NEW s \in SUBSET DOMAIN f
    PROVE  /\ s = {} => Part(f)[s] = 0
           /\ s # {} => /\ Pick(s) \in s
                        /\ s \ {Pick(s)} \in SUBSET DOMAIN f
                        /\ Cardinality(s) \in Nat
                        /\ Cardinality(s \ {Pick(s)}) = Cardinality(s) - 1
                        /\ Part(f)[s] = f[Pick(s)] + Part(f)[s \ {Pick(s)}]
<1>1. Part(f) = [t \in SUBSET DOMAIN f |-> SumStep(f, Part(f), t)]
  BY PartExists DEF Part
<1>2. Part(f)[s] = SumStep(f, Part(f), s)
  BY <1>1
<1>3. s # {} => Pick(s) \in s
  BY DEF Pick
<1>4. IsFiniteSet(s)
  BY FS_Subset
<1> QED
  BY <1>2, <1>3, <1>4, FS_RemoveElement, FS_CardinalityType DEF SumStep

-----------------------------------------------------------------------------
(* One summand changes; all are the same. *)

\* If one summand changes, the sum changes by as much.
LEMMA SumChange ==
    ASSUME NEW D, IsFiniteSet(D), NEW f \in [D -> Int], NEW g \in [D -> Int],
           NEW x \in D, \A y \in D \ {x} : g[y] = f[y]
    PROVE  SumOf(f) \in Int /\ SumOf(g) = SumOf(f) + g[x] - f[x]
<1> DEFINE Fits(s) == /\ Part(f)[s] \in Int
                      /\ Part(g)[s] = Part(f)[s] + (IF x \in s THEN g[x] - f[x] ELSE 0)
           P == {n \in Nat : \A s \in SUBSET D : Cardinality(s) = n => Fits(s)}
<1>1. \A s \in SUBSET D : IsFiniteSet(s) /\ Cardinality(s) \in Nat
  BY FS_Subset, FS_CardinalityType
<1>2. 0 \in P
  BY <1>1, PartStep, FS_EmptySet
<1>3. ASSUME NEW n \in Nat, n \in P PROVE n + 1 \in P
  <2> SUFFICES ASSUME NEW s \in SUBSET D, Cardinality(s) = n + 1 PROVE Fits(s)
    OBVIOUS
  <2> DEFINE y == Pick(s)
             r == s \ {y}
  <2>1. s # {}
    BY FS_EmptySet
  <2>2. /\ y \in s /\ r \in SUBSET D /\ Cardinality(r) = n
        /\ Part(f)[s] = f[y] + Part(f)[r]
        /\ Part(g)[s] = g[y] + Part(g)[r]
    <3>1. DOMAIN f = D /\ DOMAIN g = D
      OBVIOUS
    <3>2. Cardinality(r) = Cardinality(s) - 1
      BY <2>1, <3>1, PartStep
    <3> QED
      BY <2>1, <3>1, <3>2, PartStep
  <2> HIDE DEF y
  <2>3. Fits(r)
    BY <1>3, <2>2
  <2>4. f[y] \in Int /\ g[y] \in Int /\ g[x] \in Int /\ f[x] \in Int
    BY <2>2
  <2>5. CASE y = x
    BY <2>2, <2>3, <2>4, <2>5
  <2>6. CASE y # x
    BY <2>2, <2>3, <2>4, <2>6
  <2> QED
    BY <2>5, <2>6
<1> HIDE DEF P
<1>4. Cardinality(D) \in P
  BY <1>1, <1>2, <1>3, SetInduction
<1>5. Fits(D)
  BY <1>4 DEF P
<1> QED
  BY <1>5, SumIsPart

\* The sum of equal summands.
LEMMA SumConstant ==
    ASSUME NEW D, IsFiniteSet(D), NEW c \in Int, NEW f \in [D -> Int], \A x \in D : f[x] = c
    PROVE  SumOf(f) = c * Cardinality(D)
<1> DEFINE P == {n \in Nat : \A s \in SUBSET D : Cardinality(s) = n => Part(f)[s] = c * n}
<1>1. \A s \in SUBSET D : IsFiniteSet(s) /\ Cardinality(s) \in Nat
  BY FS_Subset, FS_CardinalityType
<1>2. 0 \in P
  <2>1. \A s \in SUBSET D : Cardinality(s) = 0 => Part(f)[s] = 0
    BY <1>1, PartStep, FS_EmptySet
  <2>2. c * 0 = 0
    OBVIOUS
  <2> QED
    BY <2>1, <2>2
<1>3. ASSUME NEW n \in Nat, n \in P PROVE n + 1 \in P
  <2> SUFFICES ASSUME NEW s \in SUBSET D, Cardinality(s) = n + 1 PROVE Part(f)[s] = c * (n + 1)
    OBVIOUS
  <2> DEFINE y == Pick(s)
             r == s \ {y}
  <2>1. s # {}
    BY FS_EmptySet
  <2>2. y \in s /\ r \in SUBSET D /\ Cardinality(r) = n /\ Part(f)[s] = f[y] + Part(f)[r]
    <3>1. DOMAIN f = D
      OBVIOUS
    <3>2. Cardinality(r) = Cardinality(s) - 1
      BY <2>1, <3>1, PartStep
    <3> QED
      BY <2>1, <3>1, <3>2, PartStep
  <2> HIDE DEF y
  <2>3. Part(f)[s] = c + c * n
    BY <1>3, <2>2
  <2> QED
    BY <2>3
<1> HIDE DEF P
<1>4. Cardinality(D) \in P
  BY <1>1, <1>2, <1>3, SetInduction
<1> QED
  BY <1>4, SumIsPart DEF P
=============================================================================
