-------------------------- MODULE UploadFileProofs --------------------------
(***************************************************************************)
(* Proofs about UploadFile, for every file size, range size, number of      *)
(* workers and number of tries.                                             *)
(***************************************************************************)
EXTENDS UploadFile, FiniteSetTheorems, TLAPS

-----------------------------------------------------------------------------
(* What is proved of doBatchTransfer, for the batch that UploadFile runs. *)

BP == INSTANCE BatchTransferProofs WITH Outcomes <- {"ok", "err", "panic"}

\* The assumptions of BatchTransfer are met.
LEMMA BatchAssumptions == BP!SizeAssumption /\ BP!WorkersAssumption /\ BP!OutcomesAssumption
<1>1. BP!SizeAssumption
  BY SizeAssumption
<1>2. BP!WorkersAssumption
  BY WorkersAssumption DEF BP!IsFiniteSet, IsFiniteSet
<1>3. BP!OutcomesAssumption
  BY DEF BP!OpOutcomes
<1> QED
  BY <1>1, <1>2, <1>3

\* The sums of BatchTransferProofs are those of Sums.
LEMMA SameSums == ASSUME NEW f PROVE SumOf(f) = BP!SumOf(f)
BY DEF SumOf, BP!SumOf, MapThenSumSet, BP!MapThenSumSet, MapThenFoldSet, BP!MapThenFoldSet

\* If one summand changes, the sum changes by as much.
LEMMA SumChange ==
    ASSUME NEW D, IsFiniteSet(D), NEW f \in [D -> Int], NEW g \in [D -> Int],
           NEW x \in D, \A y \in D \ {x} : g[y] = f[y]
    PROVE  SumOf(f) \in Int /\ SumOf(g) = SumOf(f) + g[x] - f[x]
<1>1. BP!IsFiniteSet(D)
  BY DEF BP!IsFiniteSet, IsFiniteSet
<1>2. BP!SumOf(f) \in Int /\ BP!SumOf(g) = BP!SumOf(f) + g[x] - f[x]
  BY <1>1, BatchAssumptions, BP!SumChange
<1> QED
  BY <1>2, SameSums

\* The sum of equal summands.
LEMMA SumConstant ==
    ASSUME NEW D, IsFiniteSet(D), NEW c \in Int, NEW f \in [D -> Int], \A x \in D : f[x] = c
    PROVE  SumOf(f) = c * Cardinality(D)
<1>1. BP!IsFiniteSet(D) /\ BP!Cardinality(D) = Cardinality(D)
  BY DEF BP!IsFiniteSet, IsFiniteSet, BP!Cardinality, Cardinality
<1>2. BP!SumOf(f) = c * BP!Cardinality(D)
  BY <1>1, BatchAssumptions, BP!SumConstant
<1> QED
  BY <1>1, <1>2, SameSums

\* Batch and BP are instances of one module.
LEMMA SameChunks ==
    /\ Batch!NumChunks = BP!NumChunks
    /\ Batch!Chunks = BP!Chunks
    /\ \A i : Batch!Offset(i) = BP!Offset(i) /\ Batch!Length(i) = BP!Length(i)
    /\ \A i : Batch!Bytes(i) = BP!Bytes(i)
BY DEF Batch!NumChunks, BP!NumChunks, Batch!Chunks, BP!Chunks, Batch!Offset, BP!Offset,
       Batch!Length, BP!Length, Batch!Bytes, BP!Bytes

\* The upload's instance of doBatchTransfer starts as the proofs' instance does.
LEMMA SameInit == Batch!Init => BP!Init
BY SameChunks DEF Batch!Init, BP!Init, Batch!NoChunk, BP!NoChunk

\* Both instances of doBatchTransfer have the same steps.
LEMMA SameNext == [Batch!Next]_batchVars => [BP!Next]_BP!vars
<1> USE SameChunks DEF Batch!NoChunk, BP!NoChunk, Batch!callerVars, BP!callerVars,
                       Batch!workerVars, BP!workerVars
<1>1. Batch!CallerStep => BP!CallerStep
  BY DEF Batch!CallerStep, BP!CallerStep, Batch!Produce, BP!Produce, Batch!CloseOperationChannel,
         BP!CloseOperationChannel, Batch!ReceiveResponse, BP!ReceiveResponse, Batch!ReturnNil,
         BP!ReturnNil, Batch!OperationCapacity, BP!OperationCapacity, Batch!Cardinality,
         BP!Cardinality, Batch!IsFiniteSet, BP!IsFiniteSet
<1>2. \A w \in Workers : Batch!WorkerStep(w) => BP!WorkerStep(w)
  BY DEF Batch!WorkerStep, BP!WorkerStep, Batch!TakeOperation, BP!TakeOperation,
         Batch!EndSomehow, BP!EndSomehow, Batch!EndOperation, BP!EndOperation,
         Batch!SendResponse, BP!SendResponse, Batch!ResponseCapacity, BP!ResponseCapacity,
         Batch!ExitWorker, BP!ExitWorker
<1>3. Batch!Terminated => UNCHANGED BP!vars
  BY DEF Batch!Terminated, Batch!vars, BP!vars
<1>4. UNCHANGED batchVars => UNCHANGED BP!vars
  BY DEF batchVars, BP!vars
<1> QED
  BY <1>1, <1>2, <1>3, <1>4 DEF Batch!Next, BP!Next

\* BatchTransferProofs' OperationsApart, of Batch.
OperationsApart ==
    /\ wpc \in [Workers -> {"range", "running", "sending", "exited"}]
    /\ wop \in [Workers -> Batch!Chunks \cup {-1}]
    /\ result \in [Batch!Chunks -> {"ok", "err", "panic", "none"}]
    /\ ret \in {"none", "nil", "err"}
    /\ crashed \in BOOLEAN
    /\ \A w \in Workers : wpc[w] = "running" =>
         /\ wop[w] \in Batch!Chunks
         /\ ~crashed => result[wop[w]] = "none"
         /\ \A v \in Workers : wpc[v] = "running" /\ wop[v] = wop[w] => v = w
    /\ ret = "nil" => /\ \A i \in Batch!Chunks : result[i] = "ok"
                      /\ \A w \in Workers : wpc[w] # "running"

\* What BatchTransferProofs shows of running operations, for the upload's instance.
LEMMA BatchOperationsApart == BP!IInv => OperationsApart
<1> SUFFICES ASSUME BP!IInv PROVE OperationsApart
  OBVIOUS
<1>1. BP!OperationsApart
  BY BatchAssumptions, BP!IInvOperationsApart
<1> QED
  BY <1>1, SameChunks
     DEF OperationsApart, BP!OperationsApart, BP!TypeOK, BP!OpOutcomes, BP!NoChunk

-----------------------------------------------------------------------------
(* The inductive invariant. *)

UploadRecord == [at : {"idle", "retry", "send", "report"}, try : Nat, from : {0}, pos : Nat, diff : Int]

UploadTypes ==
    /\ phase \in {"map", "create", "transfer", "returned"}
    /\ size \in {0, TransferSize}
    /\ mapped \in BOOLEAN
    /\ verdict \in {"none", "nil", "err"}
    /\ up \in [Workers -> UploadRecord]
    /\ rangeProgress \in [Batch!Chunks -> Nat]
    /\ fileProgress \in Int
    /\ remote \in SUBSET (0 .. (TransferSize - 1))

\* doBatchTransfer has not been called.
Untouched ==
    /\ operationChannel = << >> /\ ~operationChannelClosed
    /\ ret = "none" /\ ~crashed
    /\ \A w \in Workers : wpc[w] = "range"

\* How far the call is, and what that says of the batch, the mapping and the verdict.
CallInPhase ==
    /\ phase \in {"map", "create"} => Untouched /\ verdict = "none"
    /\ phase = "map" => ~mapped
    /\ phase = "create" => mapped = (size # 0)
    /\ phase = "transfer" => mapped /\ size = TransferSize /\ verdict = "none" /\ ~crashed
    /\ phase = "returned" => verdict # "none" /\ ~mapped
    /\ phase = "returned" /\ ret = "none" => Untouched /\ (verdict = "nil" => size = 0)
    /\ phase = "returned" /\ ret # "none" => verdict = ret
    /\ size = 0 => Untouched /\ remote = {} /\ fileProgress = 0
    /\ crashed => verdict = "err"

\* The upload a worker runs, and the position its range has reported.
UploadInStep ==
    \A w \in Workers :
        /\ up[w].at = "idle" <=> wpc[w] # "running"
        /\ up[w].at # "report" => up[w].diff = 0
        /\ up[w].at # "idle" => up[w].pos <= Batch!Length(wop[w])
        /\ up[w].at \in {"send", "report"} /\ up[w].pos > 0 => rangeProgress[wop[w]] = up[w].pos

\* A range whose operation returned nil is stored, and reported to its end.
RangeDone ==
    \A i \in Batch!Chunks : result[i] = "ok" =>
        Batch!Bytes(i) \subseteq remote /\ rangeProgress[i] = Batch!Length(i)

Diffs == [w \in Workers |-> up[w].diff]

\* The first part of ProgressExact.
ProgressAdds == fileProgress = SumOf(rangeProgress) - SumOf(Diffs)

IInv == UploadTypes /\ CallInPhase /\ UploadInStep /\ RangeDone /\ ProgressAdds

\* How the ranges divide the file (BatchTransferProofs' ChunkBounds and ChunksPartition).
LEMMA Ranges ==
    /\ Batch!NumChunks \in Nat \ {0}
    /\ IsFiniteSet(Batch!Chunks) /\ Cardinality(Batch!Chunks) = Batch!NumChunks
    /\ \A i \in Batch!Chunks :
         /\ Batch!Offset(i) \in Nat /\ Batch!Length(i) \in 1 .. ChunkSize
         /\ Batch!Bytes(i) = Batch!Offset(i) .. (Batch!Offset(i) + Batch!Length(i) - 1)
         /\ Batch!Bytes(i) \subseteq 0 .. (TransferSize - 1)
    /\ \A b \in 0 .. (TransferSize - 1) : \E i \in Batch!Chunks : b \in Batch!Bytes(i)
<1>1. Batch!NumChunks \in Nat \ {0}
  BY SameChunks, BatchAssumptions, BP!NumChunksBounds
<1>2. IsFiniteSet(Batch!Chunks) /\ Cardinality(Batch!Chunks) = Batch!NumChunks
  BY <1>1, FS_Interval DEF Batch!Chunks
<1>3. \A i \in Batch!Chunks : Batch!Offset(i) \in Nat /\ Batch!Length(i) \in 1 .. ChunkSize
  BY SameChunks, BatchAssumptions, BP!ChunkBounds
<1>4. /\ \A i \in Batch!Chunks : Batch!Bytes(i) \subseteq 0 .. (TransferSize - 1)
      /\ \A b \in 0 .. (TransferSize - 1) : \E i \in Batch!Chunks : b \in Batch!Bytes(i)
  BY SameChunks, BatchAssumptions, BP!ChunksPartition
<1> QED
  BY <1>1, <1>2, <1>3, <1>4 DEF Batch!Bytes

\* Nothing is uploaded yet, and nothing reported.
LEMMA InitIInv == Init => IInv
<1> SUFFICES ASSUME Init PROVE IInv
  OBVIOUS
<1> USE DEF Init, IdleUpload, Batch!Init
<1>1. UploadTypes
  <2>1. up \in [Workers -> UploadRecord]
    BY DEF UploadRecord
  <2>2. rangeProgress \in [Batch!Chunks -> Nat] /\ remote \in SUBSET (0 .. (TransferSize - 1))
    OBVIOUS
  <2>3. /\ phase \in {"map", "create", "transfer", "returned"} /\ verdict \in {"none", "nil", "err"}
        /\ fileProgress \in Int
    OBVIOUS
  <2>5. mapped \in BOOLEAN
    OBVIOUS
  <2>4. size \in {0, TransferSize}
    OBVIOUS
  <2> HIDE DEF Init, Batch!Init
  <2> QED
    BY <2>1, <2>2, <2>3, <2>4, <2>5 DEF UploadTypes
<1>2. CallInPhase /\ RangeDone
  BY DEF CallInPhase, Untouched, RangeDone
<1>3. UploadInStep
  BY DEF UploadInStep
<1>4. SumOf(rangeProgress) = 0
  <2>1. rangeProgress \in [Batch!Chunks -> Int] /\ \A i \in Batch!Chunks : rangeProgress[i] = 0
    OBVIOUS
  <2> HIDE DEF Init, Batch!Init
  <2>2. SumOf(rangeProgress) = 0 * Cardinality(Batch!Chunks)
    <3>1. IsFiniteSet(Batch!Chunks)
      BY Ranges
    <3> QED
      BY <2>1, <3>1, SumConstant
  <2> QED
    BY <2>2, Ranges
<1>5. SumOf(Diffs) = 0
  <2>1. Diffs \in [Workers -> Int] /\ \A w \in Workers : Diffs[w] = 0
    BY DEF Diffs
  <2>2. Cardinality(Workers) \in Nat
    BY WorkersAssumption, FS_CardinalityType
  <2> QED
    BY <2>1, <2>2, WorkersAssumption, SumConstant
<1>6. ProgressAdds
  BY <1>4, <1>5 DEF ProgressAdds
<1> QED
  BY <1>1, <1>2, <1>3, <1>6 DEF IInv

\* The steps of the calling goroutine that are not doBatchTransfer's.
LEMMA CallIInv ==
    ASSUME IInv, OperationsApart, MapFile \/ CreateFails \/ Create \/ ReturnFromBatch
    PROVE  IInv'
<1>1. UNCHANGED << batchVars, size, up, progressVars, remote >>
  BY DEF MapFile, CreateFails, Create, ReturnFromBatch
<1> USE <1>1 DEF batchVars, progressVars
<1>2. UploadTypes'
  BY DEF IInv, UploadTypes, OperationsApart, MapFile, CreateFails, Create, ReturnFromBatch, Return
<1>3. CallInPhase'
  <2>1. Untouched' <=> Untouched
    BY DEF Untouched
  <2>2. CASE MapFile
    <3>1. CASE mapped' = (size # 0) /\ phase' = "create" /\ UNCHANGED verdict
      BY <2>1, <2>2, <3>1, SizeAssumption DEF IInv, UploadTypes, CallInPhase, MapFile
    <3>2. CASE verdict' = "err" /\ phase' = "returned" /\ UNCHANGED mapped
      BY <2>1, <2>2, <3>2, SizeAssumption DEF IInv, UploadTypes, CallInPhase, MapFile, Untouched
    <3> QED
      BY <2>2, <3>1, <3>2 DEF MapFile
  <2>5. CASE CreateFails
    BY <2>1, <2>5, SizeAssumption DEF IInv, UploadTypes, CallInPhase, CreateFails, Return, Untouched
  <2>3. CASE Create
    BY <2>1, <2>3 DEF IInv, UploadTypes, CallInPhase, Create, Return, Untouched
  <2>4. CASE ReturnFromBatch
    BY <2>1, <2>4, SizeAssumption DEF IInv, UploadTypes, CallInPhase, ReturnFromBatch, Return
  <2> QED
    BY <2>2, <2>3, <2>4, <2>5
<1>4. UploadInStep' /\ RangeDone'
  BY DEF IInv, UploadInStep, RangeDone
<1>5. ProgressAdds'
  BY DEF IInv, ProgressAdds, Diffs
<1> QED
  BY <1>2, <1>3, <1>4, <1>5 DEF IInv

\* doBatchTransfer's steps of the calling goroutine touch no upload.
LEMMA BatchCallerIInv == ASSUME IInv, OperationsApart, BatchCallerStep PROVE IInv'
<1>1. UNCHANGED << callVars, up, progressVars, remote, wpc, wop, result, crashed >>
  BY DEF BatchCallerStep, Batch!CallerStep, Batch!Produce, Batch!CloseOperationChannel,
         Batch!ReceiveResponse, Batch!ReturnNil, Batch!workerVars
<1>2. phase = "transfer"
  BY DEF BatchCallerStep
<1> USE <1>1, <1>2 DEF callVars, progressVars
<1>3. UploadTypes'
  BY DEF IInv, UploadTypes
<1>4. CallInPhase'
  BY SizeAssumption DEF IInv, UploadTypes, CallInPhase
<1>5. UploadInStep' /\ RangeDone'
  BY DEF IInv, UploadInStep, RangeDone
<1>6. ProgressAdds'
  BY DEF IInv, ProgressAdds, Diffs
<1> QED
  BY <1>3, <1>4, <1>5, <1>6 DEF IInv

\* A worker moves only between the call of doBatchTransfer and its own end.
LEMMA WorkerMoves ==
    ASSUME IInv, OperationsApart, NEW w \in Workers, WorkerStep(w)
    PROVE  /\ phase \in {"transfer", "returned"} /\ size = TransferSize
           /\ phase = "returned" => ret # "none"
           /\ ~crashed
<1>1. ~Untouched
  <2> SUFFICES ASSUME Untouched PROVE FALSE
    OBVIOUS
  <2>1. wpc[w] = "range" /\ up[w].at = "idle" /\ operationChannel = << >> /\ ~operationChannelClosed
    BY DEF Untouched, IInv, UploadInStep
  <2> QED
    BY <2>1 DEF WorkerStep, Upload, Loop, Start, Batch!TakeOperation, BeginTry, ReadBody,
                ReadUnmapped, Report, TryEnds, Batch!SendResponse, Batch!ExitWorker
<1> QED
  BY <1>1 DEF IInv, CallInPhase, UploadTypes, WorkerStep

\* Only a read of memory unmapped by a failed call ends the process.
LEMMA WorkerCallInPhase ==
    ASSUME IInv, OperationsApart, NEW w \in Workers, WorkerStep(w)
    PROVE  CallInPhase'
<1>1. UNCHANGED << callVars, ret >>
  BY DEF WorkerStep, Upload, Loop, Start, Batch!TakeOperation, BeginTry, ReadBody, batchVars,
         ReadUnmapped, Report, TryEnds, Batch!EndOperation, Batch!SendResponse, Batch!ExitWorker,
         Batch!callerVars
<1>2. crashed' => ~mapped /\ wpc[w] = "running"
  <2>1. \A out \in {"ok", "err"} : Batch!EndOperation(w, out) => ~crashed'
    BY DEF Batch!EndOperation
  <2>2. \A out \in {"ok", "err", "retry"} : TryEnds(w, out) => ~crashed'
    BY <2>1, WorkerMoves DEF TryEnds, batchVars
  <2>3. ReadUnmapped(w) => ~mapped /\ wpc[w] = "running"
    BY DEF ReadUnmapped, Batch!EndOperation
  <2> QED
    BY <2>2, <2>3, WorkerMoves
       DEF WorkerStep, Upload, Loop, Start, Batch!TakeOperation, BeginTry, ReadBody, batchVars,
           Report, Batch!SendResponse, Batch!ExitWorker
<1>3. crashed' => phase = "returned" /\ verdict = "err"
  BY <1>2, WorkerMoves DEF IInv, CallInPhase, UploadTypes, OperationsApart
<1> QED
  BY <1>1, <1>3, WorkerMoves, SizeAssumption DEF IInv, CallInPhase, UploadTypes, callVars

\* A step of worker w's upload adds the change of its diff to the sum of the diffs.
LEMMA DiffsChange ==
    ASSUME UploadTypes, UploadTypes', NEW w \in Workers,
           \A v \in Workers \ {w} : up'[v] = up[v]
    PROVE  /\ SumOf(Diffs) \in Int
           /\ SumOf(Diffs)' = SumOf(Diffs) + up'[w].diff - up[w].diff
<1>1. Diffs \in [Workers -> Int] /\ Diffs' \in [Workers -> Int]
  BY DEF Diffs, UploadTypes, UploadRecord
<1>2. \A v \in Workers : Diffs[v] = up[v].diff /\ Diffs'[v] = up'[v].diff
  BY DEF Diffs
<1>3. \A v \in Workers \ {w} : Diffs'[v] = Diffs[v]
  BY <1>2
<1>4. SumOf(Diffs) \in Int /\ SumOf(Diffs') = SumOf(Diffs) + Diffs'[w] - Diffs[w]
  BY <1>1, <1>3, SumChange, WorkersAssumption
<1> QED
  BY <1>2, <1>4

\* The sum of the rangeProgress variables is a number.
LEMMA RangeSum == UploadTypes => SumOf(rangeProgress) \in Int
<1> SUFFICES ASSUME UploadTypes PROVE SumOf(rangeProgress) \in Int
  OBVIOUS
<1>1. rangeProgress \in [Batch!Chunks -> Int] /\ IsFiniteSet(Batch!Chunks) /\ 0 \in Batch!Chunks
  BY Ranges DEF UploadTypes, Batch!Chunks
<1> HIDE DEF Batch!Chunks
<1> QED
  BY <1>1, SumChange

\* A step of worker w that reports nothing and leaves its diff alone.
LEMMA ProgressUntouched ==
    ASSUME IInv, UploadTypes', NEW w \in Workers, UNCHANGED progressVars,
           \A v \in Workers \ {w} : up'[v] = up[v], up'[w].diff = up[w].diff
    PROVE  ProgressAdds'
<1>1. SumOf(Diffs) \in Int /\ SumOf(Diffs)' = SumOf(Diffs) + up'[w].diff - up[w].diff
  BY DiffsChange DEF IInv
<1>2. up[w].diff \in Int
  BY DEF IInv, UploadTypes, UploadRecord
<1> QED
  BY <1>1, <1>2 DEF IInv, ProgressAdds, progressVars

-----------------------------------------------------------------------------
(* The steps of a worker. *)

\* A worker takes its next range from operationChannel.
LEMMA StartIInv ==
    ASSUME IInv, OperationsApart, OperationsApart', NEW w \in Workers, WorkerStep(w), Start(w)
    PROVE  IInv'
<1>1. CallInPhase'
  BY WorkerCallInPhase
<1>2. UNCHANGED << callVars, rangeProgress, fileProgress, remote, result, crashed >>
  BY DEF Start, Batch!TakeOperation, progressVars
<1>3. /\ wpc[w] = "range" /\ up[w].at = "idle" /\ up[w].diff = 0
      /\ wpc'[w] = "running" /\ wop'[w] \in Batch!Chunks
      /\ \A v \in Workers \ {w} : wpc'[v] = wpc[v] /\ wop'[v] = wop[v]
  BY DEF Start, Batch!TakeOperation, IInv, UploadInStep, OperationsApart
<1>4. /\ up' \in [Workers -> UploadRecord]
      /\ up'[w].at = "retry" /\ up'[w].diff = 0 /\ up'[w].pos = 0
      /\ \A v \in Workers \ {w} : up'[v] = up[v]
  BY DEF Start, IdleUpload, IInv, UploadTypes, UploadRecord
<1>5. UploadTypes'
  BY <1>2, <1>4 DEF IInv, UploadTypes, callVars
<1>6. UploadInStep'
  BY <1>2, <1>3, <1>4, Ranges DEF IInv, UploadInStep
<1>7. RangeDone'
  BY <1>2 DEF IInv, RangeDone
<1>8. ProgressAdds'
  BY <1>2, <1>3, <1>4, <1>5, ProgressUntouched DEF progressVars
<1> QED
  BY <1>1, <1>5, <1>6, <1>7, <1>8 DEF IInv

\* The retry policy rewinds the body and begins a try of the range.
LEMMA BeginTryIInv ==
    ASSUME IInv, OperationsApart, NEW w \in Workers, WorkerStep(w), BeginTry(w)
    PROVE  IInv'
<1>1. CallInPhase'
  BY WorkerCallInPhase
<1>2. UNCHANGED << callVars, rangeProgress, fileProgress, remote, result, crashed, wpc, wop >>
  BY DEF BeginTry, progressVars, batchVars
<1>4. /\ up' \in [Workers -> UploadRecord]
      /\ up[w].at = "retry"
      /\ up'[w].at = "send" /\ up'[w].diff = up[w].diff /\ up'[w].pos = 0
      /\ \A v \in Workers \ {w} : up'[v] = up[v]
  <2>1. up[w] \in UploadRecord
    BY DEF IInv, UploadTypes
  <2> QED
    BY <2>1 DEF BeginTry, IInv, UploadTypes, UploadRecord
<1>5. UploadTypes'
  BY <1>2, <1>4 DEF IInv, UploadTypes, callVars
<1>6. UploadInStep'
  <2>1. wop[w] \in Batch!Chunks
    BY <1>4 DEF IInv, UploadInStep, OperationsApart
  <2> QED
    BY <1>2, <1>4, <2>1, Ranges DEF IInv, UploadInStep
<1>7. RangeDone'
  BY <1>2 DEF IInv, RangeDone
<1>8. ProgressAdds'
  BY <1>2, <1>4, <1>5, ProgressUntouched DEF progressVars
<1> QED
  BY <1>1, <1>5, <1>6, <1>7, <1>8 DEF IInv

\* The transport reads n bytes: the range's progress and the diff grow together.
LEMMA ReadBodyIInv ==
    ASSUME IInv, OperationsApart, NEW w \in Workers, WorkerStep(w),
           NEW n \in 1 .. ChunkSize, ReadBody(w, n)
    PROVE  IInv'
<1> DEFINE i == wop[w]
           p == up[w].pos + n
<1>1. CallInPhase'
  BY WorkerCallInPhase
<1>2. UNCHANGED << callVars, fileProgress, remote, result, crashed, wpc, wop >>
  BY DEF ReadBody, batchVars
<1>3. up[w] \in UploadRecord /\ up[w].at = "send" /\ up[w].diff = 0
  BY DEF ReadBody, IInv, UploadTypes, UploadInStep
<1>4. i \in Batch!Chunks /\ wpc[w] = "running" /\ result[i] = "none"
  BY <1>3, WorkerMoves DEF IInv, UploadInStep, OperationsApart
<1>5. rangeProgress \in [Batch!Chunks -> Nat] /\ rangeProgress[i] \in Nat /\ Batch!Length(i) \in Nat
  BY <1>4, Ranges DEF IInv, UploadTypes
<1>6. p \in Nat /\ p > 0 /\ p <= Batch!Length(i)
  BY <1>3, <1>5 DEF ReadBody, UploadRecord
<1>7. /\ up' \in [Workers -> UploadRecord]
      /\ up'[w].at = "report" /\ up'[w].pos = p /\ up'[w].diff = p - rangeProgress[i]
      /\ \A v \in Workers \ {w} : up'[v] = up[v]
  BY <1>3, <1>5, <1>6 DEF ReadBody, IInv, UploadTypes, UploadRecord
<1>8. /\ rangeProgress' \in [Batch!Chunks -> Nat] /\ rangeProgress'[i] = p
      /\ \A j \in Batch!Chunks \ {i} : rangeProgress'[j] = rangeProgress[j]
  BY <1>4, <1>5, <1>6 DEF ReadBody
<1> HIDE DEF i, p
<1>9. UploadTypes'
  BY <1>2, <1>7, <1>8 DEF IInv, UploadTypes, callVars
<1>10. UploadInStep'
  <2>1. ASSUME NEW v \in Workers \ {w}, up[v].at # "idle"
        PROVE  wop[v] \in Batch!Chunks \ {i}
    BY <1>4, <2>1 DEF IInv, UploadInStep, OperationsApart, i
  <2>2. ASSUME NEW v \in Workers \ {w}
        PROVE  /\ up'[v].at = "idle" <=> wpc'[v] # "running"
               /\ up'[v].at # "report" => up'[v].diff = 0
               /\ up'[v].at # "idle" => up'[v].pos <= Batch!Length(wop'[v])
               /\ up'[v].at \in {"send", "report"} /\ up'[v].pos > 0 => rangeProgress'[wop'[v]] = up'[v].pos
    BY <1>2, <1>7, <1>8, <2>1 DEF IInv, UploadInStep
  <2> QED
    BY <1>2, <1>4, <1>6, <1>7, <1>8, <2>2 DEF UploadInStep, i
<1>11. RangeDone'
  BY <1>2, <1>4, <1>8 DEF IInv, RangeDone
<1>12. ProgressAdds'
  <2>1. SumOf(Diffs) \in Int /\ SumOf(Diffs)' = SumOf(Diffs) + (p - rangeProgress[i]) - 0
    BY <1>3, <1>7, <1>9, DiffsChange DEF IInv
  <2>2. rangeProgress \in [Batch!Chunks -> Int] /\ rangeProgress' \in [Batch!Chunks -> Int]
    BY <1>5, <1>8
  <2>3. SumOf(rangeProgress) \in Int
        /\ SumOf(rangeProgress') = SumOf(rangeProgress) + rangeProgress'[i] - rangeProgress[i]
    <3>1. IsFiniteSet(Batch!Chunks)
      BY Ranges
    <3> QED
      BY <1>4, <1>8, <2>2, <3>1, SumChange
  <2> QED
    BY <1>2, <1>5, <1>6, <1>8, <2>1, <2>3 DEF IInv, ProgressAdds
<1> QED
  BY <1>1, <1>9, <1>10, <1>11, <1>12 DEF IInv

\* The process ends: no range is done by it.
LEMMA ReadUnmappedIInv ==
    ASSUME IInv, OperationsApart, OperationsApart', NEW w \in Workers, WorkerStep(w), ReadUnmapped(w)
    PROVE  IInv'
<1>1. CallInPhase'
  BY WorkerCallInPhase
<1>2. UNCHANGED << callVars, up, rangeProgress, fileProgress, remote, wpc, wop >>
  BY DEF ReadUnmapped, Batch!EndOperation, progressVars
<1>3. result' = [result EXCEPT ![wop[w]] = "panic"] /\ result \in [Batch!Chunks -> {"ok", "err", "panic", "none"}]
  BY DEF ReadUnmapped, Batch!EndOperation, OperationsApart
<1>4. UploadTypes'
  BY <1>2 DEF IInv, UploadTypes, callVars
<1>5. UploadInStep'
  BY <1>2 DEF IInv, UploadInStep
<1>6. RangeDone'
  BY <1>2, <1>3 DEF IInv, RangeDone
<1>7. ProgressAdds'
  BY <1>2 DEF IInv, ProgressAdds, Diffs
<1> QED
  BY <1>1, <1>4, <1>5, <1>6, <1>7 DEF IInv

\* What leaves the diffs enters fileProgress.
LEMMA ReportIInv ==
    ASSUME IInv, OperationsApart, NEW w \in Workers, WorkerStep(w), Report(w)
    PROVE  IInv'
<1>1. CallInPhase'
  BY WorkerCallInPhase
<1>2. UNCHANGED << callVars, rangeProgress, remote, result, crashed, wpc, wop >>
  BY DEF Report, batchVars
<1>3. up[w] \in UploadRecord /\ up[w].at = "report" /\ fileProgress \in Int
  BY DEF Report, IInv, UploadTypes
<1>4. up[w].diff \in Int
  BY <1>3 DEF UploadRecord
<1>5. /\ up' \in [Workers -> UploadRecord]
      /\ up'[w].at = "send" /\ up'[w].pos = up[w].pos /\ up'[w].diff = 0
      /\ \A v \in Workers \ {w} : up'[v] = up[v]
  BY <1>3 DEF Report, IInv, UploadTypes, UploadRecord
<1>6. fileProgress' = fileProgress + up[w].diff
  BY DEF Report
<1>7. UploadTypes'
  BY <1>2, <1>3, <1>4, <1>5, <1>6 DEF IInv, UploadTypes, callVars
<1>8. UploadInStep'
  BY <1>2, <1>3, <1>5 DEF IInv, UploadInStep
<1>9. RangeDone'
  BY <1>2 DEF IInv, RangeDone
<1>10. ProgressAdds'
  <2>1. SumOf(Diffs) \in Int /\ SumOf(Diffs)' = SumOf(Diffs) + 0 - up[w].diff
    BY <1>5, <1>7, DiffsChange DEF IInv
  <2> QED
    BY <1>2, <1>3, <1>4, <1>6, <2>1, RangeSum DEF IInv, ProgressAdds
<1> QED
  BY <1>1, <1>7, <1>8, <1>9, <1>10 DEF IInv

\* A try that is over has stored its range whole, or nothing: every try starts at 0.
LEMMA TryEndsIInv ==
    ASSUME IInv, OperationsApart, OperationsApart', NEW w \in Workers, WorkerStep(w),
           NEW out \in {"ok", "err", "retry"}, TryEnds(w, out)
    PROVE  IInv'
<1> DEFINE i == wop[w]
<1>1. CallInPhase'
  BY WorkerCallInPhase
<1>2. UNCHANGED << callVars, rangeProgress, fileProgress, wop >>
  BY DEF TryEnds, Batch!EndOperation, progressVars, batchVars
<1>3. up[w] \in UploadRecord /\ up[w].at = "send" /\ up[w].diff = 0 /\ up[w].from = 0 /\ up[w].pos \in Nat
  BY DEF TryEnds, IInv, UploadTypes, UploadRecord, UploadInStep
<1>4. i \in Batch!Chunks /\ wpc[w] = "running" /\ result[i] = "none"
  BY <1>3, WorkerMoves DEF IInv, UploadInStep, OperationsApart
<1>5. up[w].pos = Batch!Length(i) => Stored(w) = Batch!Bytes(i)
  <2> SUFFICES ASSUME up[w].pos = Batch!Length(i) PROVE Stored(w) = Batch!Bytes(i)
    OBVIOUS
  <2>1. /\ Batch!Offset(i) \in Nat /\ Batch!Length(i) \in Nat
        /\ Batch!Bytes(i) = Batch!Offset(i) .. (Batch!Offset(i) + Batch!Length(i) - 1)
    BY <1>4, Ranges
  <2>2. Stored(w) = {Batch!Offset(i) + k : k \in 0 .. (Batch!Length(i) - 1)}
    BY <1>3 DEF Stored
  <2>3. ASSUME NEW b \in Batch!Bytes(i) PROVE b \in Stored(w)
    <3>1. b - Batch!Offset(i) \in 0 .. (Batch!Length(i) - 1) /\ b = Batch!Offset(i) + (b - Batch!Offset(i))
      BY <2>1
    <3> QED
      BY <2>2, <3>1
  <2>4. ASSUME NEW b \in Stored(w) PROVE b \in Batch!Bytes(i)
    BY <2>1, <2>2
  <2> QED
    BY <2>3, <2>4
<1>6. /\ remote \subseteq remote' /\ remote' \subseteq remote \cup Batch!Bytes(i)
      /\ out = "ok" => Batch!Bytes(i) \subseteq remote' /\ up[w].pos = Batch!Length(i)
  BY <1>5 DEF TryEnds
<1>7. remote' \in SUBSET (0 .. (TransferSize - 1))
  BY <1>4, <1>6, Ranges DEF IInv, UploadTypes
<1>8. /\ up' \in [Workers -> UploadRecord]
      /\ up'[w].diff = 0
      /\ out = "retry" => up'[w].at = "retry" /\ up'[w].pos = up[w].pos
      /\ out # "retry" => up'[w].at = "idle"
      /\ \A v \in Workers \ {w} : up'[v] = up[v]
  <2>1. CASE out = "retry"
    BY <1>3, <2>1 DEF TryEnds, IInv, UploadTypes, UploadRecord
  <2>2. CASE out # "retry"
    <3>1. IdleUpload \in UploadRecord /\ IdleUpload.at = "idle" /\ IdleUpload.diff = 0
      BY DEF IdleUpload, UploadRecord
    <3>2. up' = [up EXCEPT ![w] = IdleUpload]
      BY <2>2 DEF TryEnds
    <3> QED
      BY <2>2, <3>1, <3>2 DEF IInv, UploadTypes
  <2> QED
    BY <2>1, <2>2
<1>9. /\ out = "retry" => wpc' = wpc /\ result' = result
      /\ out # "retry" => /\ wpc'[w] = "sending"
                          /\ result'[i] = out
      /\ \A v \in Workers \ {w} : wpc'[v] = wpc[v]
      /\ \A j \in Batch!Chunks \ {i} : result'[j] = result[j]
  BY <1>4 DEF TryEnds, Batch!EndOperation, batchVars, OperationsApart
<1> HIDE DEF i
<1>10. UploadTypes'
  BY <1>2, <1>7, <1>8 DEF IInv, UploadTypes, callVars
<1>11. UploadInStep'
  <2>1. CASE out = "retry"
    BY <1>2, <1>3, <1>4, <1>8, <1>9, <2>1 DEF IInv, UploadInStep
  <2>2. CASE out # "retry"
    BY <1>2, <1>8, <1>9, <2>2 DEF IInv, UploadInStep
  <2> QED
    BY <2>1, <2>2
<1>12. RangeDone'
  <2>1. out = "ok" => rangeProgress[i] = Batch!Length(i)
    <3>1. Batch!Length(i) > 0
      BY <1>4, Ranges
    <3> QED
      BY <1>3, <1>6, <3>1 DEF IInv, UploadInStep, i
  <2>2. ASSUME NEW j \in Batch!Chunks, result'[j] = "ok"
        PROVE  Batch!Bytes(j) \subseteq remote' /\ rangeProgress'[j] = Batch!Length(j)
    <3>1. CASE j = i
      BY <1>2, <1>4, <1>6, <1>9, <2>1, <2>2, <3>1
    <3>2. CASE j # i
      BY <1>2, <1>6, <1>9, <2>2, <3>2 DEF IInv, RangeDone
    <3> QED
      BY <3>1, <3>2
  <2> QED
    BY <2>2 DEF RangeDone
<1>13. ProgressAdds'
  BY <1>2, <1>3, <1>8, <1>10, ProgressUntouched DEF progressVars
<1> QED
  BY <1>1, <1>10, <1>11, <1>12, <1>13 DEF IInv

\* A worker sends its response, or finds operationChannel closed and ends.
LEMMA LoopIInv ==
    ASSUME IInv, OperationsApart, NEW w \in Workers, WorkerStep(w), Loop(w)
    PROVE  IInv'
<1>1. CallInPhase'
  BY WorkerCallInPhase
<1>2. UNCHANGED << callVars, up, rangeProgress, fileProgress, remote, result >>
  BY DEF Loop, Batch!SendResponse, Batch!ExitWorker, progressVars
<1>3. /\ wpc[w] # "running" /\ wpc'[w] # "running"
      /\ \A v \in Workers \ {w} : wpc'[v] = wpc[v] /\ wop'[v] = wop[v]
  BY DEF Loop, Batch!SendResponse, Batch!ExitWorker, OperationsApart
<1>4. UploadTypes' /\ RangeDone'
  BY <1>2 DEF IInv, UploadTypes, callVars, RangeDone
<1>5. UploadInStep'
  <2>1. up[w].at = "idle" /\ up'[w] = up[w]
    BY <1>2, <1>3 DEF IInv, UploadInStep
  <2> QED
    BY <1>2, <1>3, <2>1 DEF IInv, UploadInStep
<1>6. ProgressAdds'
  BY <1>2 DEF IInv, ProgressAdds, Diffs
<1> QED
  BY <1>1, <1>4, <1>5, <1>6 DEF IInv

\* The invariant is inductive, given what is proved of the batch.
LEMMA NextIInv ==
    ASSUME IInv, OperationsApart, OperationsApart', [Next]_vars
    PROVE  IInv'
<1>1. CASE UNCHANGED vars
  <2>1. UNCHANGED << batchVars, callVars, up, progressVars, remote >>
    BY <1>1 DEF vars
  <2>2. UploadTypes' /\ CallInPhase'
    BY <2>1 DEF IInv, UploadTypes, CallInPhase, Untouched, callVars, progressVars, batchVars
  <2>3. UploadInStep' /\ RangeDone' /\ ProgressAdds'
    BY <2>1 DEF IInv, UploadInStep, RangeDone, ProgressAdds, Diffs, progressVars, batchVars
  <2> QED
    BY <2>2, <2>3 DEF IInv
<1>2. CASE CallerStep
  BY <1>2, CallIInv, BatchCallerIInv DEF CallerStep
<1>3. ASSUME NEW w \in Workers, WorkerStep(w) PROVE IInv'
  BY <1>3, StartIInv, BeginTryIInv, ReadBodyIInv, ReadUnmappedIInv, ReportIInv, TryEndsIInv, LoopIInv
     DEF WorkerStep, Upload
<1> QED
  BY <1>1, <1>2, <1>3 DEF Next, Terminated

-----------------------------------------------------------------------------
(* The theorems. *)

\* Every step of the upload is a step of doBatchTransfer, or leaves it alone: the
\* tries, the progress and the mapping add no behaviour to the batch.
THEOREM UploadRefinesBatch == Spec => Batch!Init /\ [][Batch!Next]_batchVars
<1>1. Init => Batch!Init
  BY DEF Init
<1>2. [Next]_vars => [Batch!Next]_batchVars
  <2> SUFFICES ASSUME Next, ~ UNCHANGED batchVars PROVE Batch!Next
    BY DEF vars
  <2>1. CASE CallerStep
    BY <2>1 DEF CallerStep, MapFile, CreateFails, Create, BatchCallerStep, ReturnFromBatch, Batch!Next
  <2>2. ASSUME NEW w \in Workers, WorkerStep(w) PROVE Batch!WorkerStep(w)
    <3>1. ~crashed
      BY <2>2 DEF WorkerStep
    <3>2. \A out \in {"ok", "err", "panic"} : Batch!EndOperation(w, out) => Batch!EndSomehow(w)
      BY DEF Batch!EndSomehow
    <3>3. ReadUnmapped(w) => Batch!EndSomehow(w)
      BY <3>2 DEF ReadUnmapped
    <3>4. \A out \in {"ok", "err", "retry"} : TryEnds(w, out) => UNCHANGED batchVars \/ Batch!EndSomehow(w)
      BY <3>2 DEF TryEnds
    <3> QED
      BY <2>2, <3>1, <3>3, <3>4
         DEF WorkerStep, Upload, Loop, Start, BeginTry, ReadBody, Report, Batch!WorkerStep
  <2>3. CASE Terminated
    BY <2>3 DEF Terminated, vars
  <2> QED
    BY <2>1, <2>2, <2>3 DEF Next, Batch!Next
<1> QED
  BY <1>1, <1>2, PTL DEF Spec

\* In every state of an upload, running operations hold different ranges.
LEMMA UploadOperationsApart == Spec => []OperationsApart
<1>1. BP!Init => BP!IInv
  BY BatchAssumptions, BP!InitIInv
<1>2. BP!IInv /\ [BP!Next]_BP!vars => BP!IInv'
  BY BatchAssumptions, BP!StepIInv
<1> QED
  BY <1>1, <1>2, UploadRefinesBatch, SameInit, SameNext, BatchOperationsApart, PTL

\* The inductive invariant: what the call, the uploads and the progress have to do
\* with each other in every state.
THEOREM UploadInvariant == Spec => [](IInv /\ OperationsApart)
<1>1. IInv /\ OperationsApart /\ OperationsApart' /\ [Next]_vars => IInv'
  BY NextIInv
<1> QED
  BY <1>1, InitIInv, UploadOperationsApart, PTL DEF Spec

\* What a nil return says of the call, the ranges and the uploads.
LEMMA AtNil ==
    ASSUME IInv, OperationsApart, verdict = "nil"
    PROVE  /\ \A w \in Workers : up[w].at = "idle" /\ up[w].diff = 0
           /\ \/ size = 0
              \/ size = TransferSize /\ \A i \in Batch!Chunks : result[i] = "ok"
<1>1. phase = "returned"
  BY DEF IInv, UploadTypes, CallInPhase
<1>2. CASE ret = "none"
  <2>1. \A w \in Workers : wpc[w] # "running"
    BY <1>1, <1>2 DEF IInv, CallInPhase, Untouched
  <2> QED
    BY <1>1, <1>2, <2>1 DEF IInv, CallInPhase, UploadInStep
<1>3. CASE ret # "none"
  <2>1. ret = "nil" /\ \A w \in Workers : wpc[w] # "running"
    BY <1>1, <1>3 DEF IInv, CallInPhase, OperationsApart
  <2> QED
    BY <1>1, <2>1 DEF IInv, UploadTypes, UploadInStep, OperationsApart
<1> QED
  BY <1>2, <1>3

\* A nil return means that the Azure file holds every byte of the local file, for
\* every file size, range size, number of workers and number of tries.
THEOREM NilMeansUploadedHolds == Spec => []NilMeansUploaded
<1>1. ASSUME IInv, OperationsApart PROVE NilMeansUploaded
  <2> SUFFICES ASSUME verdict = "nil" PROVE remote = 0 .. (size - 1)
    BY DEF NilMeansUploaded
  <2>1. CASE size = 0
    BY <1>1, <2>1 DEF IInv, CallInPhase
  <2>2. CASE size = TransferSize /\ \A i \in Batch!Chunks : result[i] = "ok"
    <3>1. \A i \in Batch!Chunks : Batch!Bytes(i) \subseteq remote
      BY <1>1, <2>2 DEF IInv, RangeDone
    <3>2. 0 .. (TransferSize - 1) \subseteq remote
      BY <3>1, Ranges
    <3> QED
      BY <1>1, <2>2, <3>2 DEF IInv, UploadTypes
  <2> QED
    BY <1>1, <2>1, <2>2, AtNil
<1> QED
  BY <1>1, UploadInvariant, PTL

\* The lengths of the ranges add up to the size of the file: each is ChunkSize but
\* the last, which is what the others leave.
LEMMA LengthsAdd == SumOf([i \in Batch!Chunks |-> Batch!Length(i)]) = TransferSize
<1> DEFINE last == Batch!NumChunks - 1
           full == [i \in Batch!Chunks |-> ChunkSize]
           cut  == [i \in Batch!Chunks |-> Batch!Length(i)]
<1>1. ChunkSize \in Nat /\ TransferSize \in Nat /\ Batch!NumChunks \in Nat \ {0}
  BY SizeAssumption, Ranges
<1>2. IsFiniteSet(Batch!Chunks) /\ Cardinality(Batch!Chunks) = Batch!NumChunks
  BY Ranges
<1>3. full \in [Batch!Chunks -> Int] /\ \A i \in Batch!Chunks : full[i] = ChunkSize
  BY <1>1
<1>4. cut \in [Batch!Chunks -> Int]
  BY Ranges
<1>5. /\ last \in Batch!Chunks /\ cut[last] = TransferSize - last * ChunkSize
      /\ \A i \in Batch!Chunks \ {last} : cut[i] = full[i]
  BY <1>1 DEF Batch!Length, Batch!Chunks
<1> HIDE DEF last, full, cut
<1>6. SumOf(full) = ChunkSize * Batch!NumChunks
  BY <1>1, <1>2, <1>3, SumConstant
<1>7. SumOf(cut) = SumOf(full) + cut[last] - full[last]
  BY <1>2, <1>3, <1>4, <1>5, SumChange
<1>8. ChunkSize * Batch!NumChunks = last * ChunkSize + ChunkSize /\ last * ChunkSize \in Int
  BY <1>1 DEF last
<1>9. SumOf(cut) = TransferSize
  BY <1>1, <1>3, <1>5, <1>6, <1>7, <1>8
<1> QED
  BY <1>9 DEF cut

\* The progress reported is the sum of the positions the ranges have reported, but
\* for the changes still waiting for progressLock, and at a nil return it is the size.
THEOREM ProgressExactHolds == Spec => []ProgressExact
<1>1. ASSUME IInv, OperationsApart PROVE ProgressExact
  <2>1. fileProgress = SumOf(rangeProgress) - SumOf([w \in Workers |-> up[w].diff])
    BY <1>1 DEF IInv, ProgressAdds, Diffs
  <2>2. ASSUME verdict = "nil" PROVE fileProgress = size
    <3>1. CASE size = 0
      BY <1>1, <3>1 DEF IInv, CallInPhase
    <3>2. CASE size = TransferSize /\ \A i \in Batch!Chunks : result[i] = "ok"
      <4>1. rangeProgress = [i \in Batch!Chunks |-> Batch!Length(i)]
        BY <1>1, <3>2 DEF IInv, RangeDone, UploadTypes
      <4>2. SumOf(rangeProgress) = TransferSize
        BY <4>1, LengthsAdd
      <4>3. Diffs \in [Workers -> Int] /\ \A w \in Workers : Diffs[w] = 0
        BY <1>1, <2>2, AtNil DEF Diffs
      <4>4. SumOf(Diffs) = 0 * Cardinality(Workers)
        BY <4>3, WorkersAssumption, SumConstant
      <4>5. Cardinality(Workers) \in Nat
        BY WorkersAssumption, FS_CardinalityType
      <4>6. SumOf(Diffs) = 0
        BY <4>4, <4>5
      <4> QED
        BY <1>1, <3>2, <4>2, <4>6, SizeAssumption DEF IInv, ProgressAdds
    <3> QED
      BY <1>1, <2>2, <3>1, <3>2, AtNil
  <2> QED
    BY <2>1, <2>2 DEF ProgressExact
<1> QED
  BY <1>1, UploadInvariant, PTL

\* Unless the call fails, no upload reads the file's mapping after it is gone.
THEOREM MappingOutlivesUploadsHolds == Spec => []MappingOutlivesUploads
<1>1. ASSUME IInv, OperationsApart PROVE MappingOutlivesUploads
  BY <1>1, AtNil DEF MappingOutlivesUploads, IInv, CallInPhase, UploadTypes
<1> QED
  BY <1>1, UploadInvariant, PTL
=============================================================================
