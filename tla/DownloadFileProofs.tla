------------------------- MODULE DownloadFileProofs -------------------------
(***************************************************************************)
(* Proofs about DownloadFile, for every file size, range size, number of    *)
(* workers and length of the caller's buffer or local file.                 *)
(***************************************************************************)
EXTENDS DownloadFile, FiniteSetTheorems, TLAPS

-----------------------------------------------------------------------------
(* What is proved of doBatchTransfer, for the batch that DownloadFile runs. *)

BP == INSTANCE BatchTransferProofs WITH Outcomes <- {"ok", "err", "panic"}

\* The assumptions of BatchTransfer are met.
LEMMA BatchAssumptions == BP!SizeAssumption /\ BP!WorkersAssumption /\ BP!OutcomesAssumption
<1>1. BP!SizeAssumption
  BY SizeAssumption
<1>2. BP!WorkersAssumption
  BY WorkersAssumption DEF BP!IsFiniteSet, IsFiniteSet
<1>3. BP!OutcomesAssumption
  BY DEF BP!OpOutcomes
<1> QED
  BY <1>1, <1>2, <1>3

\* The sums of BatchTransferProofs are those of Sums.
LEMMA SameSums == ASSUME NEW f PROVE SumOf(f) = BP!SumOf(f)
BY DEF SumOf, BP!SumOf, MapThenSumSet, BP!MapThenSumSet, MapThenFoldSet, BP!MapThenFoldSet

\* If one summand changes, the sum changes by as much.
LEMMA SumChange ==
    ASSUME NEW D, IsFiniteSet(D), NEW f \in [D -> Int], NEW g \in [D -> Int],
           NEW x \in D, \A y \in D \ {x} : g[y] = f[y]
    PROVE  SumOf(f) \in Int /\ SumOf(g) = SumOf(f) + g[x] - f[x]
<1>1. BP!IsFiniteSet(D)
  BY DEF BP!IsFiniteSet, IsFiniteSet
<1>2. BP!SumOf(f) \in Int /\ BP!SumOf(g) = BP!SumOf(f) + g[x] - f[x]
  BY <1>1, BatchAssumptions, BP!SumChange
<1> QED
  BY <1>2, SameSums

\* The sum of equal summands.
LEMMA SumConstant ==
    ASSUME NEW D, IsFiniteSet(D), NEW c \in Int, NEW f \in [D -> Int], \A x \in D : f[x] = c
    PROVE  SumOf(f) = c * Cardinality(D)
<1>1. BP!IsFiniteSet(D) /\ BP!Cardinality(D) = Cardinality(D)
  BY DEF BP!IsFiniteSet, IsFiniteSet, BP!Cardinality, Cardinality
<1>2. BP!SumOf(f) = c * BP!Cardinality(D)
  BY <1>1, BatchAssumptions, BP!SumConstant
<1> QED
  BY <1>1, <1>2, SameSums

\* Batch and BP are instances of one module.
LEMMA SameChunks ==
    /\ Batch!NumChunks = BP!NumChunks
    /\ Batch!Chunks = BP!Chunks
    /\ \A i : Batch!Offset(i) = BP!Offset(i) /\ Batch!Length(i) = BP!Length(i)
    /\ \A i : Batch!Bytes(i) = BP!Bytes(i)
BY DEF Batch!NumChunks, BP!NumChunks, Batch!Chunks, BP!Chunks, Batch!Offset, BP!Offset,
       Batch!Length, BP!Length, Batch!Bytes, BP!Bytes

\* The download's instance of doBatchTransfer starts as the proofs' instance does.
LEMMA SameInit == Batch!Init => BP!Init
BY SameChunks DEF Batch!Init, BP!Init, Batch!NoChunk, BP!NoChunk

\* Both instances of doBatchTransfer have the same steps.
LEMMA SameNext == [Batch!Next]_batchVars => [BP!Next]_BP!vars
<1> USE SameChunks DEF Batch!NoChunk, BP!NoChunk, Batch!callerVars, BP!callerVars,
                       Batch!workerVars, BP!workerVars
<1>1. Batch!CallerStep => BP!CallerStep
  BY DEF Batch!CallerStep, BP!CallerStep, Batch!Produce, BP!Produce, Batch!CloseOperationChannel,
         BP!CloseOperationChannel, Batch!ReceiveResponse, BP!ReceiveResponse, Batch!ReturnNil,
         BP!ReturnNil, Batch!OperationCapacity, BP!OperationCapacity, Batch!Cardinality,
         BP!Cardinality, Batch!IsFiniteSet, BP!IsFiniteSet
<1>2. \A w \in Workers : Batch!WorkerStep(w) => BP!WorkerStep(w)
  BY DEF Batch!WorkerStep, BP!WorkerStep, Batch!TakeOperation, BP!TakeOperation,
         Batch!EndSomehow, BP!EndSomehow, Batch!EndOperation, BP!EndOperation,
         Batch!SendResponse, BP!SendResponse, Batch!ResponseCapacity, BP!ResponseCapacity,
         Batch!ExitWorker, BP!ExitWorker
<1>3. Batch!Terminated => UNCHANGED BP!vars
  BY DEF Batch!Terminated, Batch!vars, BP!vars
<1>4. UNCHANGED batchVars => UNCHANGED BP!vars
  BY DEF batchVars, BP!vars
<1> QED
  BY <1>1, <1>2, <1>3, <1>4 DEF Batch!Next, BP!Next

\* BatchTransferProofs' OperationsApart, of Batch.
OperationsApart ==
    /\ wpc \in [Workers -> {"range", "running", "sending", "exited"}]
    /\ wop \in [Workers -> Batch!Chunks \cup {-1}]
    /\ result \in [Batch!Chunks -> {"ok", "err", "panic", "none"}]
    /\ ret \in {"none", "nil", "err"}
    /\ crashed \in BOOLEAN
    /\ \A w \in Workers : wpc[w] = "running" =>
         /\ wop[w] \in Batch!Chunks
         /\ ~crashed => result[wop[w]] = "none"
         /\ \A v \in Workers : wpc[v] = "running" /\ wop[v] = wop[w] => v = w
    /\ ret = "nil" => /\ \A i \in Batch!Chunks : result[i] = "ok"
                      /\ \A w \in Workers : wpc[w] # "running"

\* What BatchTransferProofs shows of running operations, for the download's instance.
LEMMA BatchOperationsApart == BP!IInv => OperationsApart
<1> SUFFICES ASSUME BP!IInv PROVE OperationsApart
  OBVIOUS
<1>1. BP!OperationsApart
  BY BatchAssumptions, BP!IInvOperationsApart
<1> QED
  BY <1>1, SameChunks
     DEF OperationsApart, BP!OperationsApart, BP!TypeOK, BP!OpOutcomes, BP!NoChunk

-----------------------------------------------------------------------------
(* The inductive invariant. *)

DownloadRecord == [at : {"idle", "get", "read", "report"}, got : Nat, avail : Nat, diff : Int]

DownloadTypes ==
    /\ target \in {"file", "buffer"}
    /\ phase \in {"properties", "resize", "map", "check", "transfer", "returned"}
    /\ size \in {0, TransferSize}
    /\ remoteSize \in Nat
    /\ verdict \in {"none", "nil", "err", "panic"}
    /\ down \in [Workers -> DownloadRecord]
    /\ rangeProgress \in [Batch!Chunks -> Nat]
    /\ fileProgress \in Int
    /\ local \in SUBSET (0 .. (TransferSize - 1))

\* doBatchTransfer has not been called.
Untouched ==
    /\ operationChannel = << >> /\ ~operationChannelClosed
    /\ ret = "none"
    /\ \A w \in Workers : wpc[w] = "range"

\* How far the call is, and what that says of the batch, the file and the verdict.
CallInPhase ==
    /\ phase \in {"properties", "resize", "map", "check"} => Untouched /\ verdict = "none"
    /\ phase \in {"map", "check", "transfer"} /\ target = "file" => length = size
    /\ phase = "transfer" => size = TransferSize /\ verdict = "none"
    /\ phase = "returned" => verdict # "none" /\ (verdict = "nil" /\ target = "file" => length = size)
    /\ phase = "returned" /\ ret = "none" => Untouched /\ (verdict = "nil" => size = 0)
    /\ phase = "returned" /\ ret # "none" => verdict = ret
    /\ size = 0 => Untouched /\ local = {} /\ fileProgress = 0

\* The download a worker runs: what of its range is filled, and what it has reported.
DownloadInStep ==
    \A w \in Workers :
        /\ down[w].at = "idle" <=> wpc[w] # "running"
        /\ down[w].at # "report" => down[w].diff = 0
        /\ down[w].at = "get" => down[w].got = 0
        /\ down[w].at \in {"read", "report"} => down[w].avail <= Batch!Length(wop[w])
        /\ down[w].at # "idle" =>
             /\ down[w].got > 0 => rangeProgress[wop[w]] = down[w].got
             /\ \A k \in 0 .. (down[w].got - 1) : Batch!Offset(wop[w]) + k \in local

\* A range whose operation returned nil is filled, and reported to its end.
RangeDone ==
    \A i \in Batch!Chunks : result[i] = "ok" =>
        Batch!Bytes(i) \subseteq local /\ rangeProgress[i] = Batch!Length(i)

Diffs == [w \in Workers |-> down[w].diff]

\* The first part of ProgressExact.
ProgressAdds == fileProgress = SumOf(rangeProgress) - SumOf(Diffs)

IInv == DownloadTypes /\ CallInPhase /\ DownloadInStep /\ RangeDone /\ ProgressAdds

\* How the ranges divide the file (BatchTransferProofs' ChunkBounds and ChunksPartition).
LEMMA Ranges ==
    /\ Batch!NumChunks \in Nat \ {0}
    /\ IsFiniteSet(Batch!Chunks) /\ Cardinality(Batch!Chunks) = Batch!NumChunks
    /\ \A i \in Batch!Chunks :
         /\ Batch!Offset(i) \in Nat /\ Batch!Length(i) \in 1 .. ChunkSize
         /\ Batch!Bytes(i) = Batch!Offset(i) .. (Batch!Offset(i) + Batch!Length(i) - 1)
         /\ Batch!Bytes(i) \subseteq 0 .. (TransferSize - 1)
    /\ \A b \in 0 .. (TransferSize - 1) : \E i \in Batch!Chunks : b \in Batch!Bytes(i)
<1>1. Batch!NumChunks \in Nat \ {0}
  BY SameChunks, BatchAssumptions, BP!NumChunksBounds
<1>2. IsFiniteSet(Batch!Chunks) /\ Cardinality(Batch!Chunks) = Batch!NumChunks
  BY <1>1, FS_Interval DEF Batch!Chunks
<1>3. \A i \in Batch!Chunks : Batch!Offset(i) \in Nat /\ Batch!Length(i) \in 1 .. ChunkSize
  BY SameChunks, BatchAssumptions, BP!ChunkBounds
<1>4. /\ \A i \in Batch!Chunks : Batch!Bytes(i) \subseteq 0 .. (TransferSize - 1)
      /\ \A b \in 0 .. (TransferSize - 1) : \E i \in Batch!Chunks : b \in Batch!Bytes(i)
  BY SameChunks, BatchAssumptions, BP!ChunksPartition
<1> QED
  BY <1>1, <1>2, <1>3, <1>4 DEF Batch!Bytes

\* Nothing is downloaded yet, and nothing reported.
LEMMA InitIInv == Init => IInv
<1> SUFFICES ASSUME Init PROVE IInv
  OBVIOUS
<1> USE DEF Init, IdleDownload, Batch!Init
<1>1. DownloadTypes
  <2>1. down \in [Workers -> DownloadRecord]
    BY DEF DownloadRecord
  <2>2. rangeProgress \in [Batch!Chunks -> Nat] /\ local \in SUBSET (0 .. (TransferSize - 1))
    OBVIOUS
  <2>3. target \in {"file", "buffer"} /\ phase = "properties" /\ verdict = "none" /\ fileProgress = 0
    OBVIOUS
  <2>4. size \in {0, TransferSize} /\ remoteSize \in Nat
    BY SizeAssumption
  <2> HIDE DEF Init, Batch!Init
  <2> QED
    BY <2>1, <2>2, <2>3, <2>4 DEF DownloadTypes
<1>2. CallInPhase /\ RangeDone
  BY DEF CallInPhase, Untouched, RangeDone
<1>3. DownloadInStep
  BY DEF DownloadInStep
<1>4. SumOf(rangeProgress) = 0
  <2>1. rangeProgress \in [Batch!Chunks -> Int] /\ \A i \in Batch!Chunks : rangeProgress[i] = 0
    OBVIOUS
  <2> HIDE DEF Init, Batch!Init
  <2>2. SumOf(rangeProgress) = 0 * Cardinality(Batch!Chunks)
    <3>1. IsFiniteSet(Batch!Chunks)
      BY Ranges
    <3> QED
      BY <2>1, <3>1, SumConstant
  <2> QED
    BY <2>2, Ranges
<1>5. SumOf(Diffs) = 0
  <2>1. Diffs \in [Workers -> Int] /\ \A w \in Workers : Diffs[w] = 0
    BY DEF Diffs
  <2>2. Cardinality(Workers) \in Nat
    BY WorkersAssumption, FS_CardinalityType
  <2> QED
    BY <2>1, <2>2, WorkersAssumption, SumConstant
<1>6. ProgressAdds
  BY <1>4, <1>5 DEF ProgressAdds
<1> QED
  BY <1>1, <1>2, <1>3, <1>6 DEF IInv

\* The steps of the calling goroutine that are not doBatchTransfer's.
LEMMA CallIInv ==
    ASSUME IInv, OperationsApart,
           PrepareFails \/ GetProperties \/ Resize \/ MapFile \/ Check \/ ReturnFromBatch
    PROVE  IInv'
<1>1. UNCHANGED << batchVars, target, size, downVars, remoteSize >>
  BY DEF PrepareFails, GetProperties, Resize, MapFile, Check, ReturnFromBatch
<1> USE <1>1 DEF batchVars, downVars
<1>2. DownloadTypes'
  BY DEF IInv, DownloadTypes, OperationsApart, PrepareFails, GetProperties, Resize, MapFile, Check,
         ReturnFromBatch, Return
<1>3. CallInPhase'
  <2>1. Untouched' <=> Untouched
    BY DEF Untouched
  <2> USE <2>1, SizeAssumption DEF IInv, DownloadTypes, CallInPhase
  <2>2. CASE PrepareFails
    BY <2>2 DEF PrepareFails, Return, Untouched
  <2>3. CASE GetProperties
    BY <2>3 DEF GetProperties
  <2>4. CASE Resize
    BY <2>4 DEF Resize
  <2>5. CASE MapFile
    BY <2>5 DEF MapFile
  <2>6. CASE Check
    BY <2>6 DEF Check, Return, Untouched
  <2>7. CASE ReturnFromBatch
    BY <2>7 DEF ReturnFromBatch, Return
  <2> QED
    BY <2>2, <2>3, <2>4, <2>5, <2>6, <2>7
<1>4. DownloadInStep' /\ RangeDone'
  BY DEF IInv, DownloadInStep, RangeDone
<1>5. ProgressAdds'
  BY DEF IInv, ProgressAdds, Diffs
<1> QED
  BY <1>2, <1>3, <1>4, <1>5 DEF IInv

\* doBatchTransfer's steps of the calling goroutine touch no download, nor does
\* another client.
LEMMA BatchCallerIInv == ASSUME IInv, OperationsApart, BatchCallerStep \/ Shrink PROVE IInv'
<1>1. UNCHANGED << callVars, downVars, wpc, wop, result, crashed >>
  BY DEF BatchCallerStep, Batch!CallerStep, Batch!Produce, Batch!CloseOperationChannel,
         Batch!ReceiveResponse, Batch!ReturnNil, Batch!workerVars, Shrink, batchVars
<1> USE <1>1 DEF callVars, downVars
<1>3. DownloadTypes'
  <2>1. remoteSize' \in Nat
    <3>1. CASE BatchCallerStep
      BY <3>1 DEF BatchCallerStep, IInv, DownloadTypes
    <3>2. CASE Shrink
      BY <3>2, SizeAssumption DEF Shrink, IInv, DownloadTypes
    <3> QED
      BY <3>1, <3>2
  <2> QED
    BY <2>1 DEF IInv, DownloadTypes
<1>4. CallInPhase'
  <2>1. CASE BatchCallerStep
    BY <2>1, SizeAssumption DEF BatchCallerStep, IInv, DownloadTypes, CallInPhase
  <2>2. CASE Shrink
    BY <2>2 DEF Shrink, batchVars, IInv, CallInPhase, Untouched
  <2> QED
    BY <2>1, <2>2
<1>5. DownloadInStep' /\ RangeDone'
  BY DEF IInv, DownloadInStep, RangeDone
<1>6. ProgressAdds'
  BY DEF IInv, ProgressAdds, Diffs
<1> QED
  BY <1>3, <1>4, <1>5, <1>6 DEF IInv

\* A worker moves only between the call of doBatchTransfer and its own end.
LEMMA WorkerMoves ==
    ASSUME IInv, OperationsApart, NEW w \in Workers, WorkerStep(w)
    PROVE  /\ phase \in {"transfer", "returned"} /\ size = TransferSize
           /\ phase = "returned" => ret # "none"
           /\ ~crashed
<1>1. ~Untouched
  <2> SUFFICES ASSUME Untouched PROVE FALSE
    OBVIOUS
  <2>1. wpc[w] = "range" /\ down[w].at = "idle" /\ operationChannel = << >> /\ ~operationChannelClosed
    BY DEF Untouched, IInv, DownloadInStep
  <2> QED
    BY <2>1 DEF WorkerStep, Operation, Loop, Start, Batch!TakeOperation, Download, DownloadFails,
                ReadBody, ReadUnmapped, Report, ReadFullEnds, Batch!SendResponse, Batch!ExitWorker
<1> QED
  BY <1>1 DEF IInv, CallInPhase, DownloadTypes, WorkerStep

\* No step of a worker changes how far the call is.
LEMMA WorkerCallInPhase ==
    ASSUME IInv, OperationsApart, NEW w \in Workers, WorkerStep(w)
    PROVE  CallInPhase'
<1>1. UNCHANGED << callVars, ret >>
  BY DEF WorkerStep, Operation, Loop, Start, Batch!TakeOperation, Download, DownloadFails, batchVars,
         ReadBody, ReadUnmapped, Report, ReadFullEnds, Batch!EndOperation, Batch!SendResponse,
         Batch!ExitWorker, Batch!callerVars
<1> QED
  BY <1>1, WorkerMoves, SizeAssumption DEF IInv, CallInPhase, DownloadTypes, callVars

\* A step of worker w's download adds the change of its diff to the sum of the diffs.
LEMMA DiffsChange ==
    ASSUME DownloadTypes, DownloadTypes', NEW w \in Workers,
           \A v \in Workers \ {w} : down'[v] = down[v]
    PROVE  /\ SumOf(Diffs) \in Int
           /\ SumOf(Diffs)' = SumOf(Diffs) + down'[w].diff - down[w].diff
<1>1. Diffs \in [Workers -> Int] /\ Diffs' \in [Workers -> Int]
  BY DEF Diffs, DownloadTypes, DownloadRecord
<1>2. \A v \in Workers : Diffs[v] = down[v].diff /\ Diffs'[v] = down'[v].diff
  BY DEF Diffs
<1>3. \A v \in Workers \ {w} : Diffs'[v] = Diffs[v]
  BY <1>2
<1>4. SumOf(Diffs) \in Int /\ SumOf(Diffs') = SumOf(Diffs) + Diffs'[w] - Diffs[w]
  BY <1>1, <1>3, SumChange, WorkersAssumption
<1> QED
  BY <1>2, <1>4

\* The sum of the rangeProgress variables is a number.
LEMMA RangeSum == DownloadTypes => SumOf(rangeProgress) \in Int
<1> SUFFICES ASSUME DownloadTypes PROVE SumOf(rangeProgress) \in Int
  OBVIOUS
<1>1. rangeProgress \in [Batch!Chunks -> Int] /\ IsFiniteSet(Batch!Chunks) /\ 0 \in Batch!Chunks
  BY Ranges DEF DownloadTypes, Batch!Chunks
<1> HIDE DEF Batch!Chunks
<1> QED
  BY <1>1, SumChange

\* A step of worker w that reports nothing and leaves its diff alone.
LEMMA ProgressUntouched ==
    ASSUME IInv, DownloadTypes', NEW w \in Workers, UNCHANGED << rangeProgress, fileProgress >>,
           \A v \in Workers \ {w} : down'[v] = down[v], down'[w].diff = down[w].diff
    PROVE  ProgressAdds'
<1>1. SumOf(Diffs) \in Int /\ SumOf(Diffs)' = SumOf(Diffs) + down'[w].diff - down[w].diff
  BY DiffsChange DEF IInv
<1>2. down[w].diff \in Int
  BY DEF IInv, DownloadTypes, DownloadRecord
<1> QED
  BY <1>1, <1>2 DEF IInv, ProgressAdds

-----------------------------------------------------------------------------
(* The steps of a worker. *)

\* A worker takes its next range from operationChannel.
LEMMA StartIInv ==
    ASSUME IInv, OperationsApart, OperationsApart', NEW w \in Workers, WorkerStep(w), Start(w)
    PROVE  IInv'
<1>1. CallInPhase'
  BY WorkerCallInPhase
<1>2. UNCHANGED << callVars, remoteSize, rangeProgress, fileProgress, local, result, crashed >>
  BY DEF Start, Batch!TakeOperation
<1>3. /\ wpc[w] = "range" /\ down[w].at = "idle" /\ down[w].diff = 0
      /\ wpc'[w] = "running" /\ wop'[w] \in Batch!Chunks
      /\ \A v \in Workers \ {w} : wpc'[v] = wpc[v] /\ wop'[v] = wop[v]
  BY DEF Start, Batch!TakeOperation, IInv, DownloadInStep, OperationsApart
<1>4. /\ down' \in [Workers -> DownloadRecord]
      /\ down'[w].at = "get" /\ down'[w].diff = 0 /\ down'[w].got = 0
      /\ \A v \in Workers \ {w} : down'[v] = down[v]
  BY DEF Start, IdleDownload, IInv, DownloadTypes, DownloadRecord
<1>5. DownloadTypes'
  BY <1>2, <1>4 DEF IInv, DownloadTypes, callVars
<1>6. DownloadInStep'
  BY <1>2, <1>3, <1>4 DEF IInv, DownloadInStep
<1>7. RangeDone'
  BY <1>2 DEF IInv, RangeDone
<1>8. ProgressAdds'
  BY <1>2, <1>3, <1>4, <1>5, ProgressUntouched
<1> QED
  BY <1>1, <1>5, <1>6, <1>7, <1>8 DEF IInv

\* fileURL.Download returns, with a stream or with an error.
LEMMA DownloadIInv ==
    ASSUME IInv, OperationsApart, NEW w \in Workers, WorkerStep(w), Download(w)
    PROVE  IInv'
<1>1. CallInPhase'
  BY WorkerCallInPhase
<1>2. UNCHANGED << callVars, remoteSize, rangeProgress, fileProgress, local, result, crashed, wpc, wop >>
  BY DEF Download, batchVars
<1>3. down[w] \in DownloadRecord /\ down[w].at = "get" /\ down[w].got = 0
  BY DEF Download, IInv, DownloadTypes, DownloadInStep
<1>4. /\ Batch!Length(wop[w]) \in Nat
      /\ remoteSize - Batch!Offset(wop[w]) \in Nat
  <2>1. wop[w] \in Batch!Chunks
    BY <1>3 DEF IInv, DownloadInStep, OperationsApart
  <2>2. Batch!Offset(wop[w]) \in Nat /\ Batch!Length(wop[w]) \in 1 .. ChunkSize
    BY <2>1, Ranges
  <2> QED
    BY <2>2, SizeAssumption DEF Download, IInv, DownloadTypes
<1>5. /\ down' \in [Workers -> DownloadRecord]
      /\ down'[w].at = "read" /\ down'[w].diff = down[w].diff /\ down'[w].got = down[w].got
      /\ down'[w].avail <= Batch!Length(wop[w])
      /\ \A v \in Workers \ {w} : down'[v] = down[v]
  BY <1>3, <1>4 DEF Download, IInv, DownloadTypes, DownloadRecord
<1>6. DownloadTypes'
  BY <1>2, <1>5 DEF IInv, DownloadTypes, callVars
<1>7. DownloadInStep'
  BY <1>2, <1>3, <1>5 DEF IInv, DownloadInStep
<1>8. RangeDone'
  BY <1>2 DEF IInv, RangeDone
<1>9. ProgressAdds'
  BY <1>2, <1>5, <1>6, ProgressUntouched
<1> QED
  BY <1>1, <1>6, <1>7, <1>8, <1>9 DEF IInv

\* The process ends: no range is done by it.
LEMMA PanicIInv ==
    ASSUME IInv, OperationsApart, NEW w \in Workers, WorkerStep(w), DownloadFails(w) \/ ReadUnmapped(w)
    PROVE  IInv'
<1>1. CallInPhase'
  BY WorkerCallInPhase
<1>2. UNCHANGED << callVars, remoteSize, down, rangeProgress, fileProgress, local, wpc, wop >>
  BY DEF DownloadFails, ReadUnmapped, Batch!EndOperation, downVars
<1>3. result' = [result EXCEPT ![wop[w]] = "panic"] /\ result \in [Batch!Chunks -> {"ok", "err", "panic", "none"}]
  BY DEF DownloadFails, ReadUnmapped, Batch!EndOperation, OperationsApart
<1>4. DownloadTypes'
  BY <1>2 DEF IInv, DownloadTypes, callVars
<1>5. DownloadInStep'
  BY <1>2 DEF IInv, DownloadInStep
<1>6. RangeDone'
  BY <1>2, <1>3 DEF IInv, RangeDone
<1>7. ProgressAdds'
  BY <1>2 DEF IInv, ProgressAdds, Diffs
<1> QED
  BY <1>1, <1>4, <1>5, <1>6, <1>7 DEF IInv

\* A Read stores n bytes: the range's progress and the diff grow together.
LEMMA ReadBodyIInv ==
    ASSUME IInv, OperationsApart, NEW w \in Workers, WorkerStep(w),
           NEW n \in 1 .. ChunkSize, ReadBody(w, n)
    PROVE  IInv'
<1> DEFINE i == wop[w]
           p == down[w].got + n
<1>1. CallInPhase'
  BY WorkerCallInPhase
<1>2. UNCHANGED << callVars, remoteSize, fileProgress, result, crashed, wpc, wop >>
  BY DEF ReadBody, batchVars
<1>3. down[w] \in DownloadRecord /\ down[w].at = "read" /\ down[w].diff = 0
  BY DEF ReadBody, IInv, DownloadTypes, DownloadInStep
<1>4. i \in Batch!Chunks /\ wpc[w] = "running" /\ result[i] = "none"
  BY <1>3, WorkerMoves DEF IInv, DownloadInStep, OperationsApart
<1>5. rangeProgress \in [Batch!Chunks -> Nat] /\ rangeProgress[i] \in Nat
      /\ Batch!Length(i) \in Nat /\ Batch!Offset(i) \in Nat
  BY <1>4, Ranges DEF IInv, DownloadTypes
<1>6. /\ p \in Nat /\ p > 0 /\ p <= down[w].avail /\ down[w].avail <= Batch!Length(i)
      /\ down[w].got \in Nat /\ down[w].avail \in Nat
  BY <1>3, <1>5 DEF ReadBody, DownloadRecord, IInv, DownloadInStep
<1>7. /\ down' \in [Workers -> DownloadRecord]
      /\ down'[w].at = "report" /\ down'[w].got = p /\ down'[w].diff = p - rangeProgress[i]
      /\ down'[w].avail = down[w].avail
      /\ \A v \in Workers \ {w} : down'[v] = down[v]
  BY <1>3, <1>5, <1>6 DEF ReadBody, IInv, DownloadTypes, DownloadRecord
<1>8. /\ rangeProgress' \in [Batch!Chunks -> Nat] /\ rangeProgress'[i] = p
      /\ \A j \in Batch!Chunks \ {i} : rangeProgress'[j] = rangeProgress[j]
  BY <1>4, <1>5, <1>6 DEF ReadBody
<1>9. /\ local \subseteq local'
      /\ \A k \in down[w].got .. (p - 1) : Batch!Offset(i) + k \in local'
      /\ \A b \in local' : b \in local \/ \E k \in down[w].got .. (p - 1) : b = Batch!Offset(i) + k
  <2>1. local' = local \cup Filled(w, n)
    BY DEF ReadBody
  <2>2. \A k \in down[w].got .. (p - 1) : Batch!Offset(i) + k \in Filled(w, n)
    BY <1>5, <1>6 DEF Filled
  <2>3. \A b \in Filled(w, n) : \E k \in down[w].got .. (p - 1) : b = Batch!Offset(i) + k
    BY <1>5, <1>6 DEF Filled
  <2> QED
    BY <2>1, <2>2, <2>3
<1> HIDE DEF i, p
<1>10. local' \in SUBSET (0 .. (TransferSize - 1))
  <2>1. \A k \in down[w].got .. (p - 1) : Batch!Offset(i) + k \in Batch!Bytes(i)
    BY <1>4, <1>5, <1>6, Ranges
  <2> QED
    BY <1>4, <1>9, <2>1, Ranges DEF IInv, DownloadTypes
<1>11. DownloadTypes'
  BY <1>2, <1>7, <1>8, <1>10 DEF IInv, DownloadTypes, callVars
<1>12. DownloadInStep'
  <2>1. ASSUME NEW v \in Workers \ {w}, down[v].at # "idle"
        PROVE  wop[v] \in Batch!Chunks \ {i}
    BY <1>4, <2>1 DEF IInv, DownloadInStep, OperationsApart, i
  <2>2. ASSUME NEW v \in Workers \ {w}
        PROVE  /\ down'[v].at = "idle" <=> wpc'[v] # "running"
               /\ down'[v].at # "report" => down'[v].diff = 0
               /\ down'[v].at = "get" => down'[v].got = 0
               /\ down'[v].at \in {"read", "report"} => down'[v].avail <= Batch!Length(wop'[v])
               /\ down'[v].at # "idle" =>
                    /\ down'[v].got > 0 => rangeProgress'[wop'[v]] = down'[v].got
                    /\ \A k \in 0 .. (down'[v].got - 1) : Batch!Offset(wop'[v]) + k \in local'
    BY <1>2, <1>7, <1>8, <1>9, <2>1 DEF IInv, DownloadInStep
  <2>3. \A k \in 0 .. (p - 1) : Batch!Offset(i) + k \in local'
    <3> TAKE k \in 0 .. (p - 1)
    <3>1. CASE k < down[w].got
      <4>1. k \in 0 .. (down[w].got - 1)
        BY <1>6, <3>1
      <4> QED
        BY <1>3, <1>9, <4>1 DEF IInv, DownloadInStep, i
    <3>2. CASE k >= down[w].got
      <4>1. k \in down[w].got .. (p - 1)
        BY <1>6, <3>2
      <4> QED
        BY <1>9, <4>1
    <3> QED
      BY <1>6, <3>1, <3>2
  <2> QED
    BY <1>2, <1>4, <1>6, <1>7, <1>8, <2>2, <2>3 DEF DownloadInStep, i
<1>13. RangeDone'
  BY <1>2, <1>4, <1>8, <1>9 DEF IInv, RangeDone
<1>14. ProgressAdds'
  <2>1. SumOf(Diffs) \in Int /\ SumOf(Diffs)' = SumOf(Diffs) + (p - rangeProgress[i]) - 0
    BY <1>3, <1>7, <1>11, DiffsChange DEF IInv
  <2>2. rangeProgress \in [Batch!Chunks -> Int] /\ rangeProgress' \in [Batch!Chunks -> Int]
    BY <1>5, <1>8
  <2>3. SumOf(rangeProgress) \in Int
        /\ SumOf(rangeProgress') = SumOf(rangeProgress) + rangeProgress'[i] - rangeProgress[i]
    <3>1. IsFiniteSet(Batch!Chunks)
      BY Ranges
    <3> QED
      BY <1>4, <1>8, <2>2, <3>1, SumChange
  <2> QED
    BY <1>2, <1>5, <1>6, <1>8, <2>1, <2>3 DEF IInv, ProgressAdds
<1> QED
  BY <1>1, <1>11, <1>12, <1>13, <1>14 DEF IInv

\* What leaves the diffs enters fileProgress.
LEMMA ReportIInv ==
    ASSUME IInv, OperationsApart, NEW w \in Workers, WorkerStep(w), Report(w)
    PROVE  IInv'
<1>1. CallInPhase'
  BY WorkerCallInPhase
<1>2. UNCHANGED << callVars, remoteSize, rangeProgress, local, result, crashed, wpc, wop >>
  BY DEF Report, batchVars
<1>3. down[w] \in DownloadRecord /\ down[w].at = "report" /\ fileProgress \in Int
  BY DEF Report, IInv, DownloadTypes
<1>4. down[w].diff \in Int
  BY <1>3 DEF DownloadRecord
<1>5. /\ down' \in [Workers -> DownloadRecord]
      /\ down'[w].at = "read" /\ down'[w].got = down[w].got /\ down'[w].diff = 0
      /\ down'[w].avail = down[w].avail
      /\ \A v \in Workers \ {w} : down'[v] = down[v]
  BY <1>3 DEF Report, IInv, DownloadTypes, DownloadRecord
<1>6. fileProgress' = fileProgress + down[w].diff
  BY DEF Report
<1>7. DownloadTypes'
  BY <1>2, <1>3, <1>4, <1>5, <1>6 DEF IInv, DownloadTypes, callVars
<1>8. DownloadInStep'
  BY <1>2, <1>3, <1>5 DEF IInv, DownloadInStep
<1>9. RangeDone'
  BY <1>2 DEF IInv, RangeDone
<1>10. ProgressAdds'
  <2>1. SumOf(Diffs) \in Int /\ SumOf(Diffs)' = SumOf(Diffs) + 0 - down[w].diff
    BY <1>5, <1>7, DiffsChange DEF IInv
  <2> QED
    BY <1>2, <1>3, <1>4, <1>6, <2>1, RangeSum DEF IInv, ProgressAdds
<1> QED
  BY <1>1, <1>7, <1>8, <1>9, <1>10 DEF IInv

\* io.ReadFull returns nil only once its range is filled to the end.
LEMMA ReadFullEndsIInv ==
    ASSUME IInv, OperationsApart, NEW w \in Workers, WorkerStep(w),
           NEW out \in {"ok", "err"}, ReadFullEnds(w, out)
    PROVE  IInv'
<1> DEFINE i == wop[w]
<1>1. CallInPhase'
  BY WorkerCallInPhase
<1>2. UNCHANGED << callVars, remoteSize, rangeProgress, fileProgress, local, wop >>
  BY DEF ReadFullEnds, Batch!EndOperation
<1>3. down[w] \in DownloadRecord /\ down[w].at = "read" /\ down[w].diff = 0
  BY DEF ReadFullEnds, IInv, DownloadTypes, DownloadInStep
<1>4. i \in Batch!Chunks
  BY <1>3 DEF IInv, DownloadInStep, OperationsApart
<1>5. out = "ok" => Batch!Bytes(i) \subseteq local /\ rangeProgress[i] = Batch!Length(i)
  <2> SUFFICES ASSUME out = "ok"
               PROVE  Batch!Bytes(i) \subseteq local /\ rangeProgress[i] = Batch!Length(i)
    OBVIOUS
  <2>1. down[w].got = Batch!Length(i)
    BY DEF ReadFullEnds
  <2>2. /\ Batch!Offset(i) \in Nat /\ Batch!Length(i) \in Nat /\ Batch!Length(i) > 0
        /\ Batch!Bytes(i) = Batch!Offset(i) .. (Batch!Offset(i) + Batch!Length(i) - 1)
    BY <1>4, Ranges
  <2>3. /\ rangeProgress[i] = Batch!Length(i)
        /\ \A k \in 0 .. (Batch!Length(i) - 1) : Batch!Offset(i) + k \in local
    BY <1>3, <2>1, <2>2 DEF IInv, DownloadInStep
  <2>4. ASSUME NEW b \in Batch!Bytes(i) PROVE b \in local
    <3>1. b - Batch!Offset(i) \in 0 .. (Batch!Length(i) - 1) /\ b = Batch!Offset(i) + (b - Batch!Offset(i))
      BY <2>2
    <3> QED
      BY <2>3, <3>1
  <2> QED
    BY <2>3, <2>4
<1>6. /\ down' \in [Workers -> DownloadRecord]
      /\ down'[w].diff = 0 /\ down'[w].at = "idle"
      /\ \A v \in Workers \ {w} : down'[v] = down[v]
  BY DEF ReadFullEnds, IdleDownload, IInv, DownloadTypes, DownloadRecord
<1>7. /\ wpc'[w] = "sending"
      /\ result'[i] = out
      /\ \A v \in Workers \ {w} : wpc'[v] = wpc[v]
      /\ \A j \in Batch!Chunks \ {i} : result'[j] = result[j]
  BY <1>4 DEF ReadFullEnds, Batch!EndOperation, OperationsApart
<1> HIDE DEF i
<1>8. DownloadTypes'
  BY <1>2, <1>6 DEF IInv, DownloadTypes, callVars
<1>9. DownloadInStep'
  BY <1>2, <1>6, <1>7 DEF IInv, DownloadInStep
<1>10. RangeDone'
  BY <1>2, <1>4, <1>5, <1>7 DEF IInv, RangeDone
<1>11. ProgressAdds'
  BY <1>2, <1>3, <1>6, <1>8, ProgressUntouched
<1> QED
  BY <1>1, <1>8, <1>9, <1>10, <1>11 DEF IInv

\* A worker sends its response, or finds operationChannel closed and ends.
LEMMA LoopIInv ==
    ASSUME IInv, OperationsApart, NEW w \in Workers, WorkerStep(w), Loop(w)
    PROVE  IInv'
<1>1. CallInPhase'
  BY WorkerCallInPhase
<1>2. UNCHANGED << callVars, remoteSize, down, rangeProgress, fileProgress, local, result >>
  BY DEF Loop, Batch!SendResponse, Batch!ExitWorker, downVars
<1>3. /\ wpc[w] # "running" /\ wpc'[w] # "running"
      /\ \A v \in Workers \ {w} : wpc'[v] = wpc[v] /\ wop'[v] = wop[v]
  BY DEF Loop, Batch!SendResponse, Batch!ExitWorker, OperationsApart
<1>4. DownloadTypes' /\ RangeDone'
  BY <1>2 DEF IInv, DownloadTypes, callVars, RangeDone
<1>5. DownloadInStep'
  <2>1. down[w].at = "idle" /\ down'[w] = down[w]
    BY <1>2, <1>3 DEF IInv, DownloadInStep
  <2> QED
    BY <1>2, <1>3, <2>1 DEF IInv, DownloadInStep
<1>6. ProgressAdds'
  BY <1>2 DEF IInv, ProgressAdds, Diffs
<1> QED
  BY <1>1, <1>4, <1>5, <1>6 DEF IInv

\* The invariant is inductive, given what is proved of the batch.
LEMMA NextIInv ==
    ASSUME IInv, OperationsApart, OperationsApart', [Next]_vars
    PROVE  IInv'
<1>1. CASE UNCHANGED vars
  <2>1. UNCHANGED << batchVars, callVars, downVars, remoteSize >>
    BY <1>1 DEF vars
  <2>2. DownloadTypes' /\ CallInPhase'
    BY <2>1 DEF IInv, DownloadTypes, CallInPhase, Untouched, callVars, downVars, batchVars
  <2>3. DownloadInStep' /\ RangeDone' /\ ProgressAdds'
    BY <2>1 DEF IInv, DownloadInStep, RangeDone, ProgressAdds, Diffs, downVars, batchVars
  <2> QED
    BY <2>2, <2>3 DEF IInv
<1>2. CASE CallerStep \/ Shrink
  BY <1>2, CallIInv, BatchCallerIInv DEF CallerStep
<1>3. ASSUME NEW w \in Workers, WorkerStep(w) PROVE IInv'
  BY <1>3, StartIInv, DownloadIInv, PanicIInv, ReadBodyIInv, ReportIInv, ReadFullEndsIInv, LoopIInv
     DEF WorkerStep, Operation
<1> QED
  BY <1>1, <1>2, <1>3 DEF Next, Terminated

-----------------------------------------------------------------------------
(* The theorems. *)

\* Every step of the download, and of another client that truncates the file, is a
\* step of doBatchTransfer or leaves it alone.
THEOREM DownloadRefinesBatch == Spec => Batch!Init /\ [][Batch!Next]_batchVars
<1>1. Init => Batch!Init
  BY DEF Init
<1>2. [Next]_vars => [Batch!Next]_batchVars
  <2> SUFFICES ASSUME Next, ~ UNCHANGED batchVars PROVE Batch!Next
    BY DEF vars
  <2>1. CASE CallerStep \/ Shrink
    BY <2>1 DEF CallerStep, PrepareFails, GetProperties, Resize, MapFile, Check, BatchCallerStep,
                ReturnFromBatch, Shrink, Batch!Next
  <2>2. ASSUME NEW w \in Workers, WorkerStep(w) PROVE Batch!WorkerStep(w)
    <3>1. ~crashed
      BY <2>2 DEF WorkerStep
    <3>2. \A out \in {"ok", "err", "panic"} : Batch!EndOperation(w, out) => Batch!EndSomehow(w)
      BY DEF Batch!EndSomehow
    <3>3. ReadUnmapped(w) \/ DownloadFails(w) => Batch!EndSomehow(w)
      BY <3>2 DEF ReadUnmapped, DownloadFails
    <3>4. \A out \in {"ok", "err"} : ReadFullEnds(w, out) => Batch!EndSomehow(w)
      BY <3>2 DEF ReadFullEnds
    <3> QED
      BY <2>2, <3>1, <3>3, <3>4
         DEF WorkerStep, Operation, Loop, Start, Download, ReadBody, Report, Batch!WorkerStep
  <2>3. CASE Terminated
    BY <2>3 DEF Terminated, vars
  <2> QED
    BY <2>1, <2>2, <2>3 DEF Next, Batch!Next
<1> QED
  BY <1>1, <1>2, PTL DEF Spec

\* In every state of a download, running operations hold different ranges.
LEMMA DownloadOperationsApart == Spec => []OperationsApart
<1>1. BP!Init => BP!IInv
  BY BatchAssumptions, BP!InitIInv
<1>2. BP!IInv /\ [BP!Next]_BP!vars => BP!IInv'
  BY BatchAssumptions, BP!StepIInv
<1> QED
  BY <1>1, <1>2, DownloadRefinesBatch, SameInit, SameNext, BatchOperationsApart, PTL

\* The inductive invariant: what the call, the downloads and the progress have to do
\* with each other in every state.
THEOREM DownloadInvariant == Spec => [](IInv /\ OperationsApart)
<1>1. IInv /\ OperationsApart /\ OperationsApart' /\ [Next]_vars => IInv'
  BY NextIInv
<1> QED
  BY <1>1, InitIInv, DownloadOperationsApart, PTL DEF Spec

\* What a nil return says of the call, the ranges and the downloads.
LEMMA AtNil ==
    ASSUME IInv, OperationsApart, verdict = "nil"
    PROVE  /\ \A w \in Workers : down[w].at = "idle" /\ down[w].diff = 0
           /\ target = "file" => length = size
           /\ \/ size = 0
              \/ size = TransferSize /\ \A i \in Batch!Chunks : result[i] = "ok"
<1>1. phase = "returned"
  BY DEF IInv, DownloadTypes, CallInPhase
<1>2. CASE ret = "none"
  <2>1. \A w \in Workers : wpc[w] # "running"
    BY <1>1, <1>2 DEF IInv, CallInPhase, Untouched
  <2> QED
    BY <1>1, <1>2, <2>1 DEF IInv, CallInPhase, DownloadInStep
<1>3. CASE ret # "none"
  <2>1. ret = "nil" /\ \A w \in Workers : wpc[w] # "running"
    BY <1>1, <1>3 DEF IInv, CallInPhase, OperationsApart
  <2> QED
    BY <1>1, <2>1 DEF IInv, CallInPhase, DownloadTypes, DownloadInStep, OperationsApart
<1> QED
  BY <1>2, <1>3

\* A nil return means that the buffer holds every byte the properties announced,
\* whatever another client did to the Azure file, and that a local file has its size.
THEOREM NilMeansDownloadedHolds == Spec => []NilMeansDownloaded
<1>1. ASSUME IInv, OperationsApart PROVE NilMeansDownloaded
  <2> SUFFICES ASSUME verdict = "nil" PROVE local = 0 .. (size - 1)
    BY <1>1, AtNil DEF NilMeansDownloaded
  <2>1. CASE size = 0
    BY <1>1, <2>1 DEF IInv, CallInPhase
  <2>2. CASE size = TransferSize /\ \A i \in Batch!Chunks : result[i] = "ok"
    <3>1. \A i \in Batch!Chunks : Batch!Bytes(i) \subseteq local
      BY <1>1, <2>2 DEF IInv, RangeDone
    <3>2. 0 .. (TransferSize - 1) \subseteq local
      BY <3>1, Ranges
    <3> QED
      BY <1>1, <2>2, <3>2 DEF IInv, DownloadTypes
  <2> QED
    BY <1>1, <2>1, <2>2, AtNil
<1> QED
  BY <1>1, DownloadInvariant, PTL

\* The lengths of the ranges add up to the size of the file: each is ChunkSize but
\* the last, which is what the others leave.
LEMMA LengthsAdd == SumOf([i \in Batch!Chunks |-> Batch!Length(i)]) = TransferSize
<1> DEFINE last == Batch!NumChunks - 1
           full == [i \in Batch!Chunks |-> ChunkSize]
           cut  == [i \in Batch!Chunks |-> Batch!Length(i)]
<1>1. ChunkSize \in Nat /\ TransferSize \in Nat /\ Batch!NumChunks \in Nat \ {0}
  BY SizeAssumption, Ranges
<1>2. IsFiniteSet(Batch!Chunks) /\ Cardinality(Batch!Chunks) = Batch!NumChunks
  BY Ranges
<1>3. full \in [Batch!Chunks -> Int] /\ \A i \in Batch!Chunks : full[i] = ChunkSize
  BY <1>1
<1>4. cut \in [Batch!Chunks -> Int]
  BY Ranges
<1>5. /\ last \in Batch!Chunks /\ cut[last] = TransferSize - last * ChunkSize
      /\ \A i \in Batch!Chunks \ {last} : cut[i] = full[i]
  BY <1>1 DEF Batch!Length, Batch!Chunks
<1> HIDE DEF last, full, cut
<1>6. SumOf(full) = ChunkSize * Batch!NumChunks
  BY <1>1, <1>2, <1>3, SumConstant
<1>7. SumOf(cut) = SumOf(full) + cut[last] - full[last]
  BY <1>2, <1>3, <1>4, <1>5, SumChange
<1>8. ChunkSize * Batch!NumChunks = last * ChunkSize + ChunkSize /\ last * ChunkSize \in Int
  BY <1>1 DEF last
<1>9. SumOf(cut) = TransferSize
  BY <1>1, <1>3, <1>5, <1>6, <1>7, <1>8
<1> QED
  BY <1>9 DEF cut

\* The progress reported is the sum of the positions the ranges have reported, but
\* for the changes still waiting for progressLock, and at a nil return it is the size.
THEOREM ProgressExactHolds == Spec => []ProgressExact
<1>1. ASSUME IInv, OperationsApart PROVE ProgressExact
  <2>1. fileProgress = SumOf(rangeProgress) - SumOf([w \in Workers |-> down[w].diff])
    BY <1>1 DEF IInv, ProgressAdds, Diffs
  <2>2. ASSUME verdict = "nil" PROVE fileProgress = size
    <3>1. CASE size = 0
      BY <1>1, <3>1 DEF IInv, CallInPhase
    <3>2. CASE size = TransferSize /\ \A i \in Batch!Chunks : result[i] = "ok"
      <4>1. rangeProgress = [i \in Batch!Chunks |-> Batch!Length(i)]
        BY <1>1, <3>2 DEF IInv, RangeDone, DownloadTypes
      <4>2. SumOf(rangeProgress) = TransferSize
        BY <4>1, LengthsAdd
      <4>3. Diffs \in [Workers -> Int] /\ \A w \in Workers : Diffs[w] = 0
        BY <1>1, <2>2, AtNil DEF Diffs
      <4>4. SumOf(Diffs) = 0 * Cardinality(Workers)
        BY <4>3, WorkersAssumption, SumConstant
      <4>5. Cardinality(Workers) \in Nat
        BY WorkersAssumption, FS_CardinalityType
      <4>6. SumOf(Diffs) = 0
        BY <4>4, <4>5
      <4> QED
        BY <1>1, <3>2, <4>2, <4>6, SizeAssumption DEF IInv, ProgressAdds
    <3> QED
      BY <1>1, <2>2, <3>1, <3>2, AtNil
  <2> QED
    BY <2>1, <2>2 DEF ProgressExact
<1> QED
  BY <1>1, DownloadInvariant, PTL
=============================================================================
