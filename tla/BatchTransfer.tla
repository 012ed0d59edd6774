--------------------------- MODULE BatchTransfer ---------------------------
(***************************************************************************)
(* doBatchTransfer (azfile/highlevel.go): one goroutine, the caller, cuts   *)
(* [0, transferSize) into chunks and sends one closure per chunk on         *)
(* operationChannel; `parallelism` worker goroutines receive closures, run  *)
(* them and send each error on operationResponseChannel; the caller then    *)
(* collects the errors and returns at the first non-nil one.                *)
(*                                                                         *)
(* A closure is identified with its chunk index: Offset and Length give the *)
(* arguments it passes to o.operation.  What the operation does             *)
(* (UploadRange, or Download and ReadFull) is refined in UploadFile and     *)
(* DownloadFile; here it only returns nil, returns an error, or panics.  A  *)
(* panic in a goroutine ends the whole process.                             *)
(***************************************************************************)
EXTENDS Integers, Sequences, FiniteSets

CONSTANTS
    TransferSize,   \* batchTransferOptions.transferSize, in bytes
    ChunkSize,      \* batchTransferOptions.chunkSize, in bytes
    Workers,        \* the worker goroutines; batchTransferOptions.parallelism is their number
    Outcomes        \* how an operation may end, a subset of OpOutcomes

OpOutcomes == {"ok", "err", "panic"}

\* Both callers return before doBatchTransfer when there is nothing to transfer,
\* and replace a chunk size of 0 and a parallelism of 0 by defaults.
ASSUME SizeAssumption == TransferSize \in Nat \ {0} /\ ChunkSize \in Nat \ {0}
ASSUME WorkersAssumption == IsFiniteSet(Workers) /\ Workers # {}
ASSUME OutcomesAssumption == Outcomes \subseteq OpOutcomes

VARIABLES
    chunkIndex,                 \* the producer loop's variable
    operationChannel,           \* closures sent and not yet received, oldest first
    operationChannelClosed,
    wpc,                        \* where each worker goroutine is in its loop
    wop,                        \* the closure it holds, or NoChunk
    result,                     \* what each chunk's operation returned; "none" before
    operationResponseChannel,   \* responses sent and not yet received: the chunks whose result they carry
    responses,                  \* the wait loop's chunkIndex: responses received
    cancelled,                  \* the context made here has been cancelled
    ret,                        \* "none" until doBatchTransfer returns "nil" or "err"
    crashed                     \* a panic has ended the process

callerVars == << chunkIndex, operationChannelClosed, responses, cancelled, ret >>
workerVars == << wpc, wop, result, crashed >>
vars == << callerVars, workerVars, operationChannel, operationResponseChannel >>

NumChunks == ((TransferSize - 1) \div ChunkSize) + 1

Chunks == 0 .. (NumChunks - 1)

NoChunk == -1

\* offset := int64(chunkIndex) * o.chunkSize
Offset(i) == i * ChunkSize

\* Mutant of Length: the last chunk keeps the full chunk size.
LengthOfLastNotCut(i) == ChunkSize

\* closureChunkSize: the last chunk is what the others leave.
Length(i) == IF i = NumChunks - 1 THEN TransferSize - i * ChunkSize ELSE ChunkSize

\* The bytes that chunk i's operation reads or writes.
Bytes(i) == Offset(i) .. (Offset(i) + Length(i) - 1)

\* make(chan func() error, o.parallelism)
OperationCapacity == Cardinality(Workers)

\* Mutant of ResponseCapacity: as many slots as workers.
ResponseCapacityOfWorkers == Cardinality(Workers)

\* Mutant of ResponseCapacity: a single slot.
ResponseCapacityOfOne == 1

\* make(chan error, numChunks)
ResponseCapacity == NumChunks

Init ==
    /\ chunkIndex = 0
    /\ operationChannel = << >>
    /\ operationChannelClosed = FALSE
    /\ wpc = [w \in Workers |-> "range"]
    /\ wop = [w \in Workers |-> NoChunk]
    /\ result = [i \in Chunks |-> "none"]
    /\ operationResponseChannel = << >>
    /\ responses = 0
    /\ cancelled = FALSE
    /\ ret = "none"
    /\ crashed = FALSE

-----------------------------------------------------------------------------
(* The calling goroutine. *)

\* Mutant of Produce: one chunk too many.
ProduceOneMore ==
    /\ chunkIndex <= NumChunks /\ ~operationChannelClosed
    /\ Len(operationChannel) < OperationCapacity
    /\ operationChannel' = Append(operationChannel, chunkIndex)
    /\ chunkIndex' = chunkIndex + 1
    /\ UNCHANGED << operationChannelClosed, responses, cancelled, ret, workerVars,
                    operationResponseChannel >>

\* operationChannel <- func() error {...}: blocks while the buffer is full.
Produce ==
    /\ chunkIndex < NumChunks
    /\ Len(operationChannel) < OperationCapacity
    /\ operationChannel' = Append(operationChannel, chunkIndex)
    /\ chunkIndex' = chunkIndex + 1
    /\ UNCHANGED << operationChannelClosed, responses, cancelled, ret, workerVars,
                    operationResponseChannel >>

CloseOperationChannel ==
    /\ chunkIndex = NumChunks
    /\ ~operationChannelClosed
    /\ operationChannelClosed' = TRUE
    /\ UNCHANGED << chunkIndex, responses, cancelled, ret, workerVars,
                    operationChannel, operationResponseChannel >>

\* Mutant of ReceiveResponse: an error is counted like any response.
ReceiveResponseIgnoringError ==
    /\ operationChannelClosed /\ ret = "none" /\ responses < NumChunks
    /\ operationResponseChannel # << >>
    /\ operationResponseChannel' = Tail(operationResponseChannel)
    /\ responses' = responses + 1
    /\ UNCHANGED << chunkIndex, operationChannelClosed, cancelled, ret, workerVars, operationChannel >>

\* One turn of the wait loop.  The first error cancels the context and returns.
ReceiveResponse ==
    /\ operationChannelClosed
    /\ ret = "none"
    /\ responses < NumChunks
    /\ operationResponseChannel # << >>
    /\ operationResponseChannel' = Tail(operationResponseChannel)
    /\ responses' = responses + 1
    /\ IF result[Head(operationResponseChannel)] = "ok"
         THEN UNCHANGED << cancelled, ret >>
         ELSE cancelled' = TRUE /\ ret' = "err"
    /\ UNCHANGED << chunkIndex, operationChannelClosed, workerVars, operationChannel >>

\* Mutant of ReturnNil: the wait loop leaves one response unread.
ReturnNilOneShort ==
    /\ operationChannelClosed /\ ret = "none" /\ responses >= NumChunks - 1
    /\ ret' = "nil" /\ cancelled' = TRUE
    /\ UNCHANGED << chunkIndex, operationChannelClosed, responses, workerVars,
                    operationChannel, operationResponseChannel >>

\* The wait loop is over: return nil, and the deferred cancel runs.
ReturnNil ==
    /\ operationChannelClosed
    /\ ret = "none"
    /\ responses = NumChunks
    /\ ret' = "nil"
    /\ cancelled' = TRUE
    /\ UNCHANGED << chunkIndex, operationChannelClosed, responses, workerVars,
                    operationChannel, operationResponseChannel >>

-----------------------------------------------------------------------------
(* A worker goroutine. *)

\* Mutant of TakeOperation: the closure stays in the channel for another worker.
TakeOperationTwice(w) ==
    /\ wpc[w] = "range" /\ operationChannel # << >>
    /\ wpc' = [wpc EXCEPT ![w] = "running"]
    /\ wop' = [wop EXCEPT ![w] = Head(operationChannel)]
    /\ operationChannel' \in {operationChannel, Tail(operationChannel)}
    /\ UNCHANGED << callerVars, result, crashed, operationResponseChannel >>

\* for f := range operationChannel: receive a closure and call it.
TakeOperation(w) ==
    /\ wpc[w] = "range"
    /\ operationChannel # << >>
    /\ wpc' = [wpc EXCEPT ![w] = "running"]
    /\ wop' = [wop EXCEPT ![w] = Head(operationChannel)]
    /\ operationChannel' = Tail(operationChannel)
    /\ UNCHANGED << callerVars, result, crashed, operationResponseChannel >>

\* err := f() has returned, or f has panicked.
EndOperation(w, out) ==
    /\ wpc[w] = "running"
    /\ result' = [result EXCEPT ![wop[w]] = out]
    /\ wpc' = IF out = "panic" THEN wpc ELSE [wpc EXCEPT ![w] = "sending"]
    /\ crashed' = (out = "panic")
    /\ UNCHANGED << callerVars, wop, operationChannel, operationResponseChannel >>

\* operationResponseChannel <- err
SendResponse(w) ==
    /\ wpc[w] = "sending"
    /\ Len(operationResponseChannel) < ResponseCapacity
    /\ operationResponseChannel' = Append(operationResponseChannel, wop[w])
    /\ wpc' = [wpc EXCEPT ![w] = "range"]
    /\ wop' = [wop EXCEPT ![w] = NoChunk]
    /\ UNCHANGED << callerVars, result, crashed, operationChannel >>

\* The range loop ends once the channel is closed and drained.
ExitWorker(w) ==
    /\ wpc[w] = "range"
    /\ operationChannelClosed
    /\ operationChannel = << >>
    /\ wpc' = [wpc EXCEPT ![w] = "exited"]
    /\ UNCHANGED << callerVars, wop, result, crashed, operationChannel, operationResponseChannel >>

-----------------------------------------------------------------------------
CallerStep == ~crashed /\ (Produce \/ CloseOperationChannel \/ ReceiveResponse \/ ReturnNil)

EndSomehow(w) == \E out \in Outcomes : EndOperation(w, out)

WorkerStep(w) ==
    ~crashed /\ (TakeOperation(w) \/ EndSomehow(w) \/ SendResponse(w) \/ ExitWorker(w))

\* Nothing is left to run: the only states in which the system may stop.
Finished == crashed \/ (ret # "none" /\ \A w \in Workers : wpc[w] = "exited")

Terminated == Finished /\ UNCHANGED vars

Next == CallerStep \/ (\E w \in Workers : WorkerStep(w)) \/ Terminated

\* Every goroutine that can take a step is eventually scheduled, and an operation
\* eventually returns: the retry policy bounds its tries and each try has a timeout.
Fairness == WF_vars(CallerStep) /\ \A w \in Workers : WF_vars(WorkerStep(w))

Spec == Init /\ [][Next]_vars /\ Fairness

-----------------------------------------------------------------------------
(* Properties. *)

TypeOK ==
    /\ chunkIndex \in 0 .. NumChunks
    /\ operationChannel \in Seq(Chunks)
    /\ operationChannelClosed \in BOOLEAN
    /\ wpc \in [Workers -> {"range", "running", "sending", "exited"}]
    /\ wop \in [Workers -> Chunks \cup {NoChunk}]
    /\ result \in [Chunks -> OpOutcomes \cup {"none"}]
    /\ operationResponseChannel \in Seq(Chunks)
    /\ responses \in 0 .. NumChunks
    /\ cancelled \in BOOLEAN
    /\ ret \in {"none", "nil", "err"}
    /\ crashed \in BOOLEAN

\* The operations that run at the same time share the caller's buffer without a
\* lock (highlevel.go:83 and :200 slice it): two of them never touch the same
\* byte, and none reaches past the buffer's transferSize bytes.
RunningOpsDisjoint ==
    \A v \in Workers : wpc[v] = "running" =>
        /\ Bytes(wop[v]) \subseteq 0 .. (TransferSize - 1)
        /\ \A w \in Workers \ {v} :
              wpc[w] = "running" => Bytes(wop[v]) \cap Bytes(wop[w]) = {}

\* When doBatchTransfer returns nil, every byte of the transfer belongs to an
\* operation that returned nil: no chunk was skipped, lost or still running.
NilMeansComplete ==
    ret = "nil" =>
        \A b \in 0 .. (TransferSize - 1) :
            \E i \in Chunks : b \in Bytes(i) /\ result[i] = "ok"

\* A worker holding an error can always send it: the response channel has a slot
\* for every chunk, so a caller that returned early strands no goroutine.
SendNeverBlocks ==
    \A w \in Workers : wpc[w] = "sending" => Len(operationResponseChannel) < ResponseCapacity

\* An operation's error is never lost: once some operation has failed,
\* doBatchTransfer eventually returns an error (unless a panic ends the process).
ErrorReported == (\E i \in Chunks : result[i] = "err") ~> (ret = "err" \/ crashed)

\* The call returns and none of its goroutines is left behind.
EverythingEnds == <>(crashed \/ (ret # "none" /\ \A w \in Workers : wpc[w] = "exited"))
-----------------------------------------------------------------------------
(* The accounting of chunks between the goroutines: the inductive invariant. *)

\* How many closures have left operationChannel.
Taken == chunkIndex - Len(operationChannel)

Holds(w, i) == wpc[w] \in {"running", "sending"} /\ wop[w] = i

Answered(i) == \E k \in 1 .. Len(operationResponseChannel) : operationResponseChannel[k] = i

\* The chunks whose response the caller has received.
Received == {i \in 0 .. (Taken - 1) : ~Answered(i) /\ \A w \in Workers : ~Holds(w, i)}

\* operationChannel holds the chunks Taken, Taken + 1, ..., chunkIndex - 1.
ChannelInOrder ==
    /\ Len(operationChannel) <= chunkIndex
    /\ \A k \in 1 .. Len(operationChannel) : operationChannel[k] = Taken + k - 1
    /\ operationChannelClosed => chunkIndex = NumChunks

\* A chunk taken from the channel is with one worker, which runs it or holds its result.
OneHolder ==
    \A w \in Workers : wpc[w] \in {"running", "sending"} =>
        /\ wop[w] \in 0 .. (Taken - 1)
        /\ wpc[w] = "running" /\ ~crashed => result[wop[w]] = "none"
        /\ wpc[w] = "sending" => result[wop[w]] \in {"ok", "err"}
        /\ \A v \in Workers : Holds(v, wop[w]) => v = w

\* No chunk's result is answered twice, or answered while a worker still holds it.
AnsweredOnce ==
    \A k \in 1 .. Len(operationResponseChannel) :
        LET i == operationResponseChannel[k] IN
        /\ i \in 0 .. (Taken - 1)
        /\ result[i] \in {"ok", "err"}
        /\ \A w \in Workers : ~Holds(w, i)
        /\ \A l \in 1 .. Len(operationResponseChannel) : operationResponseChannel[l] = i => l = k

\* The wait loop has counted exactly the chunks it received; all of them ended
\* well as long as it has not returned an error.
CountedOnce ==
    /\ responses = Cardinality(Received)
    /\ \A i \in Received : result[i] \in {"ok", "err"} /\ (ret # "err" => result[i] = "ok")
    /\ ret = "nil" => responses = NumChunks
    /\ ret = "err" => \E i \in Received : result[i] = "err"

NotTakenNotRun == \A i \in Chunks : i >= Taken => result[i] = "none"

\* Between the caller, the two channels and the workers every chunk is in exactly
\* one place, so none is run twice, lost or counted twice (highlevel.go:279-313).
ChunkAccounting ==
    ChannelInOrder /\ OneHolder /\ AnsweredOnce /\ CountedOnce /\ NotTakenNotRun

-----------------------------------------------------------------------------
(* What the caller is promised. *)

Promise ==
    INSTANCE ChunkedTransfer WITH
        done    <- {i \in Chunks : result[i] = "ok"},
        failed  <- {i \in Chunks : result[i] = "err"},
        verdict <- ret

\* doBatchTransfer, channels, workers and all, gives its caller no more and no
\* less than ChunkedTransfer: one try per chunk and one verdict that fits them.
ImplementsPromise == Promise!Spec
=============================================================================
