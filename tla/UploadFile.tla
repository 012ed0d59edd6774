----------------------------- MODULE UploadFile -----------------------------
(***************************************************************************)
(* UploadFileToAzureFile and UploadBufferToAzureFile (azfile/highlevel.go):  *)
(* map the local file into memory, create the Azure file, upload its ranges *)
(* in parallel with doBatchTransfer, and unmap on return.                   *)
(*                                                                         *)
(* An operation of the batch uploads one range: the retry policy rewinds    *)
(* the body before every try, the transport reads it and, through           *)
(* pipeline.NewRequestBodyProgress, reports the position after each read;   *)
(* the service stores the range when it has all of it, even if its answer   *)
(* is lost.  The batch is BatchTransfer's; its operations start and end     *)
(* here.  A read of memory that is no longer mapped kills the process.      *)
(***************************************************************************)
EXTENDS Integers, Sequences, FiniteSets, Sums

CONSTANTS
    TransferSize,   \* stat.Size() of a file that is not empty
    ChunkSize,      \* o.RangeSize after defaults
    Workers,        \* parallelism
    MaxTries        \* RetryOptions.MaxTries

ASSUME SizeAssumption == TransferSize \in Nat \ {0} /\ ChunkSize \in Nat \ {0}
ASSUME WorkersAssumption == IsFiniteSet(Workers) /\ Workers # {}
ASSUME MaxTriesAssumption == MaxTries \in Nat \ {0}

VARIABLES
    chunkIndex, operationChannel, operationChannelClosed, wpc, wop, result,
    operationResponseChannel, responses, cancelled, ret, crashed

Batch == INSTANCE BatchTransfer WITH Outcomes <- {"ok", "err", "panic"}

VARIABLES
    phase,          \* how far the call is: "map", "create", "transfer", "returned"
    size,           \* stat.Size()
    mapped,         \* the local file is mapped
    verdict,        \* what the call returned; "none" before
    up,             \* per worker, the upload of its range (IdleUpload between operations)
    rangeProgress,  \* per chunk, its closure's rangeProgress
    fileProgress,   \* shared, under progressLock
    remote          \* the bytes of the Azure file that hold the local file's

batchVars == << chunkIndex, operationChannel, operationChannelClosed, wpc, wop, result,
                operationResponseChannel, responses, cancelled, ret, crashed >>
progressVars == << rangeProgress, fileProgress >>
callVars == << phase, size, mapped, verdict >>
vars == << batchVars, callVars, up, progressVars, remote >>

\* try: tries so far.  from: where this try's first read found the body.  pos: the
\* body's position.  diff: a change of rangeProgress not yet in fileProgress.
IdleUpload == [at |-> "idle", try |-> 0, from |-> 0, pos |-> 0, diff |-> 0]

Init ==
    /\ Batch!Init
    /\ phase = "map"
    /\ size \in {0, TransferSize}
    /\ mapped = FALSE
    /\ verdict = "none"
    /\ up = [w \in Workers |-> IdleUpload]
    /\ rangeProgress = [i \in Batch!Chunks |-> 0]
    /\ fileProgress = 0
    /\ remote = {}

-----------------------------------------------------------------------------
(* The calling goroutine. *)

\* file.Stat and newMMF; an empty file is not mapped.
MapFile ==
    /\ phase = "map"
    /\ \/ mapped' = (size # 0) /\ phase' = "create" /\ UNCHANGED verdict
       \/ verdict' = "err" /\ phase' = "returned" /\ UNCHANGED mapped
    /\ UNCHANGED << batchVars, size, up, progressVars, remote >>

\* The call returns v: the deferred unmap runs.
Return(v) == phase' = "returned" /\ verdict' = v /\ mapped' = FALSE

\* o.RangeSize is out of bounds, or fileURL.Create fails.
CreateFails ==
    /\ phase = "create"
    /\ Return("err")
    /\ UNCHANGED << batchVars, size, up, progressVars, remote >>

\* Mutant of Create: the unmap is deferred in a function that returns before the transfer.
CreateUnmapping ==
    /\ phase = "create"
    /\ IF size = 0 THEN Return("nil") ELSE phase' = "transfer" /\ mapped' = FALSE /\ UNCHANGED verdict
    /\ UNCHANGED << batchVars, size, up, progressVars, remote >>

\* fileURL.Create makes a file of size zero bytes; there may be nothing to upload.
Create ==
    /\ phase = "create"
    /\ IF size = 0 THEN Return("nil") ELSE phase' = "transfer" /\ UNCHANGED << mapped, verdict >>
    /\ UNCHANGED << batchVars, size, up, progressVars, remote >>

BatchCallerStep ==
    /\ phase = "transfer"
    /\ Batch!CallerStep
    /\ UNCHANGED << callVars, up, progressVars, remote >>

\* Mutant of ReturnFromBatch: the unmap is not deferred.
ReturnFromBatchMapped ==
    /\ phase = "transfer" /\ ret # "none" /\ ~crashed
    /\ phase' = "returned" /\ verdict' = ret
    /\ UNCHANGED << batchVars, size, mapped, up, progressVars, remote >>

\* doBatchTransfer has returned.
ReturnFromBatch ==
    /\ phase = "transfer"
    /\ ret # "none"
    /\ ~crashed
    /\ Return(ret)
    /\ UNCHANGED << batchVars, size, up, progressVars, remote >>

CallerStep == MapFile \/ CreateFails \/ Create \/ BatchCallerStep \/ ReturnFromBatch

-----------------------------------------------------------------------------
(* An upload operation of worker w. *)

\* The worker calls the operation with its range's offset and size.
Start(w) ==
    /\ Batch!TakeOperation(w)
    /\ up' = [up EXCEPT ![w] = [IdleUpload EXCEPT !.at = "retry"]]
    /\ UNCHANGED << callVars, progressVars, remote >>

\* Mutant of BeginTry: the body is not rewound.
BeginTryWithoutRewind(w) ==
    /\ up[w].at = "retry" /\ up[w].try < MaxTries
    /\ up' = [up EXCEPT ![w] = [at |-> "send", try |-> @.try + 1, from |-> @.pos, pos |-> @.pos,
                                      diff |-> @.diff]]
    /\ UNCHANGED << batchVars, callVars, progressVars, remote >>

\* The retry policy starts a try: RewindBody.
BeginTry(w) ==
    /\ up[w].at = "retry"
    /\ up[w].try < MaxTries
    /\ up' = [up EXCEPT ![w] = [at |-> "send", try |-> @.try + 1, from |-> 0, pos |-> 0,
                                      diff |-> @.diff]]
    /\ UNCHANGED << batchVars, callVars, progressVars, remote >>

\* Mutant of ReadBody: rangeProgress stays 0, so that diff is the whole position.
ReadBodyForgetting(w, n) ==
    /\ up[w].at = "send" /\ mapped
    /\ n <= Batch!Length(wop[w]) - up[w].pos
    /\ up' = [up EXCEPT ![w] = [at |-> "report", try |-> @.try, from |-> @.from,
                                      pos |-> @.pos + n, diff |-> @.pos + n]]
    /\ UNCHANGED << batchVars, callVars, progressVars, remote >>

\* The transport reads n bytes; the progress function computes diff.
ReadBody(w, n) ==
    /\ up[w].at = "send"
    /\ mapped
    /\ n <= Batch!Length(wop[w]) - up[w].pos
    /\ LET bytesTransferred == up[w].pos + n IN
         /\ up' = [up EXCEPT ![w] = [at |-> "report", try |-> @.try, from |-> @.from,
                                           pos |-> bytesTransferred,
                                           diff |-> bytesTransferred - rangeProgress[wop[w]]]]
         /\ rangeProgress' = [rangeProgress EXCEPT ![wop[w]] = bytesTransferred]
    /\ UNCHANGED << batchVars, callVars, fileProgress, remote >>

\* The memory behind the body is gone.
ReadUnmapped(w) ==
    /\ up[w].at = "send"
    /\ ~mapped
    /\ up[w].pos < Batch!Length(wop[w])
    /\ Batch!EndOperation(w, "panic")
    /\ UNCHANGED << callVars, up, progressVars, remote >>

\* The section under progressLock: fileProgress += diff; o.Progress(fileProgress).
Report(w) ==
    /\ up[w].at = "report"
    /\ fileProgress' = fileProgress + up[w].diff
    /\ up' = [up EXCEPT ![w] = [at |-> "send", try |-> @.try, from |-> @.from, pos |-> @.pos,
                                      diff |-> 0]]
    /\ UNCHANGED << batchVars, callVars, rangeProgress, remote >>

\* The service has received the try's body and stores it at the chunk's offset.
Stored(w) ==
    {Batch!Offset(wop[w]) + k : k \in up[w].from .. (up[w].pos - 1)}

\* The service answers, or a failure hides whether it has; either way the try is over.
TryEnds(w, out) ==
    /\ up[w].at = "send"
    /\ out = "ok" => up[w].pos = Batch!Length(wop[w])
    /\ IF up[w].pos = Batch!Length(wop[w])
         THEN \/ remote' = remote \cup Stored(w)
              \/ out # "ok" /\ UNCHANGED remote
         ELSE UNCHANGED remote
    /\ IF out = "retry"
         THEN /\ up[w].try < MaxTries
              /\ up' = [up EXCEPT ![w] = [@ EXCEPT !.at = "retry"]]
              /\ UNCHANGED batchVars
         ELSE /\ Batch!EndOperation(w, out)
              /\ up' = [up EXCEPT ![w] = IdleUpload]
    /\ UNCHANGED << callVars, progressVars >>

Upload(w) ==
    \/ Start(w) \/ BeginTry(w)
    \/ \E n \in 1 .. ChunkSize : ReadBody(w, n)
    \/ ReadUnmapped(w) \/ Report(w)
    \/ \E out \in {"ok", "err", "retry"} : TryEnds(w, out)

\* The rest of the worker's loop.
Loop(w) ==
    /\ Batch!SendResponse(w) \/ Batch!ExitWorker(w)
    /\ UNCHANGED << callVars, up, progressVars, remote >>

WorkerStep(w) == ~crashed /\ (Upload(w) \/ Loop(w))

-----------------------------------------------------------------------------
Terminated ==
    /\ crashed \/ (phase = "returned" /\ (ret = "none" \/ \A w \in Workers : wpc[w] = "exited"))
    /\ UNCHANGED vars

Next == CallerStep \/ (\E w \in Workers : WorkerStep(w)) \/ Terminated

\* Goroutines are scheduled, and the transport sends or fails: each try has a timeout.
Fairness == WF_vars(CallerStep) /\ \A w \in Workers : WF_vars(WorkerStep(w))

Spec == Init /\ [][Next]_vars /\ Fairness

-----------------------------------------------------------------------------
(* Properties. *)

\* A nil return means that the Azure file holds every byte of the local one,
\* whatever tries failed or had their answers lost on the way.
NilMeansUploaded == verdict = "nil" => remote = 0 .. (size - 1)

\* The progress reported is exact under retries and interleavings: it is the sum of
\* the ranges' positions but for the changes still waiting for progressLock, so a
\* rewound body is counted once and a nil return follows a report of the full size.
ProgressExact ==
    /\ fileProgress = SumOf(rangeProgress) - SumOf([w \in Workers |-> up[w].diff])
    /\ verdict = "nil" => fileProgress = size

\* Unless the call fails, the mapping outlives every upload that reads it: a nil
\* return leaves no upload running, and none before it finds its memory gone.
MappingOutlivesUploads ==
    verdict # "err" =>
        ~crashed /\ (phase = "returned" => \A w \in Workers : up[w].at = "idle")

\* The call returns, its goroutines end, and the mapping is released.
UploadEnds ==
    <>(crashed \/ (/\ phase = "returned" /\ ~mapped
                   /\ ret = "none" \/ \A w \in Workers : wpc[w] = "exited"))

\* highlevel.go:310: "As soon as any operation fails, cancel all remaining operation
\* calls": once the call has returned, no upload still reads the unmapped file.
NoReadAfterReturn == phase = "returned" => ~crashed
=============================================================================
