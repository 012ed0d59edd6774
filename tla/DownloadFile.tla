---------------------------- MODULE DownloadFile ----------------------------
(***************************************************************************)
(* DownloadAzureFileToFile, DownloadAzureFileToBuffer and the function they *)
(* share, downloadAzureFileToBuffer (azfile/highlevel.go): ask for the      *)
(* size, resize and map the local file, download the ranges in parallel     *)
(* with doBatchTransfer, and unmap on return.                               *)
(*                                                                         *)
(* An operation of the batch downloads one range and fills its part of the  *)
(* buffer with io.ReadFull.  The stream it reads is RetryReader's (or the   *)
(* raw body): bytes in order, then an error or the end of what the service  *)
(* had.  Another client may shrink the Azure file at any time.              *)
(***************************************************************************)
EXTENDS Integers, Sequences, FiniteSets, Sums

CONSTANTS
    TransferSize,   \* ContentLength() of a file that is not empty
    ChunkSize,      \* o.RangeSize after defaults
    Workers,        \* parallelism
    Lengths         \* the lengths a caller's buffer, or the local file, may have

ASSUME SizeAssumption == TransferSize \in Nat \ {0} /\ ChunkSize \in Nat \ {0}
ASSUME WorkersAssumption == IsFiniteSet(Workers) /\ Workers # {}
ASSUME LengthsAssumption == Lengths \subseteq Nat

VARIABLES
    chunkIndex, operationChannel, operationChannelClosed, wpc, wop, result,
    operationResponseChannel, responses, cancelled, ret, crashed

Batch == INSTANCE BatchTransfer WITH Outcomes <- {"ok", "err", "panic"}

VARIABLES
    target,         \* "file" or "buffer"
    phase,          \* "properties", "resize", "map", "check", "transfer", "returned"
    size,           \* ContentLength() of the properties; the file's size until then
    remoteSize,     \* the size of the Azure file now
    length,         \* of the local file or of the caller's buffer
    mapped,         \* the local file is mapped
    verdict,        \* what the call returned, or that it panicked; "none" before
    down,           \* per worker, the download of its range
    rangeProgress,  \* per chunk, its closure's rangeProgress
    fileProgress,   \* shared, under progressLock
    local           \* the bytes of the buffer that have been filled

batchVars == << chunkIndex, operationChannel, operationChannelClosed, wpc, wop, result,
                operationResponseChannel, responses, cancelled, ret, crashed >>
callVars == << target, phase, size, length, mapped, verdict >>
downVars == << down, rangeProgress, fileProgress, local >>
vars == << batchVars, callVars, downVars, remoteSize >>

\* got: bytes read so far.  avail: bytes the response has.  diff: a change of
\* rangeProgress not yet in fileProgress.
IdleDownload == [at |-> "idle", got |-> 0, avail |-> 0, diff |-> 0]

Init ==
    /\ Batch!Init
    /\ target \in {"file", "buffer"}
    /\ phase = "properties"
    /\ size \in {0, TransferSize}
    /\ remoteSize = size
    /\ length \in Lengths
    /\ mapped = FALSE
    /\ verdict = "none"
    /\ down = [w \in Workers |-> IdleDownload]
    /\ rangeProgress = [i \in Batch!Chunks |-> 0]
    /\ fileProgress = 0
    /\ local = {}

-----------------------------------------------------------------------------
(* The calling goroutine. *)

\* The call returns or panics: the deferred unmap runs.
Return(v) == phase' = "returned" /\ verdict' = v /\ mapped' = FALSE

\* One of the calls before the transfer fails: GetProperties, Stat, Truncate, newMMF,
\* or the test of o.RangeSize.
PrepareFails ==
    /\ phase \in {"properties", "resize", "map", "check"}
    /\ Return("err")
    /\ UNCHANGED << batchVars, target, size, length, downVars, remoteSize >>

GetProperties ==
    /\ phase = "properties"
    /\ phase' = IF target = "file" THEN "resize" ELSE "check"
    /\ UNCHANGED << batchVars, target, size, length, mapped, verdict, downVars, remoteSize >>

\* file.Truncate(azfileSize), if the sizes differ.
Resize ==
    /\ phase = "resize"
    /\ length' = size
    /\ phase' = "map"
    /\ UNCHANGED << batchVars, target, size, mapped, verdict, downVars, remoteSize >>

\* newMMF; an empty file is not mapped.
MapFile ==
    /\ phase = "map"
    /\ mapped' = (size > 0)
    /\ phase' = "check"
    /\ UNCHANGED << batchVars, target, size, length, verdict, downVars, remoteSize >>

\* There may be nothing to download; a buffer that is too small is a panic.
Check ==
    /\ phase = "check"
    /\ IF size = 0 THEN Return("nil")
       ELSE IF length < size THEN Return("panic")
       ELSE phase' = "transfer" /\ UNCHANGED << mapped, verdict >>
    /\ UNCHANGED << batchVars, target, size, length, downVars, remoteSize >>

BatchCallerStep ==
    /\ phase = "transfer"
    /\ Batch!CallerStep
    /\ UNCHANGED << callVars, downVars, remoteSize >>

\* Mutant of ReturnFromBatch: the unmap is not deferred.
ReturnFromBatchMapped ==
    /\ phase = "transfer" /\ ret # "none" /\ ~crashed
    /\ phase' = "returned" /\ verdict' = ret
    /\ UNCHANGED << batchVars, target, size, length, mapped, downVars, remoteSize >>

\* doBatchTransfer has returned.
ReturnFromBatch ==
    /\ phase = "transfer"
    /\ ret # "none"
    /\ ~crashed
    /\ Return(ret)
    /\ UNCHANGED << batchVars, target, size, length, downVars, remoteSize >>

CallerStep ==
    \/ PrepareFails \/ GetProperties \/ Resize \/ MapFile \/ Check
    \/ BatchCallerStep \/ ReturnFromBatch

-----------------------------------------------------------------------------
(* A download operation of worker w. *)

\* The worker calls the operation with its range's offset and size.
Start(w) ==
    /\ Batch!TakeOperation(w)
    /\ down' = [down EXCEPT ![w] = [IdleDownload EXCEPT !.at = "get"]]
    /\ UNCHANGED << callVars, rangeProgress, fileProgress, local, remoteSize >>

\* fileURL.Download: the service has the range, or the beginning of it.
Download(w) ==
    /\ down[w].at = "get"
    /\ Batch!Offset(wop[w]) < remoteSize
    /\ LET left == remoteSize - Batch!Offset(wop[w])
           n == Batch!Length(wop[w])
       IN  down' = [down EXCEPT ![w] = [at |-> "read", avail |-> IF left < n THEN left ELSE n,
                                               got |-> @.got, diff |-> @.diff]]
    /\ UNCHANGED << batchVars, callVars, rangeProgress, fileProgress, local, remoteSize >>

\* fileURL.Download returns a nil response and an error, and dr.Body dereferences it.
DownloadFails(w) ==
    /\ down[w].at = "get"
    /\ Batch!EndOperation(w, "panic")
    /\ UNCHANGED << callVars, downVars, remoteSize >>

\* The bytes of the buffer that the next n bytes of the range go to.
Filled(w, n) ==
    {Batch!Offset(wop[w]) + k : k \in down[w].got .. (down[w].got + n - 1)}

\* Mutant of ReadBody: rangeProgress stays 0, so that diff is the whole position.
ReadBodyForgetting(w, n) ==
    /\ down[w].at = "read" /\ (target = "file" => mapped)
    /\ n <= down[w].avail - down[w].got
    /\ down' = [down EXCEPT ![w] = [at |-> "report", avail |-> @.avail, got |-> @.got + n,
                                          diff |-> @.got + n]]
    /\ local' = local \cup Filled(w, n)
    /\ UNCHANGED << batchVars, callVars, rangeProgress, fileProgress, remoteSize >>

\* A Read of io.ReadFull stores n bytes; the progress function computes diff.
ReadBody(w, n) ==
    /\ down[w].at = "read"
    /\ target = "file" => mapped
    /\ n <= down[w].avail - down[w].got
    /\ LET bytesTransferred == down[w].got + n IN
         /\ down' = [down EXCEPT ![w] = [at |-> "report", avail |-> @.avail, got |-> bytesTransferred,
                                               diff |-> bytesTransferred - rangeProgress[wop[w]]]]
         /\ rangeProgress' = [rangeProgress EXCEPT ![wop[w]] = bytesTransferred]
    /\ local' = local \cup Filled(w, n)
    /\ UNCHANGED << batchVars, callVars, fileProgress, remoteSize >>

\* The memory behind the buffer is gone.
ReadUnmapped(w) ==
    /\ down[w].at = "read"
    /\ target = "file" /\ ~mapped
    /\ down[w].got < down[w].avail
    /\ Batch!EndOperation(w, "panic")
    /\ UNCHANGED << callVars, downVars, remoteSize >>

\* The section under progressLock: fileProgress += diff; o.Progress(fileProgress).
Report(w) ==
    /\ down[w].at = "report"
    /\ fileProgress' = fileProgress + down[w].diff
    /\ down' = [down EXCEPT ![w] = [at |-> "read", avail |-> @.avail, got |-> @.got, diff |-> 0]]
    /\ UNCHANGED << batchVars, callVars, rangeProgress, local, remoteSize >>

\* Mutant of ReadFullEnds: a stream that ends early is taken for the whole range.
ReadFullEndsEarly(w, out) ==
    /\ down[w].at = "read" /\ (out = "ok" => down[w].got = down[w].avail)
    /\ Batch!EndOperation(w, out)
    /\ down' = [down EXCEPT ![w] = IdleDownload]
    /\ UNCHANGED << callVars, rangeProgress, fileProgress, local, remoteSize >>

\* io.ReadFull returns nil once its buffer is full, or the stream's error before
\* (io.ErrUnexpectedEOF at its end); the body is closed.
ReadFullEnds(w, out) ==
    /\ down[w].at = "read"
    /\ out = "ok" <=> down[w].got = Batch!Length(wop[w])
    /\ Batch!EndOperation(w, out)
    /\ down' = [down EXCEPT ![w] = IdleDownload]
    /\ UNCHANGED << callVars, rangeProgress, fileProgress, local, remoteSize >>

Operation(w) ==
    \/ Start(w) \/ Download(w) \/ DownloadFails(w)
    \/ \E n \in 1 .. ChunkSize : ReadBody(w, n)
    \/ ReadUnmapped(w) \/ Report(w)
    \/ \E out \in {"ok", "err"} : ReadFullEnds(w, out)

\* The rest of the worker's loop.
Loop(w) ==
    /\ Batch!SendResponse(w) \/ Batch!ExitWorker(w)
    /\ UNCHANGED << callVars, downVars, remoteSize >>

WorkerStep(w) == ~crashed /\ (Operation(w) \/ Loop(w))

-----------------------------------------------------------------------------
\* Another client truncates the Azure file, once.
Shrink ==
    /\ phase # "properties"
    /\ remoteSize = size
    /\ \E n \in 0 .. (size - 1) : remoteSize' = n
    /\ UNCHANGED << batchVars, callVars, downVars >>

Terminated ==
    /\ crashed \/ (phase = "returned" /\ (ret = "none" \/ \A w \in Workers : wpc[w] = "exited"))
    /\ UNCHANGED vars

Next == CallerStep \/ (\E w \in Workers : WorkerStep(w)) \/ Shrink \/ Terminated

\* Goroutines are scheduled, and a stream delivers or fails (RetryReader's ReadReturns).
Fairness == WF_vars(CallerStep) /\ \A w \in Workers : WF_vars(WorkerStep(w))

Spec == Init /\ [][Next]_vars /\ Fairness

-----------------------------------------------------------------------------
(* Properties. *)

\* A nil error means that the buffer holds every byte the properties announced, even
\* if the Azure file shrank meanwhile, and that a local file has exactly that size.
NilMeansDownloaded ==
    verdict = "nil" => local = 0 .. (size - 1) /\ (target = "file" => length = size)

\* The progress reported is exact: the sum of the ranges' positions but for the
\* changes still waiting for progressLock, and the full size at a nil return.
ProgressExact ==
    /\ fileProgress = SumOf(rangeProgress) - SumOf([w \in Workers |-> down[w].diff])
    /\ verdict = "nil" => fileProgress = size

\* The call returns, its goroutines end, and the mapping is released.
DownloadEnds ==
    <>(crashed \/ (/\ phase = "returned" /\ ~mapped
                   /\ ret = "none" \/ \A w \in Workers : wpc[w] = "exited"))

\* ChangeLog.md:15: "Optimized error reporting and minimized panics. ... Several
\* functions now return an error": while the call waits for its ranges, an error of
\* the service does not end the process.
ServiceErrorIsReturned == phase = "transfer" => ~crashed
=============================================================================
