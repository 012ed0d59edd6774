---------------------------- MODULE RetryReader ----------------------------
(***************************************************************************)
(* retryReader (azfile/zc_retry_reader.go), the body of a file download:    *)
(* Read reads from the current response and, when the stream fails with an  *)
(* error it may retry, issues a new GET for the bytes still missing.  One   *)
(* goroutine reads; Close may be called by any other goroutine while it     *)
(* does, to force a retry.                                                  *)
(*                                                                         *)
(* The getter is the one DownloadResponse.Body builds (azfile/url_file.go): *)
(* it downloads [Offset, Offset + Count) of whatever the file holds now.    *)
(* A byte is identified with its offset in the file, and the content of the *)
(* file with a version number that a concurrent writer increases; a writer  *)
(* may leave a file of another size, and a range may end past the file.     *)
(***************************************************************************)
EXTENDS Integers, Sequences

CONSTANTS
    FileSizes,               \* the sizes writers leave the file with
    StartOffset,             \* HTTPGetterInfo.Offset of the first download
    StartCounts,             \* the values HTTPGetterInfo.Count may start with
    BufferSize,              \* len(p) of each Read
    MaxRetryRequests,        \* RetryReaderOptions.MaxRetryRequests
    TreatEarlyCloseAsError,  \* RetryReaderOptions.TreatEarlyCloseAsError
    MaxVersion               \* bound: how often the file's content changes, plus one

CountToEnd == 0
NoResponse == 0

ASSUME FileAssumption == FileSizes \subseteq Nat /\ StartOffset \in Nat
ASSUME CountAssumption == StartCounts \subseteq Nat
ASSUME OptionAssumption ==
    /\ BufferSize \in Nat \ {0}
    /\ MaxRetryRequests \in Nat
    /\ TreatEarlyCloseAsError \in BOOLEAN
    /\ MaxVersion \in Nat \ {0}

VARIABLES
    startCount,     \* the Count the reader was made with
    offset, count,  \* s.info.Offset and s.info.Count
    response,       \* s.response, as the number of the GET that returned it, or NoResponse
    pc,             \* where Read is; "idle" between calls
    try,            \* Read's loop variable
    resp,           \* Read's resp
    failure,        \* the error of the last Body.Read and the bytes it came with
    stream,         \* the latest response's body: next byte, end, and the file's version and size
    open,           \* the responses whose body is not closed
    gets,           \* getter calls so far
    delivered,      \* the bytes Read has given the caller, in order
    versions,       \* the versions those bytes were read from
    version, size,  \* the file's current version and size
    caller          \* "reading", then the error that ended it, then "closed"

info == << startCount, offset, count >>
readVars == << pc, try, resp, failure >>
output == << delivered, versions >>
file == << version, size >>
vars == << info, response, readVars, stream, open, gets, output, file, caller >>

countWasBounded == startCount # CountToEnd

\* One past the last byte of c bytes from o in a file of sz bytes (CountToEnd: to the end).
RangeEnd(o, c, sz) == IF c = CountToEnd \/ o + c > sz THEN sz ELSE o + c

\* The service refuses a range that starts at or past the end of the file; the whole
\* of an empty file is not a range.
Satisfiable(o, c, sz) == o < sz \/ (o = 0 /\ c = CountToEnd)

\* The body of a response to a GET for c bytes from o, with the file as it is now.
BodyOf(o, c) == [pos |-> o, end |-> RangeEnd(o, c, size), ver |-> version, size |-> size]

\* NewRetryReader, given the response of the first GET.
Init ==
    /\ startCount \in StartCounts
    /\ offset = StartOffset
    /\ count = startCount
    /\ response = 1
    /\ pc = "idle"
    /\ try = 0
    /\ resp = NoResponse
    /\ failure = [kind |-> "none", n |-> 0]
    /\ version = 1
    /\ size \in FileSizes
    /\ Satisfiable(StartOffset, startCount, size)
    /\ stream = BodyOf(StartOffset, startCount)
    /\ open = {1}
    /\ gets = 0
    /\ delivered = << >>
    /\ versions = {}
    /\ caller = "reading"

-----------------------------------------------------------------------------
(* Read. *)

\* Give the caller the n bytes at the head of the stream.
Deliver(n) ==
    /\ delivered' = delivered \o [k \in 1 .. n |-> stream.pos + k - 1]
    /\ versions' = IF n > 0 THEN versions \cup {stream.ver} ELSE versions
    /\ stream' = [stream EXCEPT !.pos = @ + n]

CallRead ==
    /\ pc = "idle" /\ caller = "reading"
    /\ pc' = "top"
    /\ try' = 0
    /\ UNCHANGED << info, response, resp, failure, stream, open, gets,
                    output, file, caller >>

\* Mutant of LoadResponse: without the test that all the bytes have been read.
LoadResponseAlways ==
    /\ pc = "top"
    /\ resp' = response
    /\ pc' = IF response = NoResponse THEN "get" ELSE "read"
    /\ UNCHANGED << info, response, try, failure, stream, open,
                    gets, output, file, caller >>

\* The head of the loop: there are bytes to read, and resp is s.response.
LoadResponse ==
    /\ pc = "top"
    /\ ~(countWasBounded /\ count = CountToEnd)
    /\ resp' = response
    /\ pc' = IF response = NoResponse THEN "get" ELSE "read"
    /\ UNCHANGED << info, response, try, failure, stream, open,
                    gets, output, file, caller >>

\* Mutant of AllRead: a count of 0 always means that nothing is left.
AllReadUnlessBounded ==
    /\ pc = "top" /\ count = CountToEnd
    /\ pc' = "idle" /\ caller' = "EOF"
    /\ UNCHANGED << info, response, try, resp, failure, stream, open, gets, output, file >>

\* return 0, io.EOF: the count asked for has been read.
AllRead ==
    /\ pc = "top"
    /\ countWasBounded /\ count = CountToEnd
    /\ pc' = "idle"
    /\ caller' = "EOF"
    /\ UNCHANGED << info, response, try, resp, failure, stream,
                    open, gets, output, file >>

\* The getter returns a response for the bytes of s.info that the file has.
GetSucceeds ==
    /\ pc = "get"
    /\ Satisfiable(offset, count, size)
    /\ gets' = gets + 1
    /\ resp' = gets + 2
    /\ open' = open \cup {gets + 2}
    /\ stream' = BodyOf(offset, count)
    /\ pc' = "set"
    /\ UNCHANGED << info, response, try, failure, output,
                    file, caller >>

\* The getter's error is returned as it is.
GetFails ==
    /\ pc = "get"
    /\ gets' = gets + 1
    /\ pc' = "idle"
    /\ caller' = "error"
    /\ UNCHANGED << info, response, try, resp, failure, stream, open,
                    output, file >>

\* s.setResponse(newResponse)
SetResponse ==
    /\ pc = "set"
    /\ response' = resp
    /\ pc' = "read"
    /\ UNCHANGED << info, try, resp, failure, stream, open, gets,
                    output, file, caller >>

\* Body.Read returns n bytes with nil or io.EOF: advance s.info and return.
BodyReadSucceeds(n, eof) ==
    /\ pc = "read"
    /\ resp \in open
    /\ n <= stream.end - stream.pos
    /\ IF eof THEN n = stream.end - stream.pos ELSE n > 0
    /\ Deliver(n)
    /\ offset' = offset + n
    /\ count' = IF count # CountToEnd THEN count - n ELSE count
    /\ pc' = "idle"
    /\ caller' = IF eof THEN "EOF" ELSE caller
    /\ UNCHANGED << startCount, response, try, resp, failure, open, gets, file >>

\* Mutant of BodyReadFails: s.info is advanced before the error is looked at.
BodyReadFailsAdvancing(n, kind) ==
    /\ pc = "read"
    /\ kind \in IF resp \in open THEN {"net", "other"} ELSE {"closed", "net"}
    /\ n <= stream.end - stream.pos
    /\ failure' = [kind |-> kind, n |-> n]
    /\ offset' = offset + n
    /\ count' = IF count # CountToEnd THEN count - n ELSE count
    /\ pc' = "fail"
    /\ UNCHANGED << startCount, response, try, resp, stream, open, gets, output, file,
                    caller >>

\* Body.Read fails, perhaps after n bytes.  A body closed under the read gives
\* "read on closed response body" or a net.Error, depending on timing.
BodyReadFails(n, kind) ==
    /\ pc = "read"
    /\ kind \in IF resp \in open THEN {"net", "other"} ELSE {"closed", "net"}
    /\ n <= stream.end - stream.pos
    /\ failure' = [kind |-> kind, n |-> n]
    /\ pc' = "fail"
    /\ UNCHANGED << info, response, try, resp, stream, open, gets,
                    output, file, caller >>

\* Mutant of CloseStream: the failed stream is dropped without being closed.
CloseStreamSkipped ==
    /\ pc = "fail"
    /\ pc' = "decide"
    /\ UNCHANGED << info, response, try, resp, failure, stream,
                    open, gets, output, file, caller >>

\* Mutant of CloseStream: s.Close() is called with responseMu held and waits for itself.
CloseStreamLocked == pc = "fail" /\ FALSE /\ UNCHANGED vars

\* s.Close()
CloseStream ==
    /\ pc = "fail"
    /\ open' = open \ {response}
    /\ pc' = "decide"
    /\ UNCHANGED << info, response, try, resp, failure, stream,
                    gets, output, file, caller >>

wasRetryableEarlyClose == failure.kind = "closed" /\ ~TreatEarlyCloseAsError

\* Mutant of willRetry: one request too many.
WillRetryOneMore == (failure.kind = "net" \/ wasRetryableEarlyClose) /\ try <= MaxRetryRequests

willRetry == (failure.kind = "net" \/ wasRetryableEarlyClose) /\ try < MaxRetryRequests

\* s.setResponse(nil), then go round the loop again or return n, err.
Decide ==
    /\ pc = "decide"
    /\ response' = NoResponse
    /\ IF willRetry
         THEN /\ pc' = "top"
              /\ try' = try + 1
              /\ UNCHANGED << stream, output, caller >>
         ELSE /\ pc' = "idle"
              /\ caller' = "error"
              /\ Deliver(failure.n)
              /\ UNCHANGED try
    /\ UNCHANGED << info, resp, failure, open, gets, file >>

BodyRead ==
    \E n \in 0 .. BufferSize :
        \/ \E eof \in BOOLEAN : BodyReadSucceeds(n, eof)
        \/ \E kind \in {"net", "other", "closed"} : BodyReadFails(n, kind)

ReadStep ==
    \/ LoadResponse \/ AllRead
    \/ GetSucceeds \/ GetFails \/ SetResponse
    \/ BodyRead \/ CloseStream \/ Decide

-----------------------------------------------------------------------------
(* The rest of the program and of the world. *)

\* Close from another goroutine: it sees the response Read has published, if any.
ConcurrentClose ==
    /\ caller = "reading"
    /\ open' = open \ {response}
    /\ UNCHANGED << info, response, readVars, stream, gets, output, file, caller >>

\* The reading goroutine closes the reader, having read all it wants.
FinalClose ==
    /\ pc = "idle" /\ caller # "closed"
    /\ open' = open \ {response}
    /\ caller' = "closed"
    /\ UNCHANGED << info, response, readVars, stream, gets, output, file >>

\* Another client overwrites the file, and may resize it.
Overwrite ==
    /\ version < MaxVersion
    /\ version' = version + 1
    /\ size' \in FileSizes
    /\ UNCHANGED << info, response, readVars, stream, open, gets,
                    output, caller >>

Terminated == caller = "closed" /\ UNCHANGED vars

ReaderStep == CallRead \/ ReadStep \/ FinalClose

Next == ReaderStep \/ ConcurrentClose \/ Overwrite \/ Terminated

\* The reading goroutine runs whenever it can; nothing obliges the others to.
Spec == Init /\ [][Next]_vars /\ WF_vars(ReaderStep)

-----------------------------------------------------------------------------
(* Properties. *)

TypeOK ==
    /\ startCount \in StartCounts
    /\ offset \in Nat
    /\ count \in Nat
    /\ response \in Nat
    /\ pc \in {"idle", "top", "get", "set", "read", "fail", "decide"}
    /\ try \in 0 .. MaxRetryRequests
    /\ resp \in Nat
    /\ failure \in [kind : {"none", "net", "other", "closed"}, n : 0 .. BufferSize]
    /\ stream \in [pos : Nat, end : Nat, ver : 1 .. MaxVersion, size : FileSizes]
    /\ open \in SUBSET (Nat \ {NoResponse})
    /\ gets \in Nat
    /\ delivered \in Seq(Nat)
    /\ versions \in SUBSET (1 .. MaxVersion)
    /\ version \in 1 .. MaxVersion
    /\ size \in FileSizes
    /\ caller \in {"reading", "EOF", "error", "closed"}

\* However many streams fail and whoever closes them, the caller receives the bytes
\* from StartOffset on, each once and in order, and never more than it asked for.
DeliveredInOrder ==
    /\ countWasBounded => Len(delivered) <= startCount
    /\ \A k \in 1 .. Len(delivered) : delivered[k] = StartOffset + k - 1

\* io.EOF with fewer bytes than were asked for means that the file ended there when the
\* stream was opened, because the range passed its end or a writer had cut it; no other
\* sequence of failures and new streams makes it come early (zc_retry_reader.go:106, 131).
EOFMeansComplete ==
    caller = "EOF" =>
        \/ countWasBounded /\ Len(delivered) = startCount
        \/ StartOffset + Len(delivered) = stream.size

\* A retry asks for exactly the bytes that are missing.  In particular a bounded
\* count never reaches the getter as 0, which CountToEnd would turn into the rest
\* of the file.
RequestsMissingBytes ==
    pc = "get" =>
        /\ offset = StartOffset + Len(delivered)
        /\ countWasBounded => count > 0 /\ offset + count = StartOffset + startCount

\* No stream is left open behind the reader: only the response it holds, or the one
\* it has just received, may be open, and none is once the caller has closed it.
NoStreamLeaked ==
    /\ open \subseteq {response} \cup (IF pc = "set" THEN {resp} ELSE {})
    /\ caller = "closed" => open = {}

\* The stream is always where the next byte to deliver is and ends where the range or
\* the file ends; s.info follows the stream until an error ends the reading.
StreamPosition ==
    /\ stream.pos = StartOffset + Len(delivered)
    /\ stream.end = RangeEnd(StartOffset, startCount, stream.size)
    /\ stream.pos <= stream.end
    /\ caller = "reading" => offset = stream.pos
    /\ countWasBounded => offset + count = StartOffset + startCount
    /\ ~countWasBounded => count = CountToEnd
    /\ pc \in {"fail", "decide"} => failure.n <= stream.end - stream.pos

\* Which response Read holds at each point.
ResponseHeld ==
    /\ caller # "reading" => pc = "idle"
    /\ caller = "reading" /\ pc = "idle" => response # NoResponse
    /\ pc = "get" => response = NoResponse
    /\ pc = "set" => response = NoResponse /\ resp # NoResponse
    /\ pc \in {"read", "fail", "decide"} => resp = response /\ response # NoResponse
    /\ pc = "decide" => open = {}

\* What Read's loop maintains from one line to the next (zc_retry_reader.go:104-156).
Bookkeeping == StreamPosition /\ ResponseHeld

\* Every Read returns, however often another goroutine closes the reader under it.
ReadReturns == (pc = "top") ~> (pc = "idle")

\* zc_retry_reader.go:26: "ETag specifies the resource's etag that should be used when
\* creating the HTTP GET request's If-Match header": the bytes delivered to the
\* caller all come from one version of the file.
SingleVersion == \A u, v \in versions : u = v
=============================================================================
