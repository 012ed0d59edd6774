# Verification of azure-storage-file-go

TLA+ models of `azfile`, the Go client library for Azure Files, with the TLC
configurations that check them on small instances and TLAPS proofs of what
matters most for every instance.  Paths below are relative to `src/`.

## 1. The system

`azfile` is a library: it has no process of its own. A program calls it, and it
talks HTTP to the file service. Its concurrency is in the first five components
below; the rest builds URLs and requests, and converts values between the
program's form and the service's.

| Component | Source | State it keeps | Operations | Interacts with |
|---|---|---|---|---|
| Parallel transfer | `azfile/highlevel.go` `doBatchTransfer` | two channels, a chunk counter, a response counter, a context | send closures, run them in worker goroutines, collect errors | upload, download |
| Upload | `azfile/highlevel.go` `UploadFileToAzureFile`, `UploadBufferToAzureFile` | a memory mapping, `fileProgress` under a lock, a `rangeProgress` per range | map, create, upload ranges, report, unmap | batch, `FileURL`, retry policy |
| Download | `azfile/highlevel.go` `DownloadAzureFileToFile`, `...ToBuffer` | the same, and the size `GetProperties` returned | resize, map, download ranges, report, unmap | batch, `FileURL`, retry reader |
| Retry reader | `azfile/zc_retry_reader.go`, getter in `azfile/url_file.go` | `info` (offset, count), `response` under a lock | `Read`, `Close` (from any goroutine) | getter, i.e. `FileURL.Download` |
| Retry policy | `azfile/zc_policy_retry.go` | loop variable, a context per try, the last response | try, classify, flush, sleep, wrap the body | pipeline below it, the caller's context |
| Responder, errors | `azfile/zz_generated_responder_policy.go`, `zc_storage_error.go` | none | validate a status, read an error body | generated clients, retry policy |
| Generated clients | `azfile/zz_generated_{file,share,directory,service}.go` | none | prepare a request, run the pipeline, decode | pipeline |
| Models, validation | `azfile/zz_generated_models.go`, `..._validation.go`, `zz_response_helpers.go` | none | header and XML accessors, constraints | clients |
| Pipeline, small policies | `azfile/zc_pipeline.go`, `zc_policy_{unique_request_id,telemetry,request_log}.go` | a try counter in the log policy | order of policies, headers, logging | retry policy |
| Credentials | `azfile/zc_credential_*.go` | account key | string to sign, HMAC | pipeline |
| URLs, URL parts | `azfile/url_*.go`, `parsing_urls.go` | none | forward, parse, format, page by marker | clients |
| SAS | `azfile/zc_sas_*.go`, `sas_service.go` | none | permissions, query parameters, signatures | URL parts |
| Mapping | `azfile/zc_mmf_{unix,windows}.go` | the mapping | map, unmap | upload, download |

What is hard here, and what correctness means for each part:

* **Concurrency.** The batch shares one buffer between workers without a lock,
  counts anonymous responses, and returns at the first error while workers are
  still running. Correct: disjoint slices, every chunk run once, nil only for a
  complete transfer, no goroutine stranded, no error lost. The reader may be
  closed by another goroutine at any line of `Read`. Correct: no stream leaked,
  no byte lost or repeated, `Read` always returns.
* **Failure.** Streams break after any byte, tries fail with their effect done
  or not, answers are lost. Correct: the caller gets the right bytes, and the
  verdict of the last try, and no try follows one that returned no error.
* **Resources.** Each try owns a context and maybe a body, the transfer owns a
  mapping. Correct: released on every path, and not too early.
* **Messages.** A request whose try has timed out may still reach the service,
  after later ones. Correct: the verdict tells what was done as far as anybody
  can know it, a confirmed write is not repeated, each try is signed as it is
  sent.
* **Conversions.** URLs are parsed and put together again around a signature
  somebody else made; values are stored as headers and XML and read back.
  Correct: what comes back is what was meant, and a signature still verifies.
* **Numbers.** A count of 0 means "to the end"; timeouts are cut to seconds;
  delays double until they overflow.

`PROJECT.json` lists each of these at its line, under `hazards`.

## 2. Modules

| Module | Models | Shape |
|---|---|---|
| `BatchTransfer` | `doBatchTransfer` | one action per channel operation of the caller and of a worker; an operation just ends `ok`, `err` or `panic` |
| `ChunkedTransfer` | what a caller of it is promised | abstract: a set of chunks done, a set failed, a verdict |
| `UploadFile` | the upload functions | `INSTANCE`s `BatchTransfer` on its own variables and replaces the end of an operation by the upload of a range: tries, body reads, progress |
| `DownloadFile` | the download functions | the same for the download of a range |
| `RetryReader` | `retryReader` and the getter of `DownloadResponse.Body` | `Read` cut at every point where another goroutine may run |
| `RetryPolicy` | the retry loop | one action per section of the loop; the pipeline below is a set of results |
| `RetryTiming` | `defaults`, `calcDelay`, the timeout of a try | operators over durations, driven by one action per try |
| `Operations` | the generated clients | one record per operation: what distinguishes its method, preparer and responder from the others' |
| `Settings` | `zz_response_helpers.go`, models, validation, preparers | one operator per direction of a conversion, and `Preserved`, the reference they are compared with |
| `ServiceClient` | a program calling the operations of one URL, down to the wire | `INSTANCE`s `RetryPolicy` and fills in what it leaves open: the pipeline, the responder, a network, the service |
| `FileURLs` | URL parts, constructors of URLs, SASs | operators over tokenised texts, driven by one action per constructor |
| `MCRetryTiming`, `MCServiceClient`, `MCFileURLs` | - | constants for TLC |
| `Sums` | - | the sum over a function |
| `BatchTransferProofs`, `UploadFileProofs`, `DownloadFileProofs`, `RetryReaderProofs`, `RetryPolicyProofs`, `RetryTimingProofs`, `ServiceClientProofs`, `FileURLsProofs` | - | theorems and proofs about the module of that name |

Operators whose comment starts with "Mutant of" are not part of the model: each
is a plausible bug, and replacing the original by it must break a property
(`mutants` in `PROJECT.json`).

### How states and actions correspond to the code

**BatchTransfer.** A closure is its chunk index; `Offset` and `Length` are the
arguments it passes on. `chunkIndex` is the producer loop's variable,
`operationChannel` and `operationResponseChannel` the buffered channels (a
response is the chunk whose `result` it carries), `wpc` and `wop` a worker's
place in its `range` loop and the closure it holds, `responses` the wait loop's
variable. `Produce` blocks at `parallelism` closures, `SendResponse` at
`numChunks` responses. `ReceiveResponse` cancels and returns at the first error.
A panic of an operation ends the process (`crashed`): it is in a goroutine where
nobody recovers it.

**UploadFile.** `phase` follows the calling goroutine: map, create, transfer,
returned. `Return` always unmaps, as the deferred call does. In an operation
`BeginTry` is the retry policy's `RewindBody`, `ReadBody` one read of the
transport together with the computation of `diff`, and `Report` the section
under `progressLock`; between the two other workers may report. `TryEnds` covers
every end of a try: stored and answered, stored and the answer lost, failed
before it was sent, failed for good. The Azure file is the set of bytes that
hold the local file's. Reading the body when the file is unmapped is a crash;
that the address may meanwhile be mapped to something else, whose bytes would be
uploaded, is left out, since the property about it is refuted by the crash.
`o.Progress` is taken to be set; without it `ReadBody` reports nothing.

**DownloadFile.** Similarly; `Check` holds the early return for size 0 and the
sanity check of the buffer's length, whose panic is in the caller's goroutine
(`verdict = "panic"`). `DownloadFails` is the nil dereference of line 184.
`Shrink` is another client that truncates the Azure file: a range past its end
is an error, a range across it ends early and `io.ReadFull` says so.

**RetryReader.** `offset` and `count` are `s.info`, `response` is `s.response`
as the number of the GET that made it, `open` the bodies not closed. A byte is
its offset in the file. `ConcurrentClose` can happen between any two steps and
closes only what `s.response` holds then. A read of a closed body fails with
"read on closed response body" or a `net.Error`, as the comment in the source
says. The caller reads until an error, as the `io.Reader` contract asks. The
range may end past the file, as in the tests, and `Overwrite` may resize the
file between any two steps: a body ends where the range or the file ends
(`BodyOf`), and a range that starts past the end is refused (`Satisfiable`);
both are the service's part. `stream.size` keeps the size the file had when the
body was opened, for `EOFMeansComplete`.

**RetryPolicy.** `Results` lists what the rest of the pipeline may return;
classes of errors instead of errors. `retryReadsFromSecondaryHost` returns `""`
always, so the arms for a secondary host cannot be reached and are left out.
`unsent` remembers the tries that began with the caller's context done. A body
that cannot be rewound, and a success without a response, are the two panics.

**RetryTiming.** A delay is a signed count of nanoseconds of `Width` bits. The
code's has 64; for TLC it has fewer, with delays that keep their proportions. The
jitter is any multiple of 1 / (10 `Grain`) from 0.8 to 1.3: `Grain` is as fine as
one likes, and 1.3 itself is there because the sum at line 116 may be rounded up.
The product is cut to a whole number towards zero, as the conversion to
`time.Duration` does, so 1 ns can become 0. A float too large for an integer
converts to the least or the greatest one, as processors differ. That a `float32`
has 24 significant bits is left out.

**Operations.** Every method of the generated clients has the same three parts,
so a record says all of it: verb and query, the headers it always sets, the
fields it sends, the status codes its responder accepts, what becomes of the
body, the fields it returns. `FileMethods`, ..., `ServiceMethods` are what the
wrappers in `url_*.go` offer. `UploadRange` and `ClearRange` are one method of the
generated client but two operations here: the value of `x-ms-write` and the
`Content-Length` tell the service which is meant. One segment of a listing is an operation; the loop
over markers is the program's.

**Settings.** `Encode` is what a wrapper and a preparer make of an argument,
`Decode` what the accessors of a response make of a field, `Accepted` the checks
that refuse an argument before anything is sent (among them `Download`'s, of the
MD5 of a whole file). Metadata names are letters and
a case, since a header keeps the letters only; of two names that differ in case
either value may win, as a Go map is ranged over in any order.

**ServiceClient.** The variables up to `wrapper` are `RetryPolicy`'s. A call
runs the policies above the retry policy once (`Begin`), and those below it once
per try (`StartTry`), by folding `Do` over `NewPipeline`; a policy that is put
elsewhere in that list changes what is signed and which id a try has. A request
in `network` may be delivered at any time or never, so it may overtake another
and outlive its call; `Deliver` is the service, which may fail before or after
it has acted, and whose answer counts only while its try waits. The service is
external: `Status` and `Effect` are what its operations are for and what the
responders expect, `Stored` what it makes of a value that was left empty: a
default quota, and the ContentType `application/octet-stream` if a file is
created without one, but not if its headers are set without one, as the tests
assert (`zt_url_file_test.go:823`, `zt_uploaddownload_test.go:207`, `:235`). `Skew` is how old a signed request may be. Three variables
record history for the properties only: `unknown`, the tries after which nobody
can know what was done; `applied`, the writes in the order they were done; `asked`,
the arguments behind each field the service holds, and whether they came with a
Create. `buildStringToSign` is the
list of what is signed, in place of its text.

**FileURLs.** A text is a sequence of tokens, so that splitting and joining are
what the code does, without characters: a name is one token, and a path has a
slash at each odd position and a name at each even one (`PathOf`). A query maps
a name *and its case* to its values, since parameters are looked up in any case
but not all are removed so; `Orders` is the order in which a map happens to be
ranged over. A time is the sequence of its components, up to a fraction of a
second, and a format is how many of them it shows; a fraction is read
after seconds, though no format has it, and never written. An address has one spelling that is
written and may have others that are read (`AddressOf`). A signature is the list of strings that were signed;
`SignedByService` (external) computes it again from the URL as the service
receives it. A refused signature leaves the state as it is. `asked` records what
the program has asked for so far; `Meant` says when a URL means that, and the
URLs a program starts from (`Given`) are any that do. A given SAS has a good
signature; `asWritten` says whether its times and addresses are spelled as the
library writes them, for only then is the signature promised to survive.

## 3. Runs

| Run | Bounds | Shows |
|---|---|---|
| `batch` | 7 bytes in chunks of 2 (four chunks, the last of 1), 3 workers | the safety of `doBatchTransfer`, that it implements `ChunkedTransfer`, that errors are reported and everything ends |
| `upload` | 5 bytes in ranges of 2, 2 workers, 2 tries | nil means uploaded, exact progress, the mapping outlives uploads unless the call fails, the call ends |
| `upload_unmap` | the same | **violation**: uploads read the file after it was unmapped |
| `download` | 5 bytes in ranges of 2, 2 workers, local lengths 4, 5, 6, one shrink | nil means downloaded, exact progress, the call ends |
| `download_panic` | the same | **violation**: an error of `Download` is a nil dereference |
| `reader` | files of 0, 2 or 4 bytes, one resize, read from 0 (to the end, 3 or 5 bytes), buffer 2, 2 retries | bytes in order, EOF at the end of the range or of the file and nowhere else, requests, leaks; every `Read` returns |
| `reader_etag` | as `reader` | **violation**: bytes of two versions are joined |
| `policy` | 3 tries | verdict, contexts, bodies, tries after the context ended; the loop ends |
| `timing_few` | 10 tries at 26 bits, jitter in steps of 0.05, defaults and the tests' options in proportion, deadlines around 0 and 1 s | bounds of delays and timeouts, delays do not shrink |
| `timing_many` | 30 tries at 24 bits, a delay of 3 | **violation**: the product wraps to a negative delay at try 23 |
| `client` | each kind of URL, 2 calls, 2 tries each, at most 2 tries without a definite answer, six sets of arguments | what a verdict says about the service, no confirmed write repeated, requests are what was asked for and correctly signed, values come back, bodies are closed |
| `urls` | 864 given URLs, up to 5 more made one from the other, 5 sets of values to sign | names, foreign parameters, snapshot and SAS survive every constructor |

The bounds are the least at which each case occurs: more chunks than workers
and than channel slots (a full operation channel, a worker with several chunks,
a queue left behind at an early return), a last chunk that
is shorter, a retry after a full and after a partial read, a `Read` that uses up
its retries, an exact multiple and a remainder of the buffer, a range inside,
across and past the end of a file that grows, shrinks or becomes empty, a first, a middle
and a last try; a request of the first call that arrives during the second, and
a retry of a write that was done; a URL that is parsed, signed and parsed again.
The arguments of `client` reach every arm of the conversions and every refusal;
the bound `MaxUnknown` is for time only: without it the properties were checked
for one kind of URL at a time. The proofs remove the bounds from the safety
properties of every module.

Deadlock is checked in every run: `Terminated`, `Done` or `Finished` names the
states in which the system may stop.

**Fairness.** The Go scheduler runs every runnable goroutine, hence weak
fairness of each goroutine's step (`CallerStep`, each `WorkerStep(w)`,
`ReaderStep`, `PolicyStep`). That an operation, a try or a stream's read ends at
all rests on the per-try timeout (`context.WithTimeout`), whose timer is fair in
`RetryPolicy` and part of the steps elsewhere. Nothing is assumed of other
goroutines that close the reader, of writers, of the caller's context or of the
caller closing a body. `client` and `urls` state safety only: that a call ends is
`RetryPolicy`'s `PolicyReturns`, and a network that loses everything is fair to
nobody.

## 4. Proofs

Every safety property of every passing run is a theorem of its specification,
for all values of the constants. They are assumed to be what the `ASSUME`s of
the component's module say, which TLC evaluates on each run:

* chunk and buffer sizes and numbers of tries are positive, workers finite in
  number and not none; a file read by `RetryReader` may have any size, also 0, and
  its range any offset and count;
* `RetryTiming`: options, defaults and deadlines are numbers in the range that
  `defaults()` and a `time.Duration` of `Width` bits leave them;
* `ServiceClient`: the arguments have the types of the Go signatures (`Typed` in
  `Settings`: an `int32` quota, pointers as optional values, slices as
  sequences). Values that validation refuses, empty ones and ranges past the end
  are among them;
* `FileURLs`: no name is a separator; a time to sign is zero or complete, and an
  address range does not have an end only (`IPRange.String` would drop it); the
  given URLs are `Meant`: their path is that of the names, each parameter of
  a SAS is there once, its times are in one of the library's three formats, with a
  fraction or not, and its addresses are addresses in any spelling, and its
  signature is what the service computes. Parameters given twice are left out.

Each proof has the same shape: an inductive invariant `IInv`, given as a
conjunction of named parts; a lemma per action that it is kept; the property from
it. `IInv` of each module was checked by TLC on the run's instance before it was proved.

* **BatchTransferProofs.** None of the safety properties is inductive: the wait
  loop only counts. `ChunkAccounting` adds where each chunk is: not yet sent; in
  `operationChannel`, in order; with exactly one worker; in
  `operationResponseChannel`, once; or received. The received ones are those in
  no other place, and the count is their number. `IInv` is that with `TypeOK`; each
  action moves one chunk from one place to the next. `SendNeverBlocks` follows
  because responses waiting are distinct chunks other than the sender's, and
  `NilMeansComplete` because all `NumChunks` chunks are received and
  `ChunksPartition` says that they cover the transfer. `Refinement` proves
  `Spec => Promise!Spec`. `OperationsApart` is what users of the batch need of it.
* **UploadFileProofs, DownloadFileProofs.** First the refinement: the steps of a
  transfer are steps of `BatchTransfer` or leave it alone (`UploadRefinesBatch`,
  `DownloadRefinesBatch`), so that the theorems of `BatchTransferProofs`, reached
  through `INSTANCE`, hold of the batch inside: two running operations have
  different ranges, a range that runs has no result yet, a nil return finds all
  ranges done and no worker running. On top of it `IInv` says how far the call is
  and what that means for the mapping (`CallInPhase`), what an operation's step
  means for its position and its unreported `diff` (`UploadInStep`), that a range
  done is stored and reported to its end (`RangeDone`), and that `fileProgress` is
  the sum of the ranges' positions less the `diff`s that wait for `progressLock`
  (`ProgressAdds`). The last is kept because a step changes one summand of each
  sum by the same amount (`SumChange`); at a nil return all summands are known,
  and add up to the size.
  A sum is a fold of the community modules, that is, a recursive function
  chosen by `CHOOSE`. That it exists, and what one more summand does to it, is
  shown by induction on the size of the domain, at the end of
  `BatchTransferProofs`. The induction is
  `SetInduction`: a set that has 0, and n + 1 with each n, has all numbers, which
  is `WFMin` for the well-founded order of the naturals. The library's own
  induction theorems take an operator as a parameter and cannot be used here; this
  one takes a set.
* **RetryReaderProofs.** `IInv` is `TypeOK`, `Bookkeeping` (the stream is at the
  next byte to deliver and ends where the range or the file it was opened on ends,
  `s.info` follows it; which response `Read` holds at each line) and
  `NoStreamLeaked`, together with `DeliveredInOrder`, `EOFMeansComplete`.
* **RetryPolicyProofs.** `IInv` describes the tries behind the loop variable
  (nothing held, retriable errors), those ahead (not begun) and the current one
  at each line.
* **RetryTimingProofs.** `TryTimeoutFits` holds for all options and deadlines.
  `DelayWithinBounds` and `DelayNeverShrinks` hold for every `Grain`, under the hypothesis
  `NothingWraps`: no product of `calcDelay`, with its jitter, reaches the width
  of a `time.Duration` within `LastTry` tries. The instance of `timing_few`
  satisfies it (TLC was asked); without it they are false, which is what
  `timing_many` shows. Powers of two are taken as numbers of subsets, about which
  the library has theorems. The exponential delays do not shrink because
  0.8 (2^t - 1) >= 1.3 (2^(t-1) - 1) for t > 0 (2 * 0.8 > 1.3), and truncation and
  the maximum keep the order.
* **ServiceClientProofs.** `IInv` has seven parts. `PolicyInv` is the invariant of
  `RetryPolicyProofs`, reached through `INSTANCE`: the steps that the client adds
  to the policy's are shown to be steps of it. `RequestInv` and `MessageInv`: the
  request the policy holds, and the copies under way, are what the preparer made,
  sent through the policies of `NewPipeline` in that order; the fold over the
  pipeline is computed for both credentials (`ThroughAbove`, `ThroughFrom`).
  `UnderWay`: a request under way has not been done, and its caller does not know
  of it, unless its try still waits. `Fresh`: nothing is known of tries that have
  not begun. `Definite`: of the writes whose callers have a definite answer each
  call did one, and the current call's is its last try's. `AnswerInv`: an answer
  says what was done. `VerdictMatchesEffect` and `ConfirmedOnce` (by counting)
  follow from the last four, `RequestAsAsked` and `OnlyDownloadStaysOpen` from the
  first three with lemmas about the table of operations: verb, query and marking
  headers tell any two operations apart that the responders treat differently
  (`OperationsApart`), accepted codes are success codes (`StatusAccepted`), the
  text of a range names the bytes asked for (`RangeNamed`).
  `ReadBack` has an invariant of its own, `ReadInv`: what the service holds, what
  each request carries and what the answer brings decodes to something `Preserved`
  of the argument behind it. It rests on a lemma per conversion (`QuotaKept`,
  `HeadersKept`, `PropertiesKept`, `PoliciesKept`, `MetadataKept`, ...), for every
  argument of the type that is not refused; what the service puts for an empty
  value comes in with `Stored`.
* **FileURLsProofs.** `IInv` is `Meant(kind, url, asked)`: what is assumed of a
  given URL holds of every URL made from it. The properties alone are not
  inductive. That a signature is valid after the next parse needs each parameter
  to be there once and, if the SAS is `asWritten`, in a format that is written back
  as it was read (`TimeTrip`, `RangeTrip`, `PermissionsKept`); of any other it is
  shown what it is rewritten to, and that this grants the same to the second
  (`Rewritten`, `TimeRewritten`, `GrantRewritten`); that it is valid after the next name
  needs to know what it was signed for: the account, the share of the URL, or its
  file, in which case no name can follow.
  *Path:* `NewFileURLParts` cuts a path at its slashes and `URL` joins the pieces.
  The pieces are adjacent parts of one path, so no induction is needed: a cut is
  at a known position, and joining adjacent parts gives the part from the first's
  start to the second's end (`Adjacent`, `CutPath`, `PathKept`, `PathGrows`).
  *Query:* the parameters that `URL` writes are those left over, the snapshot and the
  SAS, three sets with nothing in common (`QueryMade`, `QueryKept`, `SnapshotKept`).
  *SAS:* what is read from the new query is what was encoded (`ReadMade`,
  `SASParsed`), so a SAS is carried over (`SASKept`), survives one more name unless
  it is a file's (`SASGrown`), and a new one is signed over the text that the service
  reads (`FileSigned`, `AccountSigned`), however the program spells the file's path
  (`CanonicalPath`, `SpelledPath`).

Left to TLC: liveness (`ErrorReported`, `EverythingEnds`, `UploadEnds`,
`DownloadEnds`, `ReadReturns`, `PolicyReturns`), which needs `ENABLED`.

## 5. Findings

Each is a run that TLC refutes, quoted with its lines in `PROJECT.json`.

1. The cancel of `highlevel.go:310` cancels a context nobody uses, so workers go
   on after an error, and the deferred unmap (`highlevel.go:118`, `:254`) pulls
   the memory from under them.
2. `highlevel.go:183` ignores an error, and `:184` dereferences nil.
3. The `ETag` in `HTTPGetterInfo` is never sent, so a download may mix versions.
4. The exponential delay is multiplied in 64 bits before it is cut to the maximum
   (`zc_policy_retry.go:106`, `:117`): with a `RetryDelay` of 3 s the product is
   negative at try 33, and that try does not wait. With the default of 4 s the
   jittered float of line 116 can leave the range at try 32 already.

Noticed while modelling, and excluded from or allowed for in the properties:

* `MaxRetryRequests` is documented per reader (`zc_retry_reader.go:36-38`), but its
  counter is local to `Read` (`:104`, `:142`): each `Read` may use it up again. TLC
  refutes `gets <= MaxRetryRequests` on the instance of `reader`.
* A SAS time with a fraction of a second is read and written back without it
  (`zc_sas_query_params.go:57`), under the signature made with it, and an address
  in another spelling is rewritten too (`:205-208`). A test expects the former
  (`zt_parsing_url_test.go:184`, `:208`). The signature part of `SASIntact` is
  conditional on it, and is refuted on the instance of `urls` without the condition.
* `NewFileURLParts` reads `sharesnapshot` in any case but deletes the lower-case
  spelling only (`parsing_urls.go:99`, `:102`), against its comment: `WithSnapshot("")`
  on such a URL leaves the snapshot in it, `WithSnapshot` of another names two.
  `SnapshotAsAsked` is conditional on the spelling, and refuted without it.
* The literal `Z` of a SAS time is written without a conversion to UTC; a time to
  sign is taken to be in UTC.
* `io.EOF` is handed on with `Count > 0` (`zc_retry_reader.go:136`) when the file is
  shorter than the range: `EOFMeansComplete` allows for that, and for nothing else.
* A success whose body cannot be parsed is retried (`zc_policy_retry.go:218`); only
  reads have such bodies.
* `isIPEndpointStyle` indexes an empty string for the host `:80`.
* A listing whose 200 answer has an empty body has a nil `Marker`, which starts
  the listing again; a metrics element missing from the answer is a nil
  dereference in `toMp`.

## 6. Plan

1. *(done)* `BatchTransfer`, `ChunkedTransfer`, `RetryReader`, `RetryPolicy`,
   `RetryTiming`, `UploadFile`, `DownloadFile`; proofs about the first, third and
   fourth.
2. *(done)* `Operations`, `Settings` and `ServiceClient`: the generated clients,
   the pipeline and the credential over a service that may lose answers, composed
   with `RetryPolicy`.
3. *(done)* `FileURLs`: URL parts, constructors, SASs.
4. *(done)* Proofs about `UploadFile`, `DownloadFile`, `RetryTiming` and
   `ServiceClient`.
5. *(done)* Proofs about `FileURLs`. Three things in the model were restated so
   that it can be reasoned about: a path by positions (`PathOf`), the flags of a
   permission letter by letter, and what the runs' given URLs have in common as an
   assumption (`Meant`).
6. The safety part of liveness: that a step of the loops of `BatchTransfer`,
   `RetryReader` and `RetryPolicy` decreases a measure, as an action property, so
   that only fairness is left to TLC.

## 7. Not modelled

* The wording of errors and logs, the log policy's levels and its redaction of
  signatures, the text of the user agent: no state depends on them.
* Accessors that return one header as it is, the copying of CORS rules, the
  entries of a listing, constraints that no client uses, the lists of service
  codes.
* The HMAC, taken as injective; the random UUID, taken as one that no other call
  has; HTTP and the pipeline library, which are outside this repository.
* Memory mapping on Windows, and the system calls of the Unix build.
* The arms for a secondary host: `retryReadsFromSecondaryHost` always returns
  `""`, so they are dead code.
* A transport that still reads the body of a failed try while the next try
  rewinds it (`zc_policy_retry.go:165`): `UploadFile` lets a try end only when
  its reads have; whether they can overlap depends on the HTTP client.
