--------------------------- MODULE ServiceClient ---------------------------
(***************************************************************************)
(* A program that calls the operations of one URL, one after the other: the *)
(* wrapper and the generated client (table Operations, values by Settings), *)
(* the pipeline that NewPipeline assembles, and the responder.  The retry   *)
(* policy is RetryPolicy's; the rest of the pipeline below it, which        *)
(* RetryPolicy leaves open, is here.                                        *)
(*                                                                         *)
(* The network loses, delays and reorders requests, and loses answers; a    *)
(* request that outlives its try may reach the service at any later time.   *)
(* The service is external: it does what an operation's name says, answers  *)
(* with the status codes its documentation lists, and may fail before or    *)
(* after it has done so.                                                    *)
(***************************************************************************)
EXTENDS Integers, Sequences, FiniteSets, Operations, Settings

CONSTANTS
    MaxTries,   \* RetryOptions.MaxTries
    MaxCalls,   \* bound: calls the program makes
    MaxUnknown, \* bound: tries that end without a definite answer
    Skew,       \* how old a signed request the service accepts
    Asked,      \* bound: the arguments the program gives, as records of all fields
    Credentials, \* bound: per kind of URL, the credentials its pipeline is made with
    Positions   \* bound: the positions in a file at which ranges are compared

ASSUME MaxTriesAssumption == MaxTries \in Nat \ {0}

ASSUME AskedAssumption == \A a \in Asked : Typed(a)

ASSUME PositionsAssumption == Positions \subseteq Nat

VARIABLES pc, try, ctxDone, tryCtx, unsent, err, body, wrapper

Policy == INSTANCE RetryPolicy

VARIABLES
    kind,       \* the URL's: a member of DOMAIN Methods
    cred,       \* "sharedKey" or "anonymous"
    call,       \* the number of calls begun
    request,    \* the last call's request, as the retry policy got it
    network,    \* requests sent and not delivered; one that never is, is lost
    answer,     \* the answer to the current try: Absent, or its status and fields
    now,        \* the clock, which moves while the retry policy sleeps
    resource,   \* what the service holds at the URL
    asked,      \* per field, the value that the write the service did last asked for,
                \* and whether that was the operation that creates the resource
    applied,    \* the writes the service did, as << call, try >>, in order
    unknown     \* the tries that left the program without a definite answer

policyVars == << pc, try, ctxDone, tryCtx, unsent, err, body, wrapper >>
callVars == << kind, cred, call, request >>
serviceVars == << resource, asked, applied >>
vars == << policyVars, callVars, network, answer, now, serviceVars, unknown >>

-----------------------------------------------------------------------------
(* The request. *)

\* The preparer of o: what the service needs to know the operation, and the fields.
Prepare(o, fields) ==
    [op |-> o, verb |-> o.verb, restype |-> o.restype, comp |-> o.comp, marks |-> o.marks,
     fields |-> fields, agent |-> Absent, id |-> Absent, timeout |-> Absent, date |-> Absent,
     signature |-> Absent, from |-> << 0, 0 >>, asked |-> << >>]

\* Mutant of NewPipeline: the credential is above the retry policy.
NewPipelineSigningFirst ==
    << "Telemetry", "UniqueRequestID" >>
      \o (IF cred = "anonymous" THEN << >> ELSE << "SharedKey" >>)
      \o << "Retry", "RequestLog" >>

\* From the API to the wire; the responder follows.
NewPipeline ==
    << "Telemetry", "UniqueRequestID", "Retry" >>
      \o (IF cred = "anonymous" THEN << >> ELSE << "SharedKey" >>)
      \o << "RequestLog" >>

\* Fields that travel in the body of the request, which is not signed.
BodyFields == {"properties", "policies"}

\* The method, the headers of the service and the query parameters; not User-Agent.
buildStringToSign(r) ==
    << r.verb, r.restype, r.comp, r.marks,
       [f \in DOMAIN r.fields \ BodyFields |-> r.fields[f]], r.id, r.timeout, r.date >>

Sign(r) ==
    LET dated == [r EXCEPT !.date = IF @ = Absent THEN Sent(now) ELSE @] IN
    [dated EXCEPT !.signature = Sent(buildStringToSign(dated))]

Telemetry(r) == [r EXCEPT !.agent = Sent("Azure-Storage")]

UniqueRequestID(r, c, n) == [r EXCEPT !.id = IF @ = Absent THEN Sent(<< c, n >>) ELSE @]

\* The timeout that the retry policy sets is shorter when the deadline is nearer.
TimeoutOfTry(r, n) == [r EXCEPT !.timeout = Sent(MaxTries - n)]

\* What a policy does to the request it passes on, in try n of call c (0: before any).
Do(policy, r, c, n) ==
    CASE policy = "Telemetry" -> Telemetry(r)
      [] policy = "UniqueRequestID" -> UniqueRequestID(r, c, n)
      [] policy = "Retry" -> TimeoutOfTry(r, n)
      [] policy = "SharedKey" -> Sign(r)
      [] policy = "RequestLog" -> r

RetryIndex == CHOOSE i \in DOMAIN NewPipeline : NewPipeline[i] = "Retry"
AboveRetry == SubSeq(NewPipeline, 1, RetryIndex - 1)
FromRetry == SubSeq(NewPipeline, RetryIndex, Len(NewPipeline))

\* The request after the policies of seq, in try n of call c.
Through(seq, r, c, n) == FoldLeft(LAMBDA q, policy : Do(policy, q, c, n), r, seq)

-----------------------------------------------------------------------------
(* The program's side of a call. *)

Returned == pc \in {"returned", "closed"}

\* The last call is over, and its body, if it was given one, is closed.
Idle ==
    /\ pc \in {"idle", "refused", "returned", "closed"}
    /\ \A t \in Policy!Tries : body[t] # "open"

Refuse(o, a) ==
    /\ \E f \in o.sends : ~Accepted(f, a[f])
    /\ pc' = "refused"
    /\ UNCHANGED << try, ctxDone, tryCtx, unsent, err, body, wrapper, request >>

MetadataSent(o, a) == IF "metadata" \in o.sends THEN MetadataHeaders(a.metadata) ELSE {<< >>}

\* The policies above the retry policy run, then the retry policy starts afresh.
Begin(o, a) ==
    /\ \A f \in o.sends : Accepted(f, a[f])
    /\ \E metadata \in MetadataSent(o, a) :
         LET fields == [f \in o.sends |-> IF f = "metadata" THEN metadata ELSE Encode(f, a[f])] IN
         request' = [Through(AboveRetry, Prepare(o, fields), call + 1, 0) EXCEPT !.asked = a]
    /\ pc' = "sleep" /\ try' = 1 /\ ctxDone' = FALSE /\ unsent' = {} /\ wrapper' = 0
    /\ tryCtx' = [t \in Policy!Tries |-> "none"]
    /\ err' = [t \in Policy!Tries |-> "none"]
    /\ body' = [t \in Policy!Tries |-> "none"]

Call(o, a) ==
    /\ Idle
    /\ call < MaxCalls
    /\ call' = call + 1
    /\ Refuse(o, a) \/ Begin(o, a)
    /\ answer' = Absent
    /\ UNCHANGED << kind, cred, network, now, serviceVars, unknown >>

\* A try copies the request and sends it through the rest of the pipeline, unless
\* the caller's context is done.
StartTry ==
    /\ Policy!StartTry
    /\ network' = IF ctxDone THEN network
                  ELSE network \cup {[Through(FromRetry, request, call, try) EXCEPT !.from = << call, try >>]}
    /\ answer' = Absent
    /\ UNCHANGED << callVars, now, serviceVars, unknown >>

-----------------------------------------------------------------------------
(* The way back: the transport, the responder, the retry policy. *)

Temporary(status) == status \in {500, 503}
isSuccessStatusCode(status) == status \in {200, 201, 202, 204, 206}

Failed(errors) == [err : errors, body : {"closed"}]

\* What validateResponse makes of a status it was not told to accept: a StorageError,
\* or what reading the body returned.
ErrorOf(status) ==
    {IF Temporary(status) THEN "temporary"
     ELSE IF isSuccessStatusCode(status) THEN "successCode" ELSE "fatal", "net", "other"}

\* Mutant of Respond: a discarding responder leaves the body open.
RespondUnclosed(o, status) ==
    IF status \notin o.ok THEN Failed(ErrorOf(status))
    ELSE CASE o.reply = "discard" -> [err : {Policy!NoError}, body : {"open"}]
           [] o.reply = "open" -> [err : {Policy!NoError}, body : {"open"}]
           [] o.reply = "xml" -> Failed({Policy!NoError, "net", "other", "successCode"})

\* The responder of o.  Parsing may fail on reading ("net", "other") or on the text.
Respond(o, status) ==
    IF status \notin o.ok THEN Failed(ErrorOf(status))
    ELSE CASE o.reply = "discard" -> Failed({Policy!NoError})
           [] o.reply = "open" -> [err : {Policy!NoError}, body : {"open"}]
           [] o.reply = "xml" -> Failed({Policy!NoError, "net", "other", "successCode"})

\* A definite answer is a success, a refusal, or that nothing was sent.
NoteTry(e) ==
    /\ unknown' = IF e \in {"net", "other", "temporary"} /\ try \notin unsent
                  THEN unknown \cup {<< call, try >>} ELSE unknown
    /\ Cardinality(unknown') <= MaxUnknown

AnswerArrives(r) ==
    /\ answer # Absent
    /\ r \in Respond(request.op, answer[1].status)
    /\ Policy!DoReturns(r)
    /\ NoteTry(r.err)
    /\ UNCHANGED << callVars, network, answer, now, serviceVars >>

\* No answer in time, or a broken connection; the request may still be under way.
NoAnswer ==
    /\ Policy!DoReturns([err |-> "net", body |-> "nil"])
    /\ NoteTry("net")
    /\ answer' = Absent
    /\ UNCHANGED << callVars, network, now, serviceVars >>

\* The transport cannot send the request, and says so for good.
CannotSend ==
    /\ \E m \in network : m.from = << call, try >> /\ network' = network \ {m}
    /\ Policy!DoReturns([err |-> "netFatal", body |-> "nil"])
    /\ UNCHANGED << callVars, answer, now, serviceVars, unknown >>

\* The retry policy sleeps before another try.
PolicyDecides ==
    /\ \/ (Policy!GiveUp \/ Policy!Succeed) /\ UNCHANGED now
       \/ Policy!Retry /\ now' = now + (IF try < MaxTries THEN 1 ELSE 0)
    /\ UNCHANGED << callVars, network, answer, serviceVars, unknown >>

\* The program cancels the call, or closes the body it was given.  (A cancellation between
\* the end of a try and its classification is one just before that end.)
ProgramActs ==
    /\ (pc \in {"sleep", "do"} /\ Policy!ContextEnds) \/ Policy!CloseBody
    /\ UNCHANGED << callVars, network, answer, now, serviceVars, unknown >>

-----------------------------------------------------------------------------
(* The service and the network. *)

Signature(o) == << o.verb, o.restype, o.comp, o.marks >>

\* The service operation that a request denotes; Resize and SetHTTPHeaders are one.
Denoted(m) == CHOOSE o \in Operations : Signature(o) = Signature(m)

Authorized(m) ==
    cred = "sharedKey" => /\ m.signature = Sent(buildStringToSign(m))
                          /\ now - m.date[1] <= Skew

Reads == {o \in Operations : o.verb \in {"GET", "HEAD"}}
Creates == {fileCreate, shareCreate, directoryCreate}
Deletes == {fileDelete, shareDelete, directoryDelete}

Status(m) ==
    LET o == Denoted(m) IN
    CASE ~Authorized(m) -> 403
      [] o \in {shareCreate, directoryCreate} /\ resource.present -> 409
      [] o \in Creates -> 201
      [] o = fileStartCopy -> IF resource.copying THEN 409 ELSE 202
      [] ~resource.present -> 404
      [] o = shareDelete /\ resource.snapshots > 0 /\ m.fields.deleteSnapshots = Absent -> 409
      [] o \in Deletes \cup {serviceSetProperties} -> 202
      [] o \in {shareCreateSnapshot, fileUploadRange, fileClearRange} -> 201
      [] o = fileAbortCopy -> IF resource.copying THEN 204 ELSE 409
      [] o = fileDownload -> IF m.fields.downloadRange.range = Absent THEN 200 ELSE 206
      [] OTHER -> 200

\* The fields of the resource that a request sets.
Written(m) ==
    (DOMAIN m.fields \cap DOMAIN resource.fields)
      \ (IF Denoted(m) \in {fileStartCopy, shareCreateSnapshot} THEN {"metadata"} ELSE {})

\* The fields whose former value does not survive it.
Forgotten(m) ==
    IF Denoted(m) \in Creates \cup Deletes \cup {fileStartCopy, fileAbortCopy}
      THEN DOMAIN resource.fields
      ELSE IF Denoted(m) = fileSetHTTPHeaders \/ Denoted(m) = fileResize
        THEN {"length", "headers"} ELSE {}

DefaultQuota == 5

\* What the service stores for the value w of field f; the tests assert the ContentType.
Stored(f, w, creates) ==
    CASE f = "quota" /\ w = Absent -> Sent(DefaultQuota)
      [] f = "headers" /\ creates /\ w.ContentType = Sent(<< >>) ->
           [w EXCEPT !.ContentType = Sent(DefaultContentType)]
      [] OTHER -> w

Effect(m) ==
    LET o == Denoted(m) IN
    /\ resource' \in
         {[present |-> o \notin Deletes,
           snapshots |-> IF o \in Deletes THEN 0
                         ELSE resource.snapshots + (IF o = shareCreateSnapshot THEN 1 ELSE 0),
           copying |-> copying,
           fields |-> [f \in DOMAIN resource.fields |->
                         IF f \in Written(m) THEN Stored(f, m.fields[f], o \in Creates)
                         ELSE resource.fields[f]]] :
            copying \in IF o = fileStartCopy THEN BOOLEAN
                        ELSE {resource.copying /\ o \notin Creates \cup Deletes \cup {fileAbortCopy}}}
    /\ asked' = [f \in DOMAIN asked |->
                   IF f \in Written(m) THEN Sent([value |-> m.asked[f], creates |-> o \in Creates])
                   ELSE IF f \in Forgotten(m) THEN Absent ELSE asked[f]]
    /\ applied' = Append(applied, m.from)

\* The service takes a request, and answers if its try still waits.  fault: it fails
\* with a 5xx "before" or "after" it has done what it was asked.
Deliver(m, fault) ==
    LET status == Status(m)
        final == IF fault = "none" THEN status ELSE 503 IN
    /\ m \in network
    /\ fault # "none" => Cardinality(unknown) < MaxUnknown
    /\ network' = network \ {m}
    /\ IF isSuccessStatusCode(status) /\ Denoted(m) \notin Reads /\ fault # "before"
         THEN Effect(m) ELSE UNCHANGED serviceVars
    /\ answer' = IF pc = "do" /\ m.from = << call, try >>
                 THEN Sent([status |-> final, fields |-> resource.fields, asked |-> asked]) ELSE answer
    /\ UNCHANGED << policyVars, callVars, now, unknown >>

-----------------------------------------------------------------------------
\* The arguments the program may give each operation.
Arguments == [o \in Operations |-> {[f \in o.sends |-> a[f]] : a \in Asked}]

NoProperties ==
    LET off == [MetricEnabled |-> FALSE, IncludeAPIs |-> FALSE, RetentionPolicyEnabled |-> FALSE,
                RetentionDays |-> 0] IN
    [HourMetrics |-> off, MinuteMetrics |-> off]

\* What the service holds before the program's first write.
InitialFields ==
    [length |-> Sent(0), headers |-> HTTPHeaders([ContentType |-> DefaultContentType, ContentMD5 |-> Absent]),
     metadata |-> << >>, quota |-> Sent(DefaultQuota), policies |-> << >>,
     properties |-> toSsp(NoProperties)]

FieldsOf(k) == UNION {o.gets : o \in Methods[k]}

Init ==
    /\ kind \in DOMAIN Methods
    /\ cred \in Credentials[kind]
    /\ pc = "idle" /\ try = 1 /\ ctxDone = FALSE /\ unsent = {} /\ wrapper = 0
    /\ tryCtx = [t \in Policy!Tries |-> "none"]
    /\ err = [t \in Policy!Tries |-> "none"]
    /\ body = [t \in Policy!Tries |-> "none"]
    /\ call = 0 /\ request = Prepare(fileDelete, << >>)
    /\ network = {} /\ answer = Absent /\ now = 0
    /\ \E present \in IF kind = "service" THEN {TRUE} ELSE BOOLEAN :
         resource = [present |-> present, snapshots |-> 0, copying |-> FALSE,
                     fields |-> [f \in FieldsOf(kind) |-> InitialFields[f]]]
    /\ asked = [f \in FieldsOf(kind) |-> Absent]
    /\ applied = << >> /\ unknown = {}

Finished == Idle /\ call = MaxCalls /\ UNCHANGED vars

Next ==
    \/ \E o \in Methods[kind] : \E a \in Arguments[o] : Call(o, a)
    \/ StartTry
    \/ \E r \in Policy!Results : AnswerArrives(r)
    \/ NoAnswer \/ CannotSend \/ PolicyDecides \/ ProgramActs
    \/ \E m \in network : \E fault \in {"none", "before", "after"} : Deliver(m, fault)
    \/ Finished

Spec == Init /\ [][Next]_vars

-----------------------------------------------------------------------------
(* Properties. *)

TriesIn(history, c) == {from \in history : from[1] = c}
Writers == {applied[i] : i \in DOMAIN applied}

\* The verdict of a call and what it did (url_*.go and the responders, over
\* zc_policy_retry.go:201-242).  A write that returns nil was done by its last try,
\* and since then the resource was written by that call, or by a request whose
\* caller was never told.  A call that fails, or is refused, has done nothing
\* unless one of its tries went without a definite answer.
VerdictMatchesEffect ==
    /\ Returned /\ err[try] = Policy!NoError /\ request.op \notin Reads =>
         /\ << call, try >> \in Writers
         /\ \A i, j \in DOMAIN applied :
              applied[i] = << call, try >> /\ i < j => applied[j] \in unknown
    /\ (Returned /\ err[try] # Policy!NoError /\ TriesIn(unknown, call) = {}) \/ pc = "refused" =>
         TriesIn(Writers, call) = {}

\* A write that the service has confirmed is not sent again: a call does its work once,
\* and once more at most for each try that went without a definite answer.  A share
\* gets no second snapshot because of the answer to the first (zc_policy_retry.go:218
\* retries a success whose body cannot be parsed).
ConfirmedOnce ==
    \A c \in 1 .. call : Cardinality(TriesIn(Writers, c)) <= 1 + Cardinality(TriesIn(unknown, c))

\* The bytes that a range asks for, and that the text of one denotes.
RangeAsked(r) ==
    {b \in Positions : b >= r.offset /\ (r.count = CountToEnd \/ b < r.offset + r.count)}
RangeDenoted(w) ==
    IF w = Absent THEN Positions
    ELSE {b \in Positions : b >= w[1][1] /\ (w[1][2] = Absent \/ b <= w[1][2][1])}

\* The request names the bytes asked for, and asks for a hash only of a part of the file.
NamesRange(r) ==
    /\ \A f \in DOMAIN r.fields \cap {"range", "writtenRange"} :
         RangeDenoted(r.fields[f]) = RangeAsked(r.asked[f])
    /\ "downloadRange" \in DOMAIN r.fields =>
         LET sent == r.fields["downloadRange"]
             wanted == r.asked["downloadRange"] IN
         /\ RangeDenoted(sent.range) = RangeAsked(wanted)
         /\ (sent.md5 # Absent) <=> wanted.rangeGetContentMD5
         /\ sent.md5 # Absent => sent.range # Absent

\* Every request on its way is what the program asked for (the preparers, NewPipeline and
\* the credential).  The service can only take it for the operation called, on that kind
\* of resource.  It names the bytes asked for, and asks for a hash only of a part of the
\* file, if that was asked for.  Its signature covers what is sent, with
\* the date of its own try.  The tries of a call carry one request id, which no other
\* call has, and the same fields.
RequestAsAsked ==
    \A m \in network :
        /\ {k \in DOMAIN Methods : \E o \in Methods[k] : Signature(o) = Signature(m)} = {kind}
        /\ \A o \in Operations : Signature(o) = Signature(m) =>
             o.name = m.op.name /\ o.ok = m.op.ok /\ o.reply = m.op.reply /\ o.gets = m.op.gets
        /\ NamesRange(m)
        /\ cred = "sharedKey" =>
             /\ m.signature = Sent(buildStringToSign(m))
             /\ m.from = << call, try >> /\ pc = "do" => m.date = Sent(now)
        /\ \A n \in network :
             /\ (m.id = n.id) <=> (m.from[1] = n.from[1])
             /\ m.id = n.id => m.fields = n.fields

\* A read that returns nil returns what was asked for by the write that the service did
\* last, as far as the conversions keep it: through url_*.go's wrappers, the preparers,
\* and the accessors of the response.  (What is not kept: the case of metadata names, an
\* empty hash, nanoseconds, metrics that are off; of Create, that the ContentType was empty.)
ReadBack ==
    Returned /\ err[try] = Policy!NoError =>
        \A f \in request.op.gets : answer[1].asked[f] # Absent =>
            LET last == answer[1].asked[f][1] IN
            Preserved(f, last.value, last.creates, Decode(f, answer[1].fields[f]))

\* The only body that outlives a call is that of a Download that succeeded, and closing it
\* ends the try: every other responder, and validateResponse on an error, has closed it.
OnlyDownloadStaysOpen ==
    \A t \in Policy!Tries : body[t] = "open" =>
        request.op = fileDownload /\ t = try /\ err[t] = Policy!NoError /\ (Returned => wrapper = t)
=============================================================================
