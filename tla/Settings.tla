------------------------------ MODULE Settings ------------------------------
(***************************************************************************)
(* What becomes of the values that a program stores on the service and      *)
(* reads back: the conversions of url_*.go, zz_response_helpers.go and      *)
(* zz_generated_models.go, the parts of the preparers that put a value in a *)
(* request, and the constraints of zz_generated_validation.go.              *)
(*                                                                         *)
(* There is one operator per direction.  A value that may be left out (a    *)
(* nil pointer, a header or an XML element that is not there) is Absent or  *)
(* Sent(v).                                                                 *)
(***************************************************************************)
EXTENDS Integers, Sequences, SequencesExt

Absent == << >>
Sent(v) == << v >>

-----------------------------------------------------------------------------
(* Validation. *)

AtLeast(n) == [name |-> "inclusiveMinimum", rule |-> n]
AtMost(n) == [name |-> "inclusiveMaximum", rule |-> n]

validateInt(i, constraint) ==
    CASE constraint.name = "inclusiveMinimum" -> i >= constraint.rule
      [] constraint.name = "inclusiveMaximum" -> i <= constraint.rule

\* A null constraint with rule FALSE and a chain: nil passes.
validatePtr(p, chain) ==
    p # Absent => \A constraint \in chain : validateInt(p[1], constraint)

-----------------------------------------------------------------------------
(* Metadata: a function from names to values.  A name is << letters, case >>. *)

\* Header.Set("x-ms-meta-" + name, value), in any order of the names: those that
\* differ in case only are one header.
MetadataHeaders(metadata) ==
    LET letters == {name[1] : name \in DOMAIN metadata} IN
    {h \in [letters \X {"Canonical"} -> {metadata[name] : name \in DOMAIN metadata}] :
        \A k \in DOMAIN h : \E name \in DOMAIN metadata :
            name[1] = k[1] /\ h[k] = metadata[name]}

\* Mutant of NewMetadata: names are kept as net/http spells them.
NewMetadataCanonical(headers) == headers

\* NewMetadata of a response; UnmarshalXML makes the same of a listing.
NewMetadata(headers) ==
    [name \in {<< k[1], "lower" >> : k \in DOMAIN headers} |-> headers[<< name[1], "Canonical" >>]]

-----------------------------------------------------------------------------
(* Share quota and page size: 0 means unspecified. *)

ZeroIsNil(n) == IF n = 0 THEN Absent ELSE Sent(n)

Quota(header) == IF header = Absent THEN -1 ELSE header[1]

-----------------------------------------------------------------------------
(* FileHTTPHeaders, with ContentType for the five strings. *)

\* A string or a hash is a sequence of bytes, the base64 of none is the empty string.
Base64(bytes) == IF bytes = << >> THEN << >> ELSE << "base64" >> \o bytes

\* The strings are sent even if empty, the hash unless it is nil.
HTTPHeaders(h) ==
    [ContentType |-> Sent(h.ContentType),
     ContentMD5 |-> IF h.ContentMD5 = Absent THEN Absent ELSE Sent(Base64(h.ContentMD5[1]))]

\* Header.Get makes no difference between an empty header and none.
HeaderGet(header) == IF header = Absent THEN << >> ELSE header[1]

ContentMD5(header) == IF HeaderGet(header) = << >> THEN Absent ELSE Sent(Tail(header[1]))

NewHTTPHeaders(headers) ==
    [ContentType |-> HeaderGet(headers.ContentType), ContentMD5 |-> ContentMD5(headers.ContentMD5)]

-----------------------------------------------------------------------------
(* FileServiceProperties: its metrics. *)

toM(mp) ==
    LET retention == mp.MetricEnabled /\ mp.RetentionPolicyEnabled IN
    [Enabled |-> mp.MetricEnabled,
     IncludeAPIs |-> IF mp.MetricEnabled THEN Sent(mp.IncludeAPIs) ELSE Absent,
     RetentionPolicy |-> [Enabled |-> retention,
                          Days |-> IF retention THEN Sent(mp.RetentionDays) ELSE Absent]]

toMp(m) ==
    LET retention == m.Enabled /\ m.RetentionPolicy.Enabled IN
    [MetricEnabled |-> m.Enabled,
     IncludeAPIs |-> m.Enabled /\ m.IncludeAPIs[1],
     RetentionPolicyEnabled |-> retention,
     RetentionDays |-> IF retention THEN m.RetentionPolicy.Days[1] ELSE 0]

toSsp(fsp) == [HourMetrics |-> toM(fsp.HourMetrics), MinuteMetrics |-> toM(fsp.MinuteMetrics)]
toFsp(ssp) == [HourMetrics |-> toMp(ssp.HourMetrics), MinuteMetrics |-> toMp(ssp.MinuteMetrics)]

ValidProperties(ssp) ==
    \A metrics \in {"HourMetrics", "MinuteMetrics"} :
        validatePtr(ssp[metrics].RetentionPolicy.Days, {AtMost(365), AtLeast(1)})

-----------------------------------------------------------------------------
(* Access policies. *)

\* The letters of the set of permissions, in the order the service requires.
PermissionString(set) ==
    LET Letter(p) == IF p \in set THEN << p >> ELSE << >> IN
    Letter("r") \o Letter("c") \o Letter("w") \o Letter("d") \o Letter("l")
PermissionParse(s) == {p \in {"r", "c", "w", "d", "l"} : Contains(s, p)}

\* A time is << seconds, nanoseconds >>, its text has seven digits after the second.
TimeToText(t) == IF t = Absent THEN Absent ELSE Sent(<< t[1][1], t[1][2] \div 100 >>)
TextToTime(x) == IF x = Absent THEN Absent ELSE Sent(<< x[1][1], x[1][2] * 100 >>)

MarshalPolicies(ids) ==
    [i \in DOMAIN ids |-> [Start |-> TimeToText(ids[i].Start),
                           Permission |-> PermissionString(ids[i].Permission)]]
UnmarshalPolicies(xml) ==
    [i \in DOMAIN xml |-> [Start |-> TextToTime(xml[i].Start),
                           Permission |-> PermissionParse(xml[i].Permission)]]

-----------------------------------------------------------------------------
(* Ranges. *)

CountToEnd == 0

\* "bytes=first-last", both inclusive.
toRange(offset, count) ==
    Sent(<< offset, IF count = CountToEnd THEN Absent ELSE Sent(offset + count - 1) >>)

WholeFile(r) == r.offset = 0 /\ r.count = CountToEnd

RangePointers(r) == IF WholeFile(r) THEN Absent ELSE toRange(r.offset, r.count)

\* Download's range, and whether it asks for the hash of it (rangeGetContentMD5).
DownloadRange(r) ==
    [range |-> RangePointers(r), md5 |-> IF r.rangeGetContentMD5 THEN Sent(TRUE) ELSE Absent]

-----------------------------------------------------------------------------
(* The types that the Go signatures give the arguments. *)

Optional(S) == {s \in Seq(S) : Len(s) <= 1}
MetricProperties ==
    [MetricEnabled : BOOLEAN, IncludeAPIs : BOOLEAN, RetentionPolicyEnabled : BOOLEAN,
     RetentionDays : Int]
AccessPolicy ==
    [Start : Optional(Int \X Nat), Permission : SUBSET {"r", "c", "w", "d", "l"}]

Typed(a) ==
    /\ a.quota \in Int
    /\ a.headers.ContentMD5 \in Optional(Seq(STRING))
    /\ a.properties \in [HourMetrics : MetricProperties, MinuteMetrics : MetricProperties]
    /\ a.policies \in Seq(AccessPolicy)
    /\ a.range.offset \in Int /\ a.range.count \in Int
    /\ a.downloadRange \in [offset : Int, count : Int, rangeGetContentMD5 : BOOLEAN]
    /\ a.writtenRange.offset \in Int /\ a.writtenRange.count \in Int

-----------------------------------------------------------------------------
(* A value of each field, to the wire and back. *)

\* What the wrapper of url_*.go or the client's validation refuses.
Accepted(field, v) ==
    CASE field = "quota" -> validatePtr(ZeroIsNil(v), {AtLeast(1)})
      [] field = "maxresults" -> validatePtr(ZeroIsNil(v), {AtLeast(1)})
      [] field = "properties" -> ValidProperties(toSsp(v))
      [] field = "writtenRange" -> v.count > 0
      [] field = "downloadRange" -> ~(v.rangeGetContentMD5 /\ WholeFile(v))
      [] OTHER -> TRUE

\* What goes to the service for v; of metadata see MetadataHeaders.
Encode(field, v) ==
    CASE field \in {"quota", "maxresults"} -> ZeroIsNil(v)
      [] field = "headers" -> HTTPHeaders(v)
      [] field = "properties" -> toSsp(v)
      [] field = "policies" -> MarshalPolicies(v)
      [] field = "range" -> RangePointers(v)
      [] field = "writtenRange" -> toRange(v.offset, v.count)
      [] field = "downloadRange" -> DownloadRange(v)
      [] field = "deleteSnapshots" -> IF v = "none" THEN Absent ELSE Sent(v)
      [] field = "length" -> Sent(v)

Decode(field, w) ==
    CASE field = "metadata" -> NewMetadata(w)
      [] field = "quota" -> Quota(w)
      [] field = "headers" -> NewHTTPHeaders(w)
      [] field = "properties" -> toFsp(w)
      [] field = "policies" -> UnmarshalPolicies(w)
      [] OTHER -> w[1]

-----------------------------------------------------------------------------
(* Reference: what a program that asked for v may expect to read. *)

SameMetrics(got, v) ==
    /\ got.MetricEnabled = v.MetricEnabled
    /\ got.RetentionPolicyEnabled = (v.MetricEnabled /\ v.RetentionPolicyEnabled)
    /\ v.MetricEnabled => got.IncludeAPIs = v.IncludeAPIs
    /\ got.RetentionPolicyEnabled => got.RetentionDays = v.RetentionDays /\ v.RetentionDays \in 1 .. 365

\* The same time to a tenth of a microsecond.
SameTime(got, v) ==
    /\ (got = Absent) <=> (v = Absent)
    /\ v # Absent => got[1][1] = v[1][1] /\ v[1][2] - got[1][2] \in 0 .. 99

\* What the service makes of an empty ContentType that a file is created with.
DefaultContentType == << "application/octet-stream" >>

\* creates: v was given to the operation that creates the resource.
Preserved(field, v, creates, got) ==
    CASE field = "metadata" ->
           /\ DOMAIN got = {<< name[1], "lower" >> : name \in DOMAIN v}
           /\ \A n \in DOMAIN got : \E name \in DOMAIN v : name[1] = n[1] /\ got[n] = v[name]
      [] field = "quota" -> got > 0 /\ (v # 0 => got = v)
      [] field = "headers" ->
           /\ got.ContentType = IF creates /\ v.ContentType = << >> THEN DefaultContentType
                                ELSE v.ContentType
           /\ got.ContentMD5 = IF v.ContentMD5 = Sent(<< >>) THEN Absent ELSE v.ContentMD5
      [] field = "policies" ->
           /\ Len(got) = Len(v)
           /\ \A i \in DOMAIN v : got[i].Permission = v[i].Permission /\ SameTime(got[i].Start, v[i].Start)
      [] field = "properties" -> \A metrics \in DOMAIN v : SameMetrics(got[metrics], v[metrics])
      [] OTHER -> got = v
=============================================================================
