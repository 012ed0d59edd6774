------------------------ MODULE ServiceClientProofs ------------------------
(***************************************************************************)
(* Proofs about ServiceClient, for every number of tries and calls, every   *)
(* URL, every credential and all arguments.                                 *)
(***************************************************************************)
EXTENDS ServiceClient, SequenceTheorems, FiniteSetTheorems, WellFoundedInduction, TLAPS

\* Induction: a set that has 0, and n + 1 with every n, has every number.
LEMMA SetInduction ==
    ASSUME NEW P, 0 \in P, \A n \in Nat : n \in P => n + 1 \in P
    PROVE  Nat \subseteq P
<1> DEFINE Bad == Nat \ P
<1>1. SUFFICES ASSUME Bad # {} PROVE FALSE
  OBVIOUS
<1>2. PICK n \in Bad : \A m \in Bad : ~(<< m, n >> \in OpToRel(<, Nat))
  BY <1>1, NatLessThanWellFounded, WFMin
<1>3. n \in Nat /\ n # 0
  OBVIOUS
<1>4. n - 1 \in Nat /\ n - 1 < n /\ (n - 1) + 1 = n
  BY <1>3
<1>5. << n - 1, n >> \in OpToRel(<, Nat)
  BY <1>3, <1>4 DEF OpToRel
<1>6. n - 1 \notin Bad
  BY <1>2, <1>5
<1> QED
  BY <1>4, <1>6

-----------------------------------------------------------------------------
(* Through is a fold: the request after the first k policies of the sequence. *)

\* The request after the policies at the positions s, if part gives it for fewer.
PolicyStep(seq, r, c, n, part, s) ==
    IF s = {} THEN r ELSE Do(seq[Max(s)], part[s \ {Max(s)}], c, n)

After(seq, r, c, n) ==
    CHOOSE g : g = [s \in SUBSET DOMAIN seq |-> PolicyStep(seq, r, c, n, g, s)]

\* Through is After at all positions.
LEMMA ThroughIsAfter ==
    ASSUME NEW seq, NEW r, NEW c, NEW n
    PROVE  Through(seq, r, c, n) = After(seq, r, c, n)[DOMAIN seq]
BY DEF Through, FoldLeft, MapThenFoldSet, After, PolicyStep

\* A set of positions has a greatest one.
LEMMA MaxInSet == ASSUME NEW k \in Nat, NEW s \in SUBSET (1 .. k), s # {} PROVE Max(s) \in s
<1> DEFINE P == {i \in Nat : \A t \in SUBSET (1 .. i) : t # {} => \E x \in t : \A y \in t : x >= y}
<1>1. 0 \in P
  <2>1. \A t \in SUBSET (1 .. 0) : t = {}
    <3>1. \A x : x \notin 1 .. 0
      OBVIOUS
    <3> QED
      BY <3>1
  <2> QED
    BY <2>1
<1>2. ASSUME NEW i \in Nat, i \in P PROVE i + 1 \in P
  <2> SUFFICES ASSUME NEW t \in SUBSET (1 .. (i + 1)), t # {} PROVE \E x \in t : \A y \in t : x >= y
    OBVIOUS
  <2>1. CASE i + 1 \in t
    BY <2>1
  <2>2. CASE i + 1 \notin t
    <3>1. t \in SUBSET (1 .. i)
      BY <2>2
    <3> QED
      BY <1>2, <3>1
  <2> QED
    BY <2>1, <2>2
<1> HIDE DEF P
<1>3. k \in P
  BY <1>1, <1>2, SetInduction
<1>4. \E x \in s : \A y \in s : x >= y
  BY <1>3 DEF P
<1> QED
  BY <1>4 DEF Max

\* A function satisfies the recursion that defines After: the CHOOSE in it chooses one.
LEMMA AfterExists ==
    ASSUME NEW seq, NEW r, NEW c, NEW n, NEW k \in Nat, DOMAIN seq = 1 .. k
    PROVE  \E g : g = [s \in SUBSET DOMAIN seq |-> PolicyStep(seq, r, c, n, g, s)]
<1> DEFINE D == DOMAIN seq
           Upto(i) == {s \in SUBSET D : Cardinality(s) <= i}
           P == {i \in Nat : \E g : g = [s \in Upto(i) |-> PolicyStep(seq, r, c, n, g, s)]}
<1>0. IsFiniteSet(D)
  BY FS_Interval
<1>1. \A s \in SUBSET D : IsFiniteSet(s) /\ Cardinality(s) \in Nat /\ Cardinality(s) <= Cardinality(D)
  BY <1>0, FS_Subset, FS_CardinalityType
<1>2. \A s \in SUBSET D : s # {} =>
        /\ s \ {Max(s)} \in SUBSET D
        /\ Cardinality(s \ {Max(s)}) = Cardinality(s) - 1
  BY <1>1, FS_RemoveElement, MaxInSet
<1>3. 0 \in P
  <2> DEFINE g == [s \in Upto(0) |-> r]
  <2>1. \A s \in Upto(0) : s = {}
    BY <1>1, FS_EmptySet
  <2>2. g = [s \in Upto(0) |-> PolicyStep(seq, r, c, n, g, s)]
    BY <2>1 DEF PolicyStep
  <2> QED
    BY <2>2
<1>4. ASSUME NEW i \in Nat, i \in P PROVE i + 1 \in P
  <2>1. PICK g : g = [s \in Upto(i) |-> PolicyStep(seq, r, c, n, g, s)]
    BY <1>4
  <2> DEFINE h == [s \in Upto(i + 1) |-> PolicyStep(seq, r, c, n, g, s)]
  <2>2. \A s \in Upto(i) : s \in Upto(i + 1)
    BY <1>1
  <2>3. \A s \in Upto(i) : h[s] = g[s]
    BY <2>1, <2>2
  <2>4. ASSUME NEW s \in Upto(i + 1), s # {} PROVE s \ {Max(s)} \in Upto(i)
    <3>1. s \in SUBSET D /\ Cardinality(s) \in Nat /\ Cardinality(s) <= i + 1
      BY <1>1
    <3>2. s \ {Max(s)} \in SUBSET D /\ Cardinality(s \ {Max(s)}) = Cardinality(s) - 1
      BY <1>2, <2>4, <3>1
    <3>3. Cardinality(s \ {Max(s)}) <= i
      BY <3>1, <3>2
    <3> QED
      BY <3>2, <3>3
  <2>5. \A s \in Upto(i + 1) : PolicyStep(seq, r, c, n, g, s) = PolicyStep(seq, r, c, n, h, s)
    BY <2>3, <2>4 DEF PolicyStep
  <2>6. h = [s \in Upto(i + 1) |-> PolicyStep(seq, r, c, n, h, s)]
    BY <2>5
  <2>7. \E q : q = [s \in Upto(i + 1) |-> PolicyStep(seq, r, c, n, q, s)]
    <3> HIDE DEF h
    <3> QED
      BY <2>6
  <2>8. i + 1 \in Nat
    OBVIOUS
  <2> QED
    BY <2>7, <2>8
<1> HIDE DEF P
<1>5. Cardinality(D) \in P
  BY <1>0, <1>1, <1>3, <1>4, SetInduction, FS_CardinalityType
<1>6. Upto(Cardinality(D)) = SUBSET D
  BY <1>1
<1> QED
  BY <1>5, <1>6 DEF P

\* The last policy of the first i is applied last.
LEMMA AfterStep ==
    ASSUME NEW seq, NEW r, NEW c, NEW n, NEW k \in Nat, DOMAIN seq = 1 .. k
    PROVE  /\ After(seq, r, c, n)[1 .. 0] = r
           /\ \A i \in Nat : \A j \in 1 .. k : j = i + 1 =>
                After(seq, r, c, n)[1 .. j] = Do(seq[j], After(seq, r, c, n)[1 .. i], c, n)
<1> DEFINE g == After(seq, r, c, n)
<1>1. g = [s \in SUBSET DOMAIN seq |-> PolicyStep(seq, r, c, n, g, s)]
  BY AfterExists DEF After
<1> HIDE DEF g
<1>2. g[1 .. 0] = r
  <2>1. 1 .. 0 = {} /\ 1 .. 0 \in SUBSET DOMAIN seq
    OBVIOUS
  <2> QED
    BY <1>1, <2>1 DEF PolicyStep
<1>3. ASSUME NEW i \in Nat, NEW j \in 1 .. k, j = i + 1
      PROVE  g[1 .. j] = Do(seq[j], g[1 .. i], c, n)
  <2>0. j \in 1 .. j
    OBVIOUS
  <2>1. j \in 1 .. j /\ 1 .. j # {}
    BY <2>0
  <2>2. Max(1 .. j) = j
    <3>1. \A y \in 1 .. j : j >= y
      OBVIOUS
    <3>2. \E x \in 1 .. j : \A y \in 1 .. j : x >= y
      BY <2>1, <3>1
    <3>3. Max(1 .. j) \in 1 .. j /\ Max(1 .. j) >= j
      BY <2>1, <3>2 DEF Max
    <3> QED
      BY <3>3
  <2>3. (1 .. j) \ {j} = 1 .. i
    BY <1>3
  <2>4. 1 .. j \in SUBSET DOMAIN seq
    OBVIOUS
  <2> QED
    BY <1>1, <2>1, <2>2, <2>3, <2>4 DEF PolicyStep
<1> QED
  BY <1>2, <1>3 DEF g

\* The retry policy is the third; the credential, if there is one, comes after it.
LEMMA PipelineIs ==
    /\ RetryIndex = 3
    /\ DOMAIN AboveRetry = 1 .. 2
    /\ AboveRetry[1] = "Telemetry" /\ AboveRetry[2] = "UniqueRequestID"
    /\ cred = "anonymous" =>
         /\ DOMAIN FromRetry = 1 .. 2
         /\ FromRetry[1] = "Retry" /\ FromRetry[2] = "RequestLog"
    /\ cred # "anonymous" =>
         /\ DOMAIN FromRetry = 1 .. 3
         /\ FromRetry[1] = "Retry" /\ FromRetry[2] = "SharedKey" /\ FromRetry[3] = "RequestLog"
<1> DEFINE Names == {"Telemetry", "UniqueRequestID", "Retry", "SharedKey", "RequestLog"}
           first == << "Telemetry", "UniqueRequestID", "Retry" >>
           key == IF cred = "anonymous" THEN << >> ELSE << "SharedKey" >>
           last == << "RequestLog" >>
           n == IF cred = "anonymous" THEN 0 ELSE 1
<1>a. /\ first \in Seq(Names) /\ Len(first) = 3
      /\ first[1] = "Telemetry" /\ first[2] = "UniqueRequestID" /\ first[3] = "Retry"
  OBVIOUS
<1>b. n \in Nat /\ key \in Seq(Names) /\ Len(key) = n
  <2>1. CASE cred = "anonymous"
    BY <2>1
  <2>2. CASE cred # "anonymous"
    BY <2>2
  <2> QED
    BY <2>1, <2>2
<1>c. cred # "anonymous" => n = 1 /\ key[1] = "SharedKey"
  OBVIOUS
<1>d. last \in Seq(Names) /\ Len(last) = 1 /\ last[1] = "RequestLog"
  OBVIOUS
<1>e. cred = "anonymous" => n = 0
  OBVIOUS
<1>2. NewPipeline = (first \o key) \o last
  BY DEF NewPipeline
<1> HIDE DEF Names, first, key, last, n
<1>3. /\ first \o key \in Seq(Names) /\ Len(first \o key) = 3 + n
      /\ \A i \in 1 .. (3 + n) : (first \o key)[i] = IF i <= 3 THEN first[i] ELSE key[i - 3]
  <2>1. /\ first \o key \in Seq(Names)
        /\ Len(first \o key) = Len(first) + Len(key)
        /\ \A i \in 1 .. Len(first) + Len(key) :
             (first \o key)[i] = IF i <= Len(first) THEN first[i] ELSE key[i - Len(first)]
    BY <1>a, <1>b, ConcatProperties
  <2> QED
    BY <1>a, <1>b, <2>1
<1> DEFINE front == first \o key
<1> HIDE DEF front
<1>4. /\ NewPipeline \in Seq(Names) /\ Len(NewPipeline) = 4 + n
      /\ \A i \in 1 .. (4 + n) :
           NewPipeline[i] = IF i <= 3 + n THEN front[i] ELSE last[i - (3 + n)]
  <2>1. front \in Seq(Names) /\ Len(front) = 3 + n /\ NewPipeline = front \o last
    BY <1>2, <1>3 DEF front
  <2>2. /\ front \o last \in Seq(Names)
        /\ Len(front \o last) = Len(front) + Len(last)
        /\ \A i \in 1 .. Len(front) + Len(last) :
             (front \o last)[i] = IF i <= Len(front) THEN front[i] ELSE last[i - Len(front)]
    BY <1>d, <2>1, ConcatProperties
  <2> QED
    BY <1>b, <1>d, <2>1, <2>2
<1>5. /\ DOMAIN NewPipeline = 1 .. (4 + n)
      /\ NewPipeline[1] = "Telemetry" /\ NewPipeline[2] = "UniqueRequestID"
      /\ NewPipeline[3] = "Retry"
      /\ cred # "anonymous" => NewPipeline[4] = "SharedKey"
      /\ NewPipeline[4 + n] = "RequestLog"
  <2>1. DOMAIN NewPipeline = 1 .. (4 + n)
    BY <1>4, LenProperties
  <2>2. front[1] = "Telemetry" /\ front[2] = "UniqueRequestID" /\ front[3] = "Retry"
    BY <1>3, <1>a, <1>b DEF front
  <2>3. cred # "anonymous" => front[4] = "SharedKey"
    BY <1>3, <1>b, <1>c DEF front
  <2>4. \A i \in 1 .. (3 + n) : NewPipeline[i] = front[i]
    BY <1>4, <1>b
  <2>5. NewPipeline[4 + n] = last[1]
    BY <1>4, <1>b
  <2> QED
    BY <2>1, <2>2, <2>3, <2>4, <2>5, <1>b, <1>c, <1>d
<1>6. RetryIndex = 3
  <2>1. \A i \in DOMAIN NewPipeline : NewPipeline[i] = "Retry" <=> i = 3
    BY <1>5, <1>b, <1>c, <1>e
  <2>2. 3 \in DOMAIN NewPipeline
    BY <1>5, <1>b
  <2> QED
    BY <2>1, <2>2 DEF RetryIndex
<1>7. /\ DOMAIN AboveRetry = 1 .. 2
      /\ AboveRetry[1] = "Telemetry" /\ AboveRetry[2] = "UniqueRequestID"
  BY <1>4, <1>5, <1>6, <1>b DEF AboveRetry
<1>8. /\ DOMAIN FromRetry = 1 .. (2 + n)
      /\ \A i \in 1 .. (2 + n) : FromRetry[i] = NewPipeline[i + 2]
  BY <1>4, <1>5, <1>6, <1>b DEF FromRetry
<1> QED
  BY <1>5, <1>6, <1>7, <1>8, <1>b, <1>c, <1>e

\* Two policies, and three.
LEMMA ThroughTwo ==
    ASSUME NEW seq, NEW r, NEW c, NEW n, DOMAIN seq = 1 .. 2
    PROVE  Through(seq, r, c, n) = Do(seq[2], Do(seq[1], r, c, n), c, n)
<1> DEFINE g == After(seq, r, c, n)
<1> HIDE DEF g
<1>1. PICK k \in Nat : k = 2
  OBVIOUS
<1>2. /\ g[1 .. 0] = r
      /\ \A i \in Nat : \A j \in 1 .. k : j = i + 1 => g[1 .. j] = Do(seq[j], g[1 .. i], c, n)
  <2>1. DOMAIN seq = 1 .. k
    BY <1>1
  <2> QED
    BY ONLY <2>1, k \in Nat, AfterStep DEF g
<1>3. 0 \in Nat /\ 1 \in Nat /\ 1 = 0 + 1 /\ 2 = 1 + 1 /\ 1 \in 1 .. 2 /\ 2 \in 1 .. 2
  OBVIOUS
<1>4. g[1 .. 1] = Do(seq[1], g[1 .. 0], c, n) /\ g[1 .. 2] = Do(seq[2], g[1 .. 1], c, n)
  BY <1>1, <1>2, <1>3
<1> QED
  BY <1>2, <1>4, ThroughIsAfter DEF g

\* A request through three policies.
LEMMA ThroughThree ==
    ASSUME NEW seq, NEW r, NEW c, NEW n, DOMAIN seq = 1 .. 3
    PROVE  Through(seq, r, c, n) = Do(seq[3], Do(seq[2], Do(seq[1], r, c, n), c, n), c, n)
<1> DEFINE g == After(seq, r, c, n)
<1> HIDE DEF g
<1>1. PICK k \in Nat : k = 3
  OBVIOUS
<1>2. /\ g[1 .. 0] = r
      /\ \A i \in Nat : \A j \in 1 .. k : j = i + 1 => g[1 .. j] = Do(seq[j], g[1 .. i], c, n)
  <2>1. DOMAIN seq = 1 .. k
    BY <1>1
  <2> QED
    BY ONLY <2>1, k \in Nat, AfterStep DEF g
<1>3. /\ 0 \in Nat /\ 1 \in Nat /\ 2 \in Nat /\ 1 = 0 + 1 /\ 2 = 1 + 1 /\ 3 = 2 + 1
      /\ 1 \in 1 .. 3 /\ 2 \in 1 .. 3 /\ 3 \in 1 .. 3
  OBVIOUS
<1>4. /\ g[1 .. 1] = Do(seq[1], g[1 .. 0], c, n)
      /\ g[1 .. 2] = Do(seq[2], g[1 .. 1], c, n)
      /\ g[1 .. 3] = Do(seq[3], g[1 .. 2], c, n)
  BY <1>1, <1>2, <1>3
<1> QED
  BY <1>2, <1>4, ThroughIsAfter DEF g

\* What the policies above the retry policy do to a request, and those from it on.
LEMMA ThroughAbove ==
    ASSUME NEW r, NEW c, NEW n
    PROVE  Through(AboveRetry, r, c, n) = UniqueRequestID(Telemetry(r), c, n)
BY PipelineIs, ThroughTwo DEF Do

\* A request through the policies that run once per try.
LEMMA ThroughFrom ==
    ASSUME NEW r, NEW c, NEW n
    PROVE  /\ cred = "anonymous" => Through(FromRetry, r, c, n) = TimeoutOfTry(r, n)
           /\ cred # "anonymous" => Through(FromRetry, r, c, n) = Sign(TimeoutOfTry(r, n))
<1>1. CASE cred = "anonymous"
  BY <1>1, PipelineIs, ThroughTwo DEF Do
<1>2. CASE cred # "anonymous"
  BY <1>2, PipelineIs, ThroughThree DEF Do
<1> QED
  BY <1>1, <1>2

\* What every request has.
RequestKeys ==
    {"op", "verb", "restype", "comp", "marks", "fields", "agent", "id", "timeout", "date",
     "signature", "from", "asked"}

\* The request of a call, and what is sent in a try.
RequestOf(o, fields, a, c) == [Through(AboveRetry, Prepare(o, fields), c, 0) EXCEPT !.asked = a]
MessageOf(r, c, n) == [Through(FromRetry, r, c, n) EXCEPT !.from = << c, n >>]

\* The request that the retry policy gets: what the generated client prepared, with an id.
LEMMA BegunRequest ==
    ASSUME NEW o, NEW fields, NEW a, NEW c, NEW r, r = RequestOf(o, fields, a, c)
    PROVE  /\ DOMAIN r = RequestKeys
           /\ r.op = o /\ Signature(r) = Signature(o) /\ r.fields = fields /\ r.asked = a
           /\ r.id = Sent(<< c, 0 >>) /\ r.date = Absent
<1> DEFINE p == Prepare(o, fields)
           q == Telemetry(p)
           u == UniqueRequestID(q, c, 0)
           v == [u EXCEPT !.asked = a]
<1>1. /\ DOMAIN p = RequestKeys /\ p.op = o /\ Signature(p) = Signature(o) /\ p.fields = fields
      /\ p.id = Absent /\ p.date = Absent
  BY DEF Prepare, RequestKeys, Signature
<1> HIDE DEF p
<1>2. /\ DOMAIN q = RequestKeys /\ \A k \in RequestKeys \ {"agent"} : q[k] = p[k]
  BY <1>1 DEF Telemetry, RequestKeys
<1> HIDE DEF q
<1>3. /\ DOMAIN u = RequestKeys /\ \A k \in RequestKeys \ {"id"} : u[k] = q[k]
      /\ u.id = IF q.id = Absent THEN Sent(<< c, 0 >>) ELSE q.id
  BY <1>2 DEF UniqueRequestID, RequestKeys
<1> HIDE DEF u
<1>4. /\ DOMAIN v = RequestKeys /\ \A k \in RequestKeys \ {"asked"} : v[k] = u[k]
      /\ v.asked = a
  BY <1>3 DEF RequestKeys
<1> HIDE DEF v
<1>5. r = v
  BY ThroughAbove DEF RequestOf, p, q, u, v
<1> QED
  BY <1>1, <1>2, <1>3, <1>4, <1>5 DEF RequestKeys, Signature

\* The request that a try sends: the same, signed now if there is a key.
LEMMA SentRequest ==
    ASSUME NEW r, DOMAIN r = RequestKeys, NEW c, NEW n, NEW m, m = MessageOf(r, c, n)
    PROVE  /\ DOMAIN m = RequestKeys
           /\ m.op = r.op /\ Signature(m) = Signature(r) /\ m.fields = r.fields
           /\ m.asked = r.asked /\ m.id = r.id /\ m.from = << c, n >>
           /\ cred = "sharedKey" /\ r.date = Absent =>
                m.date = Sent(now) /\ m.signature = Sent(buildStringToSign(m))
<1> DEFINE q == TimeoutOfTry(r, n)
           d == [q EXCEPT !.date = IF @ = Absent THEN Sent(now) ELSE @]
           u == [d EXCEPT !.signature = Sent(buildStringToSign(d))]
           From(x) == [x EXCEPT !.from = << c, n >>]
<1>1. DOMAIN q = RequestKeys /\ \A k \in RequestKeys \ {"timeout"} : q[k] = r[k]
  BY DEF TimeoutOfTry, RequestKeys
<1> HIDE DEF q
<1>2. /\ DOMAIN d = RequestKeys /\ \A k \in RequestKeys \ {"date"} : d[k] = q[k]
      /\ d.date = IF q.date = Absent THEN Sent(now) ELSE q.date
  BY <1>1 DEF RequestKeys
<1> HIDE DEF d
<1>3. /\ DOMAIN u = RequestKeys /\ \A k \in RequestKeys \ {"signature"} : u[k] = d[k]
      /\ u.signature = Sent(buildStringToSign(d))
  BY <1>2 DEF RequestKeys
<1> HIDE DEF u
<1>4. ASSUME NEW x, DOMAIN x = RequestKeys
      PROVE  /\ DOMAIN From(x) = RequestKeys /\ \A k \in RequestKeys \ {"from"} : From(x)[k] = x[k]
             /\ From(x).from = << c, n >>
  BY <1>4 DEF RequestKeys
<1> HIDE DEF From
<1>5. CASE cred = "anonymous"
  <2>0. m = From(q)
    BY <1>5, ThroughFrom DEF MessageOf, q, From
  <2>1. /\ DOMAIN m = RequestKeys
        /\ m.op = r.op /\ Signature(m) = Signature(r) /\ m.fields = r.fields
        /\ m.asked = r.asked /\ m.id = r.id /\ m.from = << c, n >>
    BY <1>1, <1>4, <2>0 DEF RequestKeys, Signature
  <2> QED
    BY <1>5, <2>1
<1>6. CASE cred # "anonymous"
  <2>0. m = From(u)
    <3>1. Sign(q) = u
      BY DEF Sign, u, d
    <3>2. Through(FromRetry, r, c, n) = Sign(q)
      BY <1>6, ThroughFrom DEF q
    <3> QED
      BY <3>1, <3>2 DEF MessageOf, From
  <2>1. /\ DOMAIN m = RequestKeys
        /\ m.op = r.op /\ Signature(m) = Signature(r) /\ m.fields = r.fields
        /\ m.asked = r.asked /\ m.id = r.id /\ m.from = << c, n >>
    BY <1>1, <1>2, <1>3, <1>4, <2>0 DEF RequestKeys, Signature
  <2>2. buildStringToSign(m) = buildStringToSign(d)
    BY <1>2, <1>3, <1>4, <2>0 DEF RequestKeys, buildStringToSign
  <2>3. r.date = Absent => m.date = Sent(now) /\ m.signature = Sent(buildStringToSign(m))
    BY <1>1, <1>2, <1>3, <1>4, <2>0, <2>2 DEF RequestKeys
  <2> QED
    BY <2>1, <2>3
<1> QED
  BY <1>5, <1>6

-----------------------------------------------------------------------------
(* The table of operations. *)

\* The operations one by one.
LEMMA OperationsAre ==
    /\ Operations = FileMethods \cup ShareMethods \cup DirectoryMethods \cup ServiceMethods
    /\ DOMAIN Methods = {"file", "share", "directory", "service"}
    /\ Methods["file"] = FileMethods /\ Methods["share"] = ShareMethods
    /\ Methods["directory"] = DirectoryMethods /\ Methods["service"] = ServiceMethods
<1>1. /\ DOMAIN Methods = {"file", "share", "directory", "service"}
      /\ Methods["file"] = FileMethods /\ Methods["share"] = ShareMethods
      /\ Methods["directory"] = DirectoryMethods /\ Methods["service"] = ServiceMethods
  BY DEF Methods
<1> QED
  BY <1>1 DEF Operations

\* What the service holds of a resource.
StoredFields == {"length", "headers", "metadata", "quota", "policies", "properties"}

\* The responders: 200 is among the codes accepted, which are success codes; only reads
\* have a body to keep, and only Download keeps it open.
Reply(o) ==
    /\ o.gets \subseteq StoredFields
    /\ 200 \in o.ok
    /\ o.ok \subseteq {200, 201, 202, 204, 206}
    /\ o.reply \in {"discard", "xml", "open"}
    /\ o.verb \in {"GET", "HEAD"} \/ o.reply = "discard"
    /\ o.reply = "open" => o = fileDownload

\* The service takes one operation for the other, and so may the responder.
Alike(o, p) == o.name = p.name /\ o.ok = p.ok /\ o.reply = p.reply /\ o.gets = p.gets

\* The operations of a file: their responders, and what tells them apart.
LEMMA FileReplies == \A o \in FileMethods : Reply(o)
<1>1. /\ Reply(fileAbortCopy)
      /\ Reply(fileCreate)
      /\ Reply(fileDelete)
      /\ Reply(fileDownload)
      /\ Reply(fileGetProperties)
      /\ Reply(fileGetRangeList)
      /\ Reply(fileSetHTTPHeaders)
      /\ Reply(fileResize)
      /\ Reply(fileSetMetadata)
      /\ Reply(fileStartCopy)
      /\ Reply(fileUploadRange)
      /\ Reply(fileClearRange)
  BY DEF Reply, StoredFields, fileAbortCopy, fileCreate, fileDelete, fileDownload, fileGetProperties,
     fileGetRangeList, fileSetHTTPHeaders, fileResize, fileSetMetadata, fileStartCopy,
     fileUploadRange, fileClearRange
<1> QED
  BY <1>1 DEF FileMethods

\* Operations of a FileURL that the service cannot tell apart are alike.
LEMMA FileApart ==
    \A o, p \in FileMethods : Signature(o) = Signature(p) => Alike(o, p)
<1>a. fileClearRange.marks # fileUploadRange.marks
  <2>1. "x-ms-write: clear" \in fileClearRange.marks
    BY DEF fileClearRange, fileUploadRange
  <2>2. "x-ms-write: clear" \notin fileUploadRange.marks
    BY DEF fileUploadRange
  <2> QED
    BY <2>1, <2>2
<1>0. /\ fileAbortCopy.verb = "PUT" /\ fileAbortCopy.comp = "copy"
      /\ fileCreate.verb = "PUT" /\ fileCreate.comp = ""
      /\ fileDelete.verb = "DELETE" /\ fileDelete.comp = ""
      /\ fileDownload.verb = "GET" /\ fileDownload.comp = ""
      /\ fileGetProperties.verb = "HEAD" /\ fileGetProperties.comp = ""
      /\ fileGetRangeList.verb = "GET" /\ fileGetRangeList.comp = "rangelist"
      /\ fileSetHTTPHeaders.verb = "PUT" /\ fileSetHTTPHeaders.comp = "properties"
      /\ fileResize.verb = "PUT" /\ fileResize.comp = "properties"
      /\ fileSetMetadata.verb = "PUT" /\ fileSetMetadata.comp = "metadata"
      /\ fileStartCopy.verb = "PUT" /\ fileStartCopy.comp = ""
      /\ fileUploadRange.verb = "PUT" /\ fileUploadRange.comp = "range"
      /\ fileClearRange.verb = "PUT" /\ fileClearRange.comp = "range"
      /\ fileCreate.marks # fileStartCopy.marks
      /\ Alike(fileSetHTTPHeaders, fileResize) /\ Alike(fileResize, fileSetHTTPHeaders)
  BY DEF fileAbortCopy, fileCreate, fileDelete, fileDownload, fileGetProperties,
     fileGetRangeList, fileSetHTTPHeaders, fileResize, fileSetMetadata, fileStartCopy,
     fileUploadRange, fileClearRange, Alike
<1>1. ASSUME NEW o \in FileMethods, Signature(o) = Signature(fileAbortCopy) PROVE Alike(o, fileAbortCopy)
  BY <1>0, <1>1 DEF FileMethods, Signature, Alike
<1>2. ASSUME NEW o \in FileMethods, Signature(o) = Signature(fileCreate) PROVE Alike(o, fileCreate)
  BY <1>0, <1>2 DEF FileMethods, Signature, Alike
<1>3. ASSUME NEW o \in FileMethods, Signature(o) = Signature(fileDelete) PROVE Alike(o, fileDelete)
  BY <1>0, <1>3 DEF FileMethods, Signature, Alike
<1>4. ASSUME NEW o \in FileMethods, Signature(o) = Signature(fileDownload) PROVE Alike(o, fileDownload)
  BY <1>0, <1>4 DEF FileMethods, Signature, Alike
<1>5. ASSUME NEW o \in FileMethods, Signature(o) = Signature(fileGetProperties) PROVE Alike(o, fileGetProperties)
  BY <1>0, <1>5 DEF FileMethods, Signature, Alike
<1>6. ASSUME NEW o \in FileMethods, Signature(o) = Signature(fileGetRangeList) PROVE Alike(o, fileGetRangeList)
  BY <1>0, <1>6 DEF FileMethods, Signature, Alike
<1>7. ASSUME NEW o \in FileMethods, Signature(o) = Signature(fileSetHTTPHeaders) PROVE Alike(o, fileSetHTTPHeaders)
  BY <1>0, <1>7 DEF FileMethods, Signature, Alike
<1>8. ASSUME NEW o \in FileMethods, Signature(o) = Signature(fileResize) PROVE Alike(o, fileResize)
  BY <1>0, <1>8 DEF FileMethods, Signature, Alike
<1>9. ASSUME NEW o \in FileMethods, Signature(o) = Signature(fileSetMetadata) PROVE Alike(o, fileSetMetadata)
  BY <1>0, <1>9 DEF FileMethods, Signature, Alike
<1>10. ASSUME NEW o \in FileMethods, Signature(o) = Signature(fileStartCopy) PROVE Alike(o, fileStartCopy)
  BY <1>0, <1>10 DEF FileMethods, Signature, Alike
<1>11. ASSUME NEW o \in FileMethods, Signature(o) = Signature(fileUploadRange) PROVE Alike(o, fileUploadRange)
  BY <1>a, <1>0, <1>11 DEF FileMethods, Signature, Alike
<1>12. ASSUME NEW o \in FileMethods, Signature(o) = Signature(fileClearRange) PROVE Alike(o, fileClearRange)
  BY <1>a, <1>0, <1>12 DEF FileMethods, Signature, Alike
<1> QED
  BY <1>1, <1>2, <1>3, <1>4, <1>5, <1>6, <1>7, <1>8, <1>9, <1>10, <1>11, <1>12 DEF FileMethods

\* The operations of a share: their responders, and what tells them apart.
LEMMA ShareReplies == \A o \in ShareMethods : Reply(o)
<1>1. /\ Reply(shareCreate)
      /\ Reply(shareCreateSnapshot)
      /\ Reply(shareDelete)
      /\ Reply(shareGetAccessPolicy)
      /\ Reply(shareGetProperties)
      /\ Reply(shareGetStatistics)
      /\ Reply(shareSetAccessPolicy)
      /\ Reply(shareSetMetadata)
      /\ Reply(shareSetQuota)
  BY DEF Reply, StoredFields, shareCreate, shareCreateSnapshot, shareDelete, shareGetAccessPolicy,
     shareGetProperties, shareGetStatistics, shareSetAccessPolicy, shareSetMetadata,
     shareSetQuota
<1> QED
  BY <1>1 DEF ShareMethods

\* Operations of a ShareURL that the service cannot tell apart are alike.
LEMMA ShareApart ==
    \A o, p \in ShareMethods : Signature(o) = Signature(p) => Alike(o, p)
<1>0. /\ shareCreate.verb = "PUT" /\ shareCreate.comp = ""
      /\ shareCreateSnapshot.verb = "PUT" /\ shareCreateSnapshot.comp = "snapshot"
      /\ shareDelete.verb = "DELETE" /\ shareDelete.comp = ""
      /\ shareGetAccessPolicy.verb = "GET" /\ shareGetAccessPolicy.comp = "acl"
      /\ shareGetProperties.verb = "GET" /\ shareGetProperties.comp = ""
      /\ shareGetStatistics.verb = "GET" /\ shareGetStatistics.comp = "stats"
      /\ shareSetAccessPolicy.verb = "PUT" /\ shareSetAccessPolicy.comp = "acl"
      /\ shareSetMetadata.verb = "PUT" /\ shareSetMetadata.comp = "metadata"
      /\ shareSetQuota.verb = "PUT" /\ shareSetQuota.comp = "properties"
  BY DEF shareCreate, shareCreateSnapshot, shareDelete, shareGetAccessPolicy,
     shareGetProperties, shareGetStatistics, shareSetAccessPolicy, shareSetMetadata,
     shareSetQuota
<1>1. ASSUME NEW o \in ShareMethods, Signature(o) = Signature(shareCreate) PROVE Alike(o, shareCreate)
  BY <1>0, <1>1 DEF ShareMethods, Signature, Alike
<1>2. ASSUME NEW o \in ShareMethods, Signature(o) = Signature(shareCreateSnapshot) PROVE Alike(o, shareCreateSnapshot)
  BY <1>0, <1>2 DEF ShareMethods, Signature, Alike
<1>3. ASSUME NEW o \in ShareMethods, Signature(o) = Signature(shareDelete) PROVE Alike(o, shareDelete)
  BY <1>0, <1>3 DEF ShareMethods, Signature, Alike
<1>4. ASSUME NEW o \in ShareMethods, Signature(o) = Signature(shareGetAccessPolicy) PROVE Alike(o, shareGetAccessPolicy)
  BY <1>0, <1>4 DEF ShareMethods, Signature, Alike
<1>5. ASSUME NEW o \in ShareMethods, Signature(o) = Signature(shareGetProperties) PROVE Alike(o, shareGetProperties)
  BY <1>0, <1>5 DEF ShareMethods, Signature, Alike
<1>6. ASSUME NEW o \in ShareMethods, Signature(o) = Signature(shareGetStatistics) PROVE Alike(o, shareGetStatistics)
  BY <1>0, <1>6 DEF ShareMethods, Signature, Alike
<1>7. ASSUME NEW o \in ShareMethods, Signature(o) = Signature(shareSetAccessPolicy) PROVE Alike(o, shareSetAccessPolicy)
  BY <1>0, <1>7 DEF ShareMethods, Signature, Alike
<1>8. ASSUME NEW o \in ShareMethods, Signature(o) = Signature(shareSetMetadata) PROVE Alike(o, shareSetMetadata)
  BY <1>0, <1>8 DEF ShareMethods, Signature, Alike
<1>9. ASSUME NEW o \in ShareMethods, Signature(o) = Signature(shareSetQuota) PROVE Alike(o, shareSetQuota)
  BY <1>0, <1>9 DEF ShareMethods, Signature, Alike
<1> QED
  BY <1>1, <1>2, <1>3, <1>4, <1>5, <1>6, <1>7, <1>8, <1>9 DEF ShareMethods

\* The operations of a directory: their responders, and what tells them apart.
LEMMA DirectoryReplies == \A o \in DirectoryMethods : Reply(o)
<1>1. /\ Reply(directoryCreate)
      /\ Reply(directoryDelete)
      /\ Reply(directoryGetProperties)
      /\ Reply(directoryListFilesAndDirectoriesSegment)
      /\ Reply(directorySetMetadata)
  BY DEF Reply, StoredFields, directoryCreate, directoryDelete, directoryGetProperties,
     directoryListFilesAndDirectoriesSegment, directorySetMetadata
<1> QED
  BY <1>1 DEF DirectoryMethods

\* Operations of a DirectoryURL that the service cannot tell apart are alike.
LEMMA DirectoryApart ==
    \A o, p \in DirectoryMethods : Signature(o) = Signature(p) => Alike(o, p)
<1>0. /\ directoryCreate.verb = "PUT" /\ directoryCreate.comp = ""
      /\ directoryDelete.verb = "DELETE" /\ directoryDelete.comp = ""
      /\ directoryGetProperties.verb = "GET" /\ directoryGetProperties.comp = ""
      /\ directoryListFilesAndDirectoriesSegment.verb = "GET" /\ directoryListFilesAndDirectoriesSegment.comp = "list"
      /\ directorySetMetadata.verb = "PUT" /\ directorySetMetadata.comp = "metadata"
  BY DEF directoryCreate, directoryDelete, directoryGetProperties,
     directoryListFilesAndDirectoriesSegment, directorySetMetadata
<1> QED
  BY <1>0 DEF DirectoryMethods, Signature, Alike

\* The operations of a service: their responders, and what tells them apart.
LEMMA ServiceReplies == \A o \in ServiceMethods : Reply(o)
<1>1. /\ Reply(serviceGetProperties)
      /\ Reply(serviceListSharesSegment)
      /\ Reply(serviceSetProperties)
  BY DEF Reply, StoredFields, serviceGetProperties, serviceListSharesSegment, serviceSetProperties
<1> QED
  BY <1>1 DEF ServiceMethods

\* Operations of a ServiceURL that the service cannot tell apart are alike.
LEMMA ServiceApart ==
    \A o, p \in ServiceMethods : Signature(o) = Signature(p) => Alike(o, p)
<1>0. /\ serviceGetProperties.verb = "GET" /\ serviceGetProperties.comp = "properties"
      /\ serviceListSharesSegment.verb = "GET" /\ serviceListSharesSegment.comp = "list"
      /\ serviceSetProperties.verb = "PUT" /\ serviceSetProperties.comp = "properties"
  BY DEF serviceGetProperties, serviceListSharesSegment, serviceSetProperties
<1> QED
  BY <1>0 DEF ServiceMethods, Signature, Alike

\* The type of resource and the component tell the kinds of URL apart.
LEMMA KindsTold ==
    /\ \A o \in FileMethods : o.restype = "" /\ o.comp # "list"
    /\ \A o \in ShareMethods : o.restype = "share"
    /\ \A o \in DirectoryMethods : o.restype = "directory"
    /\ \A o \in ServiceMethods : o.restype = "service" \/ (o.restype = "" /\ o.comp = "list")
<1>1. /\ fileAbortCopy.restype = "" /\ fileAbortCopy.comp # "list"
      /\ fileCreate.restype = "" /\ fileCreate.comp # "list"
      /\ fileDelete.restype = "" /\ fileDelete.comp # "list"
      /\ fileDownload.restype = "" /\ fileDownload.comp # "list"
      /\ fileGetProperties.restype = "" /\ fileGetProperties.comp # "list"
      /\ fileGetRangeList.restype = "" /\ fileGetRangeList.comp # "list"
      /\ fileSetHTTPHeaders.restype = "" /\ fileSetHTTPHeaders.comp # "list"
      /\ fileResize.restype = "" /\ fileResize.comp # "list"
      /\ fileSetMetadata.restype = "" /\ fileSetMetadata.comp # "list"
      /\ fileStartCopy.restype = "" /\ fileStartCopy.comp # "list"
      /\ fileUploadRange.restype = "" /\ fileUploadRange.comp # "list"
      /\ fileClearRange.restype = "" /\ fileClearRange.comp # "list"
  BY DEF fileAbortCopy, fileCreate, fileDelete, fileDownload, fileGetProperties,
     fileGetRangeList, fileSetHTTPHeaders, fileResize, fileSetMetadata, fileStartCopy,
     fileUploadRange, fileClearRange
<1>2. /\ shareCreate.restype = "share"
      /\ shareCreateSnapshot.restype = "share"
      /\ shareDelete.restype = "share"
      /\ shareGetAccessPolicy.restype = "share"
      /\ shareGetProperties.restype = "share"
      /\ shareGetStatistics.restype = "share"
      /\ shareSetAccessPolicy.restype = "share"
      /\ shareSetMetadata.restype = "share"
      /\ shareSetQuota.restype = "share"
  BY DEF shareCreate, shareCreateSnapshot, shareDelete, shareGetAccessPolicy,
     shareGetProperties, shareGetStatistics, shareSetAccessPolicy, shareSetMetadata,
     shareSetQuota
<1>3. /\ directoryCreate.restype = "directory"
      /\ directoryDelete.restype = "directory"
      /\ directoryGetProperties.restype = "directory"
      /\ directoryListFilesAndDirectoriesSegment.restype = "directory"
      /\ directorySetMetadata.restype = "directory"
  BY DEF directoryCreate, directoryDelete, directoryGetProperties,
     directoryListFilesAndDirectoriesSegment, directorySetMetadata
<1>4. /\ serviceGetProperties.restype = "service" \/ (serviceGetProperties.restype = "" /\ serviceGetProperties.comp = "list")
      /\ serviceListSharesSegment.restype = "service" \/ (serviceListSharesSegment.restype = "" /\ serviceListSharesSegment.comp = "list")
      /\ serviceSetProperties.restype = "service" \/ (serviceSetProperties.restype = "" /\ serviceSetProperties.comp = "list")
  BY DEF serviceGetProperties, serviceListSharesSegment, serviceSetProperties
<1>5. /\ \A o \in FileMethods : o.restype = "" /\ o.comp # "list"
      /\ \A o \in ShareMethods : o.restype = "share"
  BY <1>1, <1>2 DEF FileMethods, ShareMethods
<1>6. /\ \A o \in DirectoryMethods : o.restype = "directory"
      /\ \A o \in ServiceMethods : o.restype = "service" \/ (o.restype = "" /\ o.comp = "list")
  BY <1>3, <1>4 DEF DirectoryMethods, ServiceMethods
<1> QED
  BY <1>5, <1>6

\* Two operations that the service takes for one another are of the same kind of URL, and
\* their responders are the same.
LEMMA OperationsApart ==
    ASSUME NEW j \in DOMAIN Methods, NEW k \in DOMAIN Methods,
           NEW o \in Methods[j], NEW p \in Methods[k], Signature(o) = Signature(p)
    PROVE  j = k /\ Alike(o, p) /\ o.verb = p.verb
<1>1. o.verb = p.verb /\ o.restype = p.restype /\ o.comp = p.comp
  BY DEF Signature
<1>2. j = k
  BY <1>1, KindsTold, OperationsAre
<1>3. Alike(o, p)
  BY <1>2, FileApart, ShareApart, DirectoryApart, ServiceApart, OperationsAre
<1> QED
  BY <1>1, <1>2, <1>3

\* What Reply says of a preparer and a responder is so for every operation.
LEMMA Replies == \A o \in Operations : Reply(o)
BY FileReplies, ShareReplies, DirectoryReplies, ServiceReplies, OperationsAre

\* The service takes a request for the operation it was made for, or for one like it.
LEMMA DenotedIs ==
    ASSUME NEW k \in DOMAIN Methods, NEW o \in Methods[k], NEW m, Signature(m) = Signature(o)
    PROVE  /\ Denoted(m) \in Operations /\ Alike(Denoted(m), o)
           /\ Denoted(m) \in Reads <=> o \in Reads
<1>1. o \in Operations
  BY DEF Operations
<1>2. Denoted(m) \in Operations /\ Signature(Denoted(m)) = Signature(o)
  BY <1>1 DEF Denoted
<1>3. PICK j \in DOMAIN Methods : Denoted(m) \in Methods[j]
  BY <1>2 DEF Operations
<1>4. Alike(Denoted(m), o) /\ Denoted(m).verb = o.verb
  BY <1>2, <1>3, OperationsApart
<1> QED
  BY <1>1, <1>2, <1>4 DEF Reads

\* A success of the service is one that the responder was told to accept.
LEMMA StatusAccepted ==
    ASSUME NEW m, Denoted(m) \in Operations
    PROVE  isSuccessStatusCode(Status(m)) => Status(m) \in Denoted(m).ok
<1> DEFINE o == Denoted(m)
<1>1. 200 \in o.ok
  BY Replies DEF Reply
<1>2. /\ o \in Creates => 201 \in o.ok
      /\ o \in Deletes \cup {serviceSetProperties} => 202 \in o.ok
      /\ o \in {shareCreateSnapshot, fileUploadRange, fileClearRange} => 201 \in o.ok
  <2>1. 201 \in fileCreate.ok /\ 201 \in shareCreate.ok /\ 201 \in directoryCreate.ok
    BY DEF fileCreate, shareCreate, directoryCreate
  <2>2. 202 \in fileDelete.ok /\ 202 \in shareDelete.ok /\ 202 \in directoryDelete.ok
    BY DEF fileDelete, shareDelete, directoryDelete
  <2>3. 202 \in serviceSetProperties.ok /\ 201 \in shareCreateSnapshot.ok /\ 201 \in fileUploadRange.ok
        /\ 201 \in fileClearRange.ok
    BY DEF serviceSetProperties, shareCreateSnapshot, fileUploadRange, fileClearRange
  <2> QED
    BY <2>1, <2>2, <2>3 DEF Creates, Deletes
<1>3. /\ o = fileStartCopy => 202 \in o.ok
      /\ o = fileAbortCopy => 204 \in o.ok
      /\ o = fileDownload => 206 \in o.ok
  <2>1. 202 \in fileStartCopy.ok /\ 204 \in fileAbortCopy.ok /\ 206 \in fileDownload.ok
    BY DEF fileStartCopy, fileAbortCopy, fileDownload
  <2> QED
    BY <2>1
<1> HIDE DEF o
<1>4. Status(m) \in {200, 201, 202, 204, 206, 403, 404, 409}
  BY DEF Status
<1>5. Status(m) = 201 => o \in Creates \/ o \in {shareCreateSnapshot, fileUploadRange, fileClearRange}
  BY DEF Status, o
<1>6. Status(m) = 202 => o \in Deletes \cup {serviceSetProperties} \/ o = fileStartCopy
  BY DEF Status, o
<1>7. Status(m) = 204 => o = fileAbortCopy
  BY DEF Status, o
<1>8. Status(m) = 206 => o = fileDownload
  BY DEF Status, o
<1> QED
  BY <1>1, <1>2, <1>3, <1>4, <1>5, <1>6, <1>7, <1>8 DEF isSuccessStatusCode, o

\* The text of a range names the bytes asked for, also if it is left out.
LEMMA RangeTexts ==
    ASSUME NEW v, v.offset \in Int, v.count \in Int
    PROVE  /\ RangeDenoted(toRange(v.offset, v.count)) = RangeAsked(v)
           /\ RangeDenoted(RangePointers(v)) = RangeAsked(v)
<1>2. v.offset \in Int /\ v.count \in Int
  OBVIOUS
<1>3. RangeDenoted(toRange(v.offset, v.count)) = RangeAsked(v)
  <2>1. toRange(v.offset, v.count) # Absent
    BY DEF toRange, Sent, Absent
  <2>2. CASE v.count = CountToEnd
    BY <1>2, <2>1, <2>2, PositionsAssumption DEF RangeDenoted, RangeAsked, toRange, Sent, Absent
  <2>3. CASE v.count # CountToEnd
    <3>1. Positions \subseteq Int
      BY PositionsAssumption, SMT
    <3>2. \A i \in Int : i <= v.offset + v.count - 1 <=> i < v.offset + v.count
      BY <1>2
    <3>3. LET w == toRange(v.offset, v.count)
          IN  w[1][1] = v.offset /\ w[1][2] # Absent /\ w[1][2][1] = v.offset + v.count - 1
      BY <2>3 DEF toRange, Sent, Absent
    <3> QED
      BY <2>1, <2>3, <3>1, <3>2, <3>3 DEF RangeDenoted, RangeAsked
  <2> QED
    BY <2>2, <2>3
<1>4. CASE WholeFile(v)
  BY <1>3, <1>4, PositionsAssumption DEF RangePointers, WholeFile, RangeDenoted, RangeAsked
<1>5. CASE ~WholeFile(v)
  BY <1>3, <1>5 DEF RangePointers
<1> QED
  BY <1>3, <1>4, <1>5

\* So does what each of the operations on ranges sends.
LEMMA RangeNamed ==
    ASSUME NEW o \in Operations, NEW a \in Arguments[o],
           NEW f \in o.sends \cap {"range", "writtenRange"}
    PROVE  RangeDenoted(Encode(f, a[f])) = RangeAsked(a[f])
<1>1. PICK b \in Asked : a = [g \in o.sends |-> b[g]]
  BY DEF Arguments
<1>2. a[f].offset \in Int /\ a[f].count \in Int
  BY <1>1, AskedAssumption DEF Typed
<1>3. CASE f = "range"
  BY <1>2, <1>3, RangeTexts DEF Encode
<1>4. CASE f = "writtenRange"
  BY <1>2, <1>4, RangeTexts DEF Encode
<1> QED
  BY <1>3, <1>4

\* A Download that is not refused asks for a hash only of a part of the file.
LEMMA DownloadNamed ==
    ASSUME NEW o \in Operations, NEW a \in Arguments[o], "downloadRange" \in o.sends,
           Accepted("downloadRange", a["downloadRange"])
    PROVE  LET sent == Encode("downloadRange", a["downloadRange"])
               wanted == a["downloadRange"]
           IN  /\ RangeDenoted(sent.range) = RangeAsked(wanted)
               /\ (sent.md5 # Absent) <=> wanted.rangeGetContentMD5
               /\ sent.md5 # Absent => sent.range # Absent
<1> DEFINE v == a["downloadRange"]
<1>1. PICK b \in Asked : a = [g \in o.sends |-> b[g]]
  BY DEF Arguments
<1>2. v.offset \in Int /\ v.count \in Int /\ v.rangeGetContentMD5 \in BOOLEAN
  BY <1>1, AskedAssumption DEF Typed
<1>3. ~(v.rangeGetContentMD5 /\ WholeFile(v))
  BY DEF Accepted
<1> HIDE DEF v
<1> DEFINE sent == DownloadRange(v)
<1>4. Encode("downloadRange", v) = sent
  BY DEF Encode
<1>5. sent.range = RangePointers(v) /\ (sent.md5 # Absent <=> v.rangeGetContentMD5)
  BY <1>2 DEF DownloadRange, Sent, Absent
<1>6. ~WholeFile(v) => RangePointers(v) # Absent
  BY DEF RangePointers, toRange, Sent, Absent
<1> HIDE DEF sent
<1> QED
  BY <1>2, <1>3, <1>4, <1>5, <1>6, RangeTexts DEF v

-----------------------------------------------------------------------------
(* What the conversions keep of a value. *)

\* What the service holds for a field that it is sent, and that it is as good as v.
Kept(f, v, w) == \A c \in BOOLEAN : Preserved(f, v, c, Decode(f, Stored(f, w, c)))

\* An optional value is absent, or one value.
LEMMA OptionalIs ==
    ASSUME NEW S, NEW x \in Optional(S)
    PROVE  x = Absent \/ (x # Absent /\ x[1] \in S /\ x = Sent(x[1]))
<1>1. x \in Seq(S) /\ (Len(x) = 0 \/ Len(x) = 1)
  <2>1. x \in Seq(S) /\ Len(x) <= 1
    BY DEF Optional
  <2>2. Len(x) \in Nat
    BY <2>1, LenProperties
  <2>3. \A n \in Nat : n <= 1 => n = 0 \/ n = 1
    OBVIOUS
  <2> QED
    BY <2>1, <2>2, <2>3
<1>2. CASE Len(x) = 0
  BY <1>1, <1>2 DEF Absent
<1>3. CASE Len(x) = 1
  BY <1>1, <1>3 DEF Sent, Absent
<1> QED
  BY <1>1, <1>2, <1>3

\* The length of a file is stored as it is.
LEMMA LengthKept == ASSUME NEW v PROVE Kept("length", v, Encode("length", v))
BY DEF Kept, Stored, Encode, Decode, Preserved, Sent

\* A quota that passes validation comes back; 0 is sent as no quota at all.
LEMMA QuotaKept ==
    ASSUME NEW v \in Int, Accepted("quota", v) PROVE Kept("quota", v, Encode("quota", v))
<1>1. v = 0 \/ v >= 1
  <2>1. v # 0 => ZeroIsNil(v) # Absent /\ ZeroIsNil(v)[1] = v
    BY DEF ZeroIsNil, Sent, Absent
  <2>2. validateInt(v, AtLeast(1)) => v >= 1
    BY DEF validateInt, AtLeast
  <2> QED
    BY <2>1, <2>2 DEF Accepted, validatePtr
<1>2. CASE v = 0
  <2>1. Encode("quota", v) = Absent
    BY <1>2 DEF Encode, ZeroIsNil
  <2>2. Decode("quota", Sent(DefaultQuota)) = 5
    BY DEF Decode, Quota, Sent, Absent, DefaultQuota
  <2> QED
    BY <1>2, <2>1, <2>2 DEF Kept, Stored, Preserved
<1>3. CASE v >= 1
  <2>1. Encode("quota", v) = Sent(v) /\ Sent(v) # Absent
    BY <1>3 DEF Encode, ZeroIsNil, Sent, Absent
  <2>2. Decode("quota", Sent(v)) = v
    BY DEF Decode, Quota, Sent, Absent
  <2> QED
    BY <1>3, <2>1, <2>2 DEF Kept, Stored, Preserved
<1> QED
  BY <1>1, <1>2, <1>3

\* What follows a prefix of one letter is the tail.
LEMMA TailOfPrefixed ==
    ASSUME NEW S, NEW x \in Seq(S), NEW e
    PROVE  << e >> \o x # << >> /\ Tail(<< e >> \o x) = x
<1> DEFINE T == S \cup {e}
           y == << e >> \o x
<1>1. x \in Seq(T) /\ << e >> \in Seq(T) /\ Len(<< e >>) = 1
  <2>1. e \in T /\ S \subseteq T
    OBVIOUS
  <2> HIDE DEF T
  <2> QED
    BY <2>1, SeqMonotonic
<1> HIDE DEF T
<1>2. Len(x) \in Nat
  BY LenProperties
<1>3. /\ y \in Seq(T) /\ Len(y) = 1 + Len(x)
      /\ \A i \in 1 .. 1 + Len(x) : y[i] = IF i <= 1 THEN << e >>[i] ELSE x[i - 1]
  BY <1>1, ConcatProperties
<1> HIDE DEF y
<1>4. y # << >>
  <2>1. Len(<< >>) = 0
    OBVIOUS
  <2> QED
    BY <1>2, <1>3, <2>1
<1>5. /\ Tail(y) \in Seq(T) /\ Len(Tail(y)) = Len(x)
      /\ \A i \in 1 .. Len(Tail(y)) : Tail(y)[i] = y[i + 1]
  <2>1. /\ Tail(y) \in Seq(T) /\ Len(Tail(y)) = Len(y) - 1
        /\ \A i \in 1 .. Len(Tail(y)) : Tail(y)[i] = y[i + 1]
    BY <1>3, <1>4, HeadTailProperties
  <2> QED
    BY <1>2, <1>3, <2>1
<1>6. \A i \in 1 .. Len(x) : Tail(y)[i] = x[i]
  <2> SUFFICES ASSUME NEW i \in 1 .. Len(x) PROVE Tail(y)[i] = x[i]
    OBVIOUS
  <2>1. Tail(y)[i] = y[i + 1]
    BY <1>5
  <2>2. i + 1 \in 1 .. 1 + Len(x) /\ ~(i + 1 <= 1) /\ (i + 1) - 1 = i
    BY <1>2
  <2> QED
    BY <1>3, <2>1, <2>2
<1>7. Tail(y) = x
  BY <1>1, <1>5, <1>6, SeqEqual
<1> QED
  BY <1>4, <1>7 DEF y

\* A hash: none and an empty one are read as none.  The type of the content: an empty one
\* that a file is created with is read as the service's default.
LEMMA HeadersKept ==
    ASSUME NEW v, v.ContentMD5 \in Optional(Seq(STRING))
    PROVE  Kept("headers", v, Encode("headers", v))
<1> DEFINE h == HTTPHeaders(v)
           got == NewHTTPHeaders(h)
<1>1. got.ContentType = v.ContentType
  BY DEF HTTPHeaders, NewHTTPHeaders, HeaderGet, Sent, Absent
<1>2. h.ContentMD5 = IF v.ContentMD5 = Absent THEN Absent ELSE Sent(Base64(v.ContentMD5[1]))
  BY DEF HTTPHeaders
<1>3. got.ContentMD5 = ContentMD5(h.ContentMD5)
  BY DEF NewHTTPHeaders
<1> HIDE DEF h, got
<1>4. got.ContentMD5 = IF v.ContentMD5 = Sent(<< >>) THEN Absent ELSE v.ContentMD5
  <2>1. CASE v.ContentMD5 = Absent
    BY <1>2, <1>3, <2>1 DEF ContentMD5, HeaderGet, Absent, Sent
  <2>2. CASE v.ContentMD5 # Absent
    <3> DEFINE x == v.ContentMD5[1]
    <3>1. x \in Seq(STRING) /\ v.ContentMD5 = Sent(x)
      BY <2>2, OptionalIs
    <3> HIDE DEF x
    <3>2. h.ContentMD5 = Sent(Base64(x)) /\ HeaderGet(h.ContentMD5) = Base64(x)
      BY <1>2, <2>2 DEF x, HeaderGet, Sent, Absent
    <3>3. CASE x = << >>
      <4>1. Base64(x) = << >>
        BY <3>3 DEF Base64
      <4> QED
        BY <1>3, <3>1, <3>2, <3>3, <4>1 DEF ContentMD5
    <3>4. CASE x # << >>
      <4>1. Base64(x) = << "base64" >> \o x
        BY <3>4 DEF Base64
      <4>2. << "base64" >> \o x # << >> /\ Tail(<< "base64" >> \o x) = x
        BY <3>1, TailOfPrefixed
      <4>3. h.ContentMD5[1] = Base64(x)
        BY <3>2 DEF Sent
      <4> QED
        <5>1. ContentMD5(h.ContentMD5) = Sent(x)
          BY <3>2, <4>1, <4>2, <4>3 DEF ContentMD5
        <5>2. Sent(x) # Sent(<< >>)
          BY <3>4 DEF Sent
        <5> QED
          BY <1>3, <3>1, <5>1, <5>2
    <3> QED
      BY <3>3, <3>4
  <2> QED
    BY <2>1, <2>2
<1>5. ASSUME NEW c \in BOOLEAN
      PROVE  Preserved("headers", v, c, NewHTTPHeaders(Stored("headers", h, c)))
  <2>1. h.ContentType = Sent(v.ContentType) /\ "ContentType" \in DOMAIN h /\ "ContentMD5" \in DOMAIN h
    BY DEF h, HTTPHeaders
  <2>2. (h.ContentType = Sent(<< >>)) <=> (v.ContentType = << >>)
    BY <2>1 DEF Sent
  <2>3. CASE c /\ v.ContentType = << >>
    <3> DEFINE s == Stored("headers", h, c)
    <3>1. s = [h EXCEPT !.ContentType = Sent(DefaultContentType)]
      BY <2>2, <2>3 DEF Stored
    <3>2. s.ContentType = Sent(DefaultContentType) /\ s.ContentMD5 = h.ContentMD5
      BY <2>1, <3>1
    <3> HIDE DEF s
    <3>3. /\ NewHTTPHeaders(s).ContentType = DefaultContentType
          /\ NewHTTPHeaders(s).ContentMD5 = got.ContentMD5
      BY <1>3, <3>2 DEF NewHTTPHeaders, HeaderGet, Sent, Absent
    <3> QED
      BY <1>4, <2>3, <3>3 DEF Preserved, s
  <2>4. CASE ~(c /\ v.ContentType = << >>)
    <3>1. Stored("headers", h, c) = h
      BY <2>2, <2>4 DEF Stored
    <3> QED
      BY <1>1, <1>4, <2>4, <3>1 DEF Preserved, got
  <2> QED
    BY <2>3, <2>4
<1>6. Encode("headers", v) = h /\ \A w : Decode("headers", w) = NewHTTPHeaders(w)
  BY DEF Encode, Decode, h
<1> QED
  BY <1>5, <1>6 DEF Kept

\* Metrics: what is switched off is not sent, and what validation passes is kept.
LEMMA MetricsKept ==
    ASSUME NEW v \in MetricProperties,
           validatePtr(toM(v).RetentionPolicy.Days, {AtMost(365), AtLeast(1)})
    PROVE  SameMetrics(toMp(toM(v)), v)
<1> DEFINE m == toM(v)
           on == v.MetricEnabled /\ v.RetentionPolicyEnabled
           days == m.RetentionPolicy.Days
<1>1. /\ v.MetricEnabled \in BOOLEAN /\ v.IncludeAPIs \in BOOLEAN
      /\ v.RetentionPolicyEnabled \in BOOLEAN /\ v.RetentionDays \in Int
  BY DEF MetricProperties
<1>2. /\ m.Enabled = v.MetricEnabled
      /\ m.IncludeAPIs = IF v.MetricEnabled THEN Sent(v.IncludeAPIs) ELSE Absent
      /\ m.RetentionPolicy.Enabled = on
      /\ days = IF on THEN Sent(v.RetentionDays) ELSE Absent
  BY DEF toM
<1>3. on => days # Absent /\ days[1] = v.RetentionDays /\ v.RetentionDays \in 1 .. 365
  <2> SUFFICES ASSUME on PROVE days # Absent /\ days[1] = v.RetentionDays /\ v.RetentionDays \in 1 .. 365
    OBVIOUS
  <2>1. days # Absent /\ days[1] = v.RetentionDays
    BY <1>2 DEF Sent, Absent
  <2>2. validateInt(v.RetentionDays, AtMost(365)) /\ validateInt(v.RetentionDays, AtLeast(1))
    BY <2>1 DEF validatePtr
  <2>3. v.RetentionDays <= 365 /\ v.RetentionDays >= 1
    BY <2>2 DEF validateInt, AtMost, AtLeast
  <2> QED
    BY <1>1, <2>1, <2>3
<1> DEFINE got == toMp(m)
<1> HIDE DEF m
<1>4. /\ got.MetricEnabled = m.Enabled
      /\ got.IncludeAPIs = (m.Enabled /\ m.IncludeAPIs[1])
      /\ got.RetentionPolicyEnabled = (m.Enabled /\ m.RetentionPolicy.Enabled)
      /\ got.RetentionDays = IF m.Enabled /\ m.RetentionPolicy.Enabled THEN days[1] ELSE 0
  BY DEF toMp
<1> HIDE DEF got
<1>5. CASE v.MetricEnabled
  <2>1. m.IncludeAPIs[1] = v.IncludeAPIs
    BY <1>2, <1>5 DEF Sent
  <2>2. got.IncludeAPIs = v.IncludeAPIs /\ got.MetricEnabled = v.MetricEnabled
    BY <1>1, <1>2, <1>4, <1>5, <2>1
  <2>3. got.RetentionPolicyEnabled = on
    BY <1>1, <1>2, <1>4, <1>5
  <2>4. on => got.RetentionDays = v.RetentionDays /\ v.RetentionDays \in 1 .. 365
    BY <1>2, <1>3, <1>4, <1>5
  <2> QED
    BY <2>2, <2>3, <2>4 DEF SameMetrics, got, m
<1>6. CASE ~v.MetricEnabled
  <2>1. got.MetricEnabled = v.MetricEnabled
    BY <1>2, <1>4
  <2>2. got.RetentionPolicyEnabled = on /\ ~got.RetentionPolicyEnabled
    BY <1>1, <1>2, <1>4, <1>6
  <2> QED
    BY <1>6, <2>1, <2>2 DEF SameMetrics, got, m
<1> QED
  BY <1>5, <1>6

\* The service's properties come back through toSsp, XML and toFsp as they were meant.
LEMMA PropertiesKept ==
    ASSUME NEW v \in [HourMetrics : MetricProperties, MinuteMetrics : MetricProperties],
           Accepted("properties", v)
    PROVE  Kept("properties", v, Encode("properties", v))
<1> DEFINE w == toSsp(v)
           got == toFsp(w)
<1>1. /\ v.HourMetrics \in MetricProperties /\ v.MinuteMetrics \in MetricProperties
      /\ DOMAIN v = {"HourMetrics", "MinuteMetrics"}
  OBVIOUS
<1>2. ValidProperties(w)
  BY DEF Accepted
<1>3. w.HourMetrics = toM(v.HourMetrics) /\ w.MinuteMetrics = toM(v.MinuteMetrics)
  BY DEF toSsp
<1>4. got.HourMetrics = toMp(w.HourMetrics) /\ got.MinuteMetrics = toMp(w.MinuteMetrics)
  BY DEF toFsp
<1> HIDE DEF w, got
<1>5. /\ validatePtr(w.HourMetrics.RetentionPolicy.Days, {AtMost(365), AtLeast(1)})
      /\ validatePtr(w.MinuteMetrics.RetentionPolicy.Days, {AtMost(365), AtLeast(1)})
  BY <1>2 DEF ValidProperties
<1>6. SameMetrics(got.HourMetrics, v.HourMetrics) /\ SameMetrics(got.MinuteMetrics, v.MinuteMetrics)
  BY <1>1, <1>3, <1>4, <1>5, MetricsKept
<1>7. \A metrics \in DOMAIN v : SameMetrics(got[metrics], v[metrics])
  BY <1>1, <1>6
<1> QED
  BY <1>7 DEF Kept, Stored, Encode, Decode, Preserved, w, got

\* A letter is in one of two texts put together if it is in either.
LEMMA ContainsConcat ==
    ASSUME NEW S, NEW s \in Seq(S), NEW t \in Seq(S), NEW e
    PROVE  s \o t \in Seq(S) /\ (Contains(s \o t, e) <=> Contains(s, e) \/ Contains(t, e))
<1>1. /\ s \o t \in Seq(S) /\ Len(s \o t) = Len(s) + Len(t)
      /\ \A i \in 1 .. Len(s) + Len(t) : (s \o t)[i] = IF i <= Len(s) THEN s[i] ELSE t[i - Len(s)]
  BY ConcatProperties
<1>2. Len(s) \in Nat /\ Len(t) \in Nat
  BY LenProperties
<1> DEFINE u == s \o t
<1> HIDE DEF u
<1>3. ASSUME Contains(u, e) PROVE Contains(s, e) \/ Contains(t, e)
  <2>1. PICK i \in 1 .. Len(s) + Len(t) : u[i] = e
    BY <1>1, <1>3 DEF Contains, u
  <2>2. CASE i <= Len(s)
    <3>1. i \in 1 .. Len(s) /\ s[i] = e
      BY <1>1, <1>2, <2>1, <2>2 DEF u
    <3> QED
      BY <3>1 DEF Contains
  <2>3. CASE ~(i <= Len(s))
    <3>1. i - Len(s) \in 1 .. Len(t) /\ t[i - Len(s)] = e
      BY <1>1, <1>2, <2>1, <2>3 DEF u
    <3> QED
      BY <3>1 DEF Contains
  <2> QED
    BY <2>2, <2>3
<1>4. ASSUME Contains(s, e) PROVE Contains(u, e)
  <2>1. PICK i \in 1 .. Len(s) : s[i] = e
    BY <1>4 DEF Contains
  <2>2. i \in 1 .. Len(s) + Len(t) /\ u[i] = e
    BY <1>1, <1>2, <2>1 DEF u
  <2> QED
    BY <1>1, <2>2 DEF Contains, u
<1>5. ASSUME Contains(t, e) PROVE Contains(u, e)
  <2>1. PICK i \in 1 .. Len(t) : t[i] = e
    BY <1>5 DEF Contains
  <2>2. /\ i + Len(s) \in 1 .. Len(s) + Len(t)
        /\ ~(i + Len(s) <= Len(s)) /\ (i + Len(s)) - Len(s) = i
    BY <1>2
  <2>3. u[i + Len(s)] = e
    BY <1>1, <2>1, <2>2 DEF u
  <2> QED
    BY <1>1, <2>2, <2>3 DEF Contains, u
<1> QED
  BY <1>1, <1>3, <1>4, <1>5 DEF u

\* The five letters of a set of permissions are those of the set.
LEMMA PermissionsKept ==
    ASSUME NEW set \in SUBSET {"r", "c", "w", "d", "l"}
    PROVE  PermissionParse(PermissionString(set)) = set
<1> DEFINE L == {"r", "c", "w", "d", "l"}
           Letter(p) == IF p \in set THEN << p >> ELSE << >>
<1>1. ASSUME NEW p \in L, NEW e \in L
      PROVE  Letter(p) \in Seq(L) /\ (Contains(Letter(p), e) <=> p \in set /\ e = p)
  <2> HIDE DEF L
  <2>1. CASE p \in set
    <3>1. << p >> \in Seq(L) /\ Len(<< p >>) = 1 /\ << p >>[1] = p
      OBVIOUS
    <3>2. Contains(<< p >>, e) <=> e = p
      BY <3>1 DEF Contains
    <3> QED
      BY <2>1, <3>1, <3>2
  <2>2. CASE p \notin set
    <3>1. << >> \in Seq(L) /\ Len(<< >>) = 0
      OBVIOUS
    <3>2. ~Contains(<< >>, e)
      BY <3>1 DEF Contains
    <3> QED
      BY <2>2, <3>1, <3>2
  <2> QED
    BY <2>1, <2>2
<1>2. "r" \in L /\ "c" \in L /\ "w" \in L /\ "d" \in L /\ "l" \in L
  OBVIOUS
<1>3. PermissionString(set) = Letter("r") \o Letter("c") \o Letter("w") \o Letter("d") \o Letter("l")
  BY DEF PermissionString
<1> DEFINE rc == Letter("r") \o Letter("c")
           rcw == rc \o Letter("w")
           rcwd == rcw \o Letter("d")
<1> HIDE DEF Letter
<1>4. ASSUME NEW e \in L PROVE Contains(PermissionString(set), e) <=> e \in set
  <2>1. rc \in Seq(L) /\ (Contains(rc, e) <=> Contains(Letter("r"), e) \/ Contains(Letter("c"), e))
    BY <1>1, <1>2, ContainsConcat
  <2> HIDE DEF rc
  <2>2. rcw \in Seq(L) /\ (Contains(rcw, e) <=> Contains(rc, e) \/ Contains(Letter("w"), e))
    BY <1>1, <1>2, <2>1, ContainsConcat
  <2> HIDE DEF rcw
  <2>3. rcwd \in Seq(L) /\ (Contains(rcwd, e) <=> Contains(rcw, e) \/ Contains(Letter("d"), e))
    BY <1>1, <1>2, <2>2, ContainsConcat
  <2> HIDE DEF rcwd
  <2>4. Contains(rcwd \o Letter("l"), e) <=> Contains(rcwd, e) \/ Contains(Letter("l"), e)
    BY <1>1, <1>2, <2>3, ContainsConcat
  <2>5. PermissionString(set) = rcwd \o Letter("l")
    BY <1>3 DEF rcwd, rcw, rc
  <2>6. \A p \in L : Contains(Letter(p), e) <=> p \in set /\ e = p
    BY <1>1
  <2> QED
    BY <1>2, <2>1, <2>2, <2>3, <2>4, <2>5, <2>6
<1> QED
  BY <1>4 DEF PermissionParse

\* A time is cut to the seventh digit of its second.
LEMMA TimeKept ==
    ASSUME NEW v \in Optional(Int \X Nat) PROVE SameTime(TextToTime(TimeToText(v)), v)
<1>1. CASE v = Absent
  BY <1>1 DEF TextToTime, TimeToText, SameTime, Absent
<1>2. CASE v # Absent
  <2>1. v[1] \in Int \X Nat
    BY <1>2, OptionalIs
  <2> DEFINE s == v[1][1]
             n == v[1][2]
  <2>2. s \in Int /\ n \in Nat
    BY <2>1
  <2>3. TimeToText(v) = Sent(<< s, n \div 100 >>)
    BY <1>2 DEF TimeToText
  <2>4. Sent(<< s, n \div 100 >>) # Absent /\ Sent(<< s, n \div 100 >>)[1] = << s, n \div 100 >>
    BY DEF Sent, Absent
  <2>5. TextToTime(TimeToText(v)) = Sent(<< s, (n \div 100) * 100 >>)
    BY <2>3, <2>4 DEF TextToTime
  <2> HIDE DEF s, n
  <2>6. n - (n \div 100) * 100 \in 0 .. 99
    BY <2>2
  <2>7. LET got == Sent(<< s, (n \div 100) * 100 >>) IN
        got # Absent /\ got[1][1] = s /\ got[1][2] = (n \div 100) * 100
    BY DEF Sent, Absent
  <2> QED
    BY <1>2, <2>5, <2>6, <2>7 DEF SameTime, s, n
<1> QED
  BY <1>1, <1>2

\* StoredFields access policies come back in order, with the same times and permissions.
LEMMA PoliciesKept ==
    ASSUME NEW v \in Seq(AccessPolicy) PROVE Kept("policies", v, Encode("policies", v))
<1> DEFINE w == MarshalPolicies(v)
           got == UnmarshalPolicies(w)
<1>1. Len(v) \in Nat /\ DOMAIN v = 1 .. Len(v) /\ \A i \in 1 .. Len(v) : v[i] \in AccessPolicy
  BY LenProperties, ElementOfSeq
<1>2. /\ DOMAIN w = 1 .. Len(v)
      /\ \A i \in 1 .. Len(v) : /\ w[i].Start = TimeToText(v[i].Start)
                                /\ w[i].Permission = PermissionString(v[i].Permission)
  BY <1>1 DEF MarshalPolicies
<1>3. /\ got = [i \in 1 .. Len(v) |-> got[i]]
      /\ \A i \in 1 .. Len(v) : /\ got[i].Start = TextToTime(w[i].Start)
                                /\ got[i].Permission = PermissionParse(w[i].Permission)
  BY <1>2 DEF UnmarshalPolicies
<1> HIDE DEF w, got
<1>4. Len(got) = Len(v)
  BY <1>1, <1>3
<1>5. ASSUME NEW i \in 1 .. Len(v)
      PROVE  got[i].Permission = v[i].Permission /\ SameTime(got[i].Start, v[i].Start)
  <2>1. v[i].Start \in Optional(Int \X Nat) /\ v[i].Permission \in SUBSET {"r", "c", "w", "d", "l"}
    BY <1>1 DEF AccessPolicy
  <2> QED
    BY <1>2, <1>3, <2>1, TimeKept, PermissionsKept
<1> QED
  BY <1>1, <1>4, <1>5 DEF Kept, Stored, Encode, Decode, Preserved, w, got

\* Of two spellings of a name, one is kept; every name is.
LEMMA MetadataKept ==
    ASSUME NEW v, NEW h \in MetadataHeaders(v) PROVE Kept("metadata", v, h)
<1> DEFINE letters == {name[1] : name \in DOMAIN v}
           got == NewMetadata(h)
<1>1. /\ DOMAIN h = letters \X {"Canonical"}
      /\ \A k \in DOMAIN h : \E name \in DOMAIN v : name[1] = k[1] /\ h[k] = v[name]
  BY DEF MetadataHeaders
<1>2. /\ DOMAIN got = {<< k[1], "lower" >> : k \in DOMAIN h}
      /\ \A n \in DOMAIN got : got[n] = h[<< n[1], "Canonical" >>]
  BY DEF NewMetadata
<1> HIDE DEF got
<1>3. DOMAIN got = {<< name[1], "lower" >> : name \in DOMAIN v}
  <2>1. ASSUME NEW n \in DOMAIN got PROVE \E name \in DOMAIN v : n = << name[1], "lower" >>
    BY <1>1, <1>2
  <2>2. ASSUME NEW name \in DOMAIN v PROVE << name[1], "lower" >> \in DOMAIN got
    <3>1. << name[1], "Canonical" >> \in DOMAIN h
      BY <1>1
    <3>2. << name[1], "Canonical" >>[1] = name[1]
      OBVIOUS
    <3> QED
      BY <1>2, <3>1, <3>2
  <2> QED
    BY <2>1, <2>2
<1>4. ASSUME NEW n \in DOMAIN got PROVE \E name \in DOMAIN v : name[1] = n[1] /\ got[n] = v[name]
  <2>1. PICK k \in DOMAIN h : n = << k[1], "lower" >>
    BY <1>2
  <2>2. n[1] = k[1] /\ << n[1], "Canonical" >> = k
    BY <1>1, <2>1
  <2> QED
    BY <1>1, <1>2, <2>2
<1> QED
  BY <1>3, <1>4 DEF Kept, Stored, Decode, Preserved, got

\* The fields that a preparer makes of the arguments of a call, as the service holds them.
LEMMA FieldKept ==
    ASSUME NEW o \in Operations, NEW a \in Arguments[o], \A g \in o.sends : Accepted(g, a[g]),
           NEW metadata \in MetadataSent(o, a), NEW f \in o.sends \cap StoredFields
    PROVE  Kept(f, a[f], IF f = "metadata" THEN metadata ELSE Encode(f, a[f]))
<1>1. PICK b \in Asked : a = [g \in o.sends |-> b[g]]
  BY DEF Arguments
<1>2. Typed(b) /\ a[f] = b[f] /\ Accepted(f, a[f])
  BY <1>1, AskedAssumption
<1>3. CASE f = "length"
  BY <1>3, LengthKept
<1>4. CASE f = "headers"
  BY <1>2, <1>4, HeadersKept DEF Typed
<1>5. CASE f = "quota"
  BY <1>2, <1>5, QuotaKept DEF Typed
<1>6. CASE f = "policies"
  BY <1>2, <1>6, PoliciesKept DEF Typed
<1>7. CASE f = "properties"
  BY <1>2, <1>7, PropertiesKept DEF Typed
<1>8. CASE f = "metadata"
  <2>1. metadata \in MetadataHeaders(a[f])
    BY <1>8 DEF MetadataSent
  <2> QED
    BY <1>8, <2>1, MetadataKept
<1> QED
  BY <1>3, <1>4, <1>5, <1>6, <1>7, <1>8 DEF StoredFields

-----------------------------------------------------------------------------
(* The inductive invariant. *)

P == INSTANCE RetryPolicyProofs

\* The current try, and all there have been.
This == << call, try >>
Begun == (1 .. call) \X Policy!Tries

\* The retry policy's own invariant, once it runs.
PolicyInv ==
    IF pc \in {"idle", "refused"} THEN \A t \in Policy!Tries : body[t] # "open" ELSE P!IInv

\* A request that the generated client of one of the kind's operations has made.
WellFormed(r) ==
    /\ DOMAIN r = RequestKeys
    /\ r.op \in Operations
    /\ Signature(r) = Signature(r.op)

\* The retry policy's request has the id of its call, and neither date nor signature.
RequestInv ==
    /\ kind \in DOMAIN Methods
    /\ WellFormed(request)
    /\ pc \notin {"idle", "refused"} =>
         /\ request.op \in Methods[kind]
         /\ NamesRange(request)
         /\ request.id = Sent(<< call, 0 >>)
         /\ request.date = Absent
    /\ \A t \in Policy!Tries : body[t] = "open" => request.op.reply = "open"

\* A request under way is that of its call, signed in its try.
MessageInv ==
    \A m \in network :
        /\ WellFormed(m) /\ m.op \in Methods[kind]
        /\ NamesRange(m)
        /\ cred = "sharedKey" => m.signature = Sent(buildStringToSign(m))
        /\ cred = "sharedKey" /\ m.from = This /\ pc = "do" => m.date = Sent(now)
        /\ m.id = Sent(<< m.from[1], 0 >>)
        /\ m.from[1] = call => m.op = request.op /\ m.fields = request.fields
        /\ \A n \in network : m.from[1] = n.from[1] => m.fields = n.fields

\* A request under way has not been done, and its caller was not told of it, unless
\* its try still waits.
UnderWay ==
    \A m \in network :
        /\ m.from \in Begun
        /\ m.from \notin Writers
        /\ \/ m.from \in unknown
           \/ m.from = This /\ pc = "do" /\ answer = Absent /\ try \notin unsent
        /\ \A n \in network : m.from = n.from => m = n

\* Nothing is known of a try before it begins.
Fresh ==
    /\ call \in Nat /\ (pc # "idle" => call > 0) /\ unknown \subseteq Begun
    /\ applied \in Seq(Nat \X Policy!Tries) /\ Writers \subseteq Begun
    /\ pc \in {"idle", "refused"} => \A t \in Policy!Tries : << call, t >> \notin unknown \cup Writers
    /\ pc \notin {"idle", "refused"} =>
         \A t \in Policy!Tries : t > try => << call, t >> \notin unknown \cup Writers
    /\ pc \in {"sleep", "do"} => This \notin unknown
    /\ pc = "sleep" => This \notin Writers
    /\ pc = "do" /\ try \in unsent => This \notin Writers

\* The writes whose callers have a definite answer: one of each call, and in the
\* current call it is the last try's, which has no error.
Definite ==
    /\ \A v, w \in Writers \ unknown : v[1] = w[1] => v = w
    /\ \A w \in Writers \ unknown : w[1] = call =>
         w = This /\ (pc \in {"classify", "returned", "closed"} => err[try] = Policy!NoError)
    /\ \A i, j \in DOMAIN applied : applied[i] = This /\ i < j => applied[j] \in unknown

\* What the answer says of what was done, while it is on its way and when it is there.
AnswerInv ==
    /\ pc = "do" /\ answer # Absent => try \notin unsent
    /\ pc = "do" /\ answer = Absent => This \notin Writers
    /\ pc = "do" /\ answer # Absent =>
         IF This \in Writers
           THEN \/ answer[1].status = 503
                \/ answer[1].status \in request.op.ok /\ request.op.reply = "discard"
           ELSE answer[1].status \notin request.op.ok \/ request.op \in Reads
    /\ pc \in {"classify", "returned", "closed"} /\ err[try] = Policy!NoError /\ request.op \notin Reads =>
         This \in Writers

IInv ==
    PolicyInv /\ RequestInv /\ MessageInv /\ UnderWay /\ Fresh /\ Definite /\ AnswerInv

-----------------------------------------------------------------------------
(* The steps keep it. *)

\* What the retry policy's invariant says to the rest.
LEMMA PolicyTypes ==
    ASSUME P!IInv
    PROVE  /\ Policy!Tries = 1 .. MaxTries /\ try \in Policy!Tries
           /\ DOMAIN err = Policy!Tries /\ DOMAIN body = Policy!Tries
           /\ unsent \subseteq {try}
           /\ \A t \in Policy!Tries : body[t] = "open" => t = try
BY MaxTriesAssumption
   DEF P!IInv, P!TypeOK, P!Behind, P!Ahead, P!Unsent, P!Tries, Policy!Tries

\* The retry policy's own steps keep its invariant.
LEMMA PolicyKeeps ==
    /\ P!IInv /\ Policy!StartTry => P!IInv'
    /\ \A r \in Policy!Results : P!IInv /\ Policy!DoReturns(r) => P!IInv'
    /\ P!IInv /\ (Policy!GiveUp \/ Policy!Succeed \/ Policy!Retry) => P!IInv'
    /\ P!IInv /\ (Policy!ContextEnds \/ Policy!CloseBody) => P!IInv'
<1>1. P!IInv /\ Policy!StartTry => P!IInv'
  BY P!StartTryIInv, MaxTriesAssumption DEF Policy!StartTry, P!StartTry
<1>2. \A r \in Policy!Results : P!IInv /\ Policy!DoReturns(r) => P!IInv'
  <2>1. Policy!Results = P!Results
    BY DEF Policy!Results, P!Results, Policy!StorageErrors, P!StorageErrors, Policy!OtherErrors,
           P!OtherErrors, Policy!NoError, P!NoError
  <2>2. \A r : Policy!DoReturns(r) <=> P!DoReturns(r)
    BY DEF Policy!DoReturns, P!DoReturns, Policy!UnsentResult, P!UnsentResult
  <2> QED
    BY <2>1, <2>2, P!DoReturnsIInv, MaxTriesAssumption
<1>3. P!IInv /\ (Policy!GiveUp \/ Policy!Succeed \/ Policy!Retry) => P!IInv'
  <2>1. Policy!ShouldRetry <=> P!ShouldRetry
    BY DEF Policy!ShouldRetry, P!ShouldRetry
  <2>2. Policy!NoError = P!NoError
    BY DEF Policy!NoError, P!NoError
  <2>3. P!IInv /\ Policy!GiveUp => P!IInv'
    BY <2>1, <2>2, P!LeaveIInv, MaxTriesAssumption DEF Policy!GiveUp, P!GiveUp
  <2>4. P!IInv /\ Policy!Succeed => P!IInv'
    BY <2>1, <2>2, P!LeaveIInv, MaxTriesAssumption DEF Policy!Succeed, P!Succeed
  <2>5. P!IInv /\ Policy!Retry => P!IInv'
    BY <2>1, P!RetryIInv, MaxTriesAssumption DEF Policy!Retry, P!Retry
  <2> QED
    BY <2>3, <2>4, <2>5
<1>4. P!IInv /\ (Policy!ContextEnds \/ Policy!CloseBody) => P!IInv'
  BY P!CallerIInv, MaxTriesAssumption
     DEF Policy!ContextEnds, P!ContextEnds, Policy!CloseBody, P!CloseBody, Policy!Tries, P!Tries
<1> QED
  BY <1>1, <1>2, <1>3, <1>4

\* A call that begins has the retry policy start afresh.
LEMMA PolicyStarts ==
    ASSUME pc' = "sleep", try' = 1, ctxDone' = FALSE, unsent' = {}, wrapper' = 0,
           tryCtx' = [t \in Policy!Tries |-> "none"], err' = [t \in Policy!Tries |-> "none"],
           body' = [t \in Policy!Tries |-> "none"]
    PROVE  P!IInv'
<1>1. Policy!Tries = P!Tries
  BY DEF Policy!Tries, P!Tries
<1>2. P!Init'
  BY <1>1 DEF P!Init
<1>3. P!Init' => P!IInv'
  BY P!InitIInv, MaxTriesAssumption, PTL
<1> QED
  BY <1>2, <1>3

\* A call: every try and every write so far is of an earlier one.
LEMMA CallIInv ==
    ASSUME IInv, NEW o \in Methods[kind], NEW a \in Arguments[o], Call(o, a)
    PROVE  IInv'
<1>1. /\ pc \in {"idle", "refused", "returned", "closed"}
      /\ \A t \in Policy!Tries : body[t] # "open"
      /\ call' = call + 1 /\ answer' = Absent
      /\ kind' = kind /\ cred' = cred /\ network' = network /\ now' = now
      /\ applied' = applied /\ unknown' = unknown /\ Writers' = Writers
      /\ Refuse(o, a) \/ Begin(o, a)
  BY DEF Call, Idle, serviceVars, Writers
<1>2. pc' \in {"refused", "sleep"}
  BY <1>1 DEF Refuse, Begin
<1>3. call \in Nat /\ unknown \subseteq Begun /\ Writers \subseteq Begun
  BY DEF IInv, Fresh
<1>4. Begun \subseteq Begun' /\ \A x \in Begun : x[1] # call'
  BY <1>1, <1>3 DEF Begun
<1>5. \A x \in unknown' \cup Writers' : x \in Begun' /\ x[1] # call'
  BY <1>1, <1>3, <1>4
<1>6. \A m \in network' : m.from \in unknown' /\ m.from \in Begun' /\ m.from[1] # call'
  BY <1>1, <1>3, <1>4 DEF IInv, UnderWay
<1>7. PolicyInv'
  <2>1. CASE Refuse(o, a)
    BY <1>1, <2>1 DEF Refuse, PolicyInv
  <2>2. CASE Begin(o, a)
    <3>1. pc' = "sleep" /\ P!IInv'
      BY <2>2, PolicyStarts DEF Begin
    <3> QED
      BY <3>1 DEF PolicyInv
  <2> QED
    BY <1>1, <2>1, <2>2
<1>8. RequestInv'
  <2>1. kind \in DOMAIN Methods /\ o \in Operations
    BY DEF IInv, RequestInv, Operations
  <2>2. CASE Refuse(o, a)
    BY <1>1, <2>2 DEF Refuse, IInv, RequestInv
  <2>3. CASE Begin(o, a)
    <3>1. PICK metadata \in MetadataSent(o, a) :
            request' = [Through(AboveRetry,
                                Prepare(o, [f \in o.sends |-> IF f = "metadata" THEN metadata ELSE Encode(f, a[f])]),
                                call + 1, 0) EXCEPT !.asked = a]
      BY <2>3 DEF Begin
    <3> DEFINE fields == [f \in o.sends |-> IF f = "metadata" THEN metadata ELSE Encode(f, a[f])]
    <3>2. /\ DOMAIN request' = RequestKeys
          /\ request'.op = o /\ Signature(request') = Signature(o)
          /\ request'.fields = fields /\ request'.asked = a
          /\ request'.id = Sent(<< call', 0 >>) /\ request'.date = Absent
      <4> HIDE DEF fields
      <4>1. request' = RequestOf(o, fields, a, call + 1)
        BY <3>1 DEF fields, RequestOf
      <4> QED
        BY <1>1, <4>1, BegunRequest
    <3>3. WellFormed(request')
      BY <2>1, <3>2 DEF WellFormed
    <3>4. NamesRange(request')
      <4>1. \A f \in o.sends \ {"metadata"} : fields[f] = Encode(f, a[f])
        OBVIOUS
      <4> HIDE DEF fields
      <4>2. \A f \in o.sends : Accepted(f, a[f])
        BY <2>3 DEF Begin
      <4>3. ASSUME NEW f \in o.sends \cap {"range", "writtenRange"}
            PROVE  RangeDenoted(fields[f]) = RangeAsked(a[f])
        BY <2>1, <4>1, RangeNamed
      <4>4. ASSUME "downloadRange" \in o.sends
            PROVE  LET sent == fields["downloadRange"]
                       wanted == a["downloadRange"]
                   IN  /\ RangeDenoted(sent.range) = RangeAsked(wanted)
                       /\ (sent.md5 # Absent) <=> wanted.rangeGetContentMD5
                       /\ sent.md5 # Absent => sent.range # Absent
        BY <2>1, <4>1, <4>2, <4>4, DownloadNamed
      <4>5. DOMAIN fields = o.sends
        BY DEF fields
      <4> QED
        BY <3>2, <4>3, <4>4, <4>5 DEF NamesRange
    <3>5. \A t \in Policy!Tries : body'[t] # "open"
      BY <2>3 DEF Begin
    <3> QED
      BY <1>1, <2>1, <3>2, <3>3, <3>4, <3>5 DEF RequestInv
  <2> QED
    BY <1>1, <2>2, <2>3
<1>9. MessageInv'
  BY <1>1, <1>2, <1>6 DEF IInv, MessageInv
<1>10. UnderWay'
  BY <1>1, <1>6 DEF IInv, UnderWay
<1>11. Fresh'
  <2>1. \A t : << call', t >> \notin unknown' \cup Writers'
    BY <1>5
  <2>2. call' \in Nat /\ call' > 0 /\ unknown' \subseteq Begun' /\ Writers' \subseteq Begun'
    BY <1>1, <1>3, <1>5
  <2> QED
    BY <1>1, <1>2, <2>1, <2>2 DEF IInv, Fresh, This
<1>12. Definite'
  <2>1. \A i \in DOMAIN applied : applied[i] \in Writers
    BY DEF Writers
  <2> QED
    BY <1>1, <1>5, <2>1 DEF IInv, Definite, This
<1>13. AnswerInv'
  BY <1>2 DEF AnswerInv
<1> QED
  BY <1>7, <1>8, <1>9, <1>10, <1>11, <1>12, <1>13 DEF IInv

\* A try: the request that it sends is new.
LEMMA StartTryIInv == ASSUME IInv, StartTry PROVE IInv'
<1>1. /\ Policy!StartTry /\ pc = "sleep" /\ pc' = "do" /\ answer' = Absent
      /\ try' = try /\ err' = err /\ body' = body
      /\ kind' = kind /\ cred' = cred /\ call' = call /\ request' = request /\ now' = now
      /\ applied' = applied /\ unknown' = unknown /\ Writers' = Writers
  BY DEF StartTry, Policy!StartTry, callVars, serviceVars, Writers
<1>2. P!IInv
  BY <1>1 DEF IInv, PolicyInv
<1>3. This' = This /\ Begun' = Begun /\ This \in Begun /\ This \notin unknown \cup Writers
  BY <1>1, <1>2, PolicyTypes DEF IInv, Fresh, This, Begun
<1>4. \A m \in network : m.from \in unknown
  BY <1>1 DEF IInv, UnderWay
<1> DEFINE new == MessageOf(request, call, try)
<1>5. /\ WellFormed(new) /\ new.op = request.op /\ new.fields = request.fields
      /\ NamesRange(new) /\ new.op \in Methods[kind]
      /\ new.id = Sent(<< call, 0 >>) /\ new.from = This
      /\ cred = "sharedKey" => new.date = Sent(now) /\ new.signature = Sent(buildStringToSign(new))
  <2>1. DOMAIN request = RequestKeys /\ WellFormed(request) /\ request.date = Absent
    BY <1>1 DEF IInv, RequestInv, WellFormed
  <2>2. /\ DOMAIN new = RequestKeys
        /\ new.op = request.op /\ Signature(new) = Signature(request) /\ new.fields = request.fields
        /\ new.asked = request.asked /\ new.id = request.id /\ new.from = << call, try >>
        /\ cred = "sharedKey" =>
             new.date = Sent(now) /\ new.signature = Sent(buildStringToSign(new))
    BY <2>1, SentRequest
  <2> QED
    BY <1>1, <2>1, <2>2 DEF IInv, RequestInv, WellFormed, NamesRange, This
<1>6. /\ network' = IF ctxDone THEN network ELSE network \cup {new}
      /\ ~ctxDone => try \notin unsent'
  BY <1>2 DEF StartTry, MessageOf, P!IInv, P!Unsent, Policy!StartTry
<1> HIDE DEF new
<1>7. P!IInv' /\ PolicyInv'
  BY <1>1, <1>2, PolicyKeeps DEF PolicyInv
<1>8. RequestInv'
  BY <1>1 DEF IInv, RequestInv
<1>9. MessageInv'
  <2> SUFFICES ASSUME NEW m \in network'
               PROVE  /\ WellFormed(m) /\ m.op \in Methods[kind]
                      /\ NamesRange(m)
                      /\ cred = "sharedKey" => m.signature = Sent(buildStringToSign(m))
                      /\ cred = "sharedKey" /\ m.from = This => m.date = Sent(now)
                      /\ m.id = Sent(<< m.from[1], 0 >>)
                      /\ m.from[1] = call => m.op = request.op /\ m.fields = request.fields
                      /\ \A n \in network' : m.from[1] = n.from[1] => m.fields = n.fields
    BY <1>1, <1>3 DEF MessageInv
  <2>1. new.from[1] = call
    BY <1>5 DEF This
  <2>2. CASE m = new
    BY <1>5, <1>6, <2>1, <2>2 DEF IInv, MessageInv
  <2>3. CASE m \in network
    BY <1>3, <1>4, <1>5, <1>6, <2>1, <2>3 DEF IInv, MessageInv
  <2> QED
    BY <1>6, <2>2, <2>3
<1>10. UnderWay'
  BY <1>1, <1>3, <1>4, <1>5, <1>6 DEF IInv, UnderWay
<1>11. Fresh'
  BY <1>1, <1>3 DEF IInv, Fresh
<1>12. Definite'
  BY <1>1, <1>3 DEF IInv, Definite
<1>13. AnswerInv'
  BY <1>1, <1>3 DEF AnswerInv
<1> QED
  BY <1>7, <1>8, <1>9, <1>10, <1>11, <1>12, <1>13 DEF IInv

\* A try ends: what it leaves under way, and what it did without being believed, is unknown.
LEMMA TryEndsIInv ==
    ASSUME IInv, NEW r \in Policy!Results, Policy!DoReturns(r),
           UNCHANGED << callVars, now, serviceVars >>,
           network' \subseteq network, \A m \in network' : m.from \in unknown',
           unknown' \in {unknown, unknown \cup {This}},
           This \in Writers => This \in unknown' \/ r.err = Policy!NoError,
           r.err = Policy!NoError /\ request.op \notin Reads => This \in Writers,
           r.body = "open" => request.op.reply = "open"
    PROVE  IInv'
<1>1. /\ pc = "do" /\ pc' = "classify" /\ try' = try /\ unsent' = unsent
      /\ err' = [err EXCEPT ![try] = r.err] /\ body' = [body EXCEPT ![try] = r.body]
      /\ kind' = kind /\ cred' = cred /\ call' = call /\ request' = request /\ now' = now
      /\ applied' = applied /\ Writers' = Writers
  BY DEF Policy!DoReturns, callVars, serviceVars, Writers
<1>2. P!IInv
  BY <1>1 DEF IInv, PolicyInv
<1>3. /\ try \in Policy!Tries /\ err'[try] = r.err /\ body'[try] = r.body
      /\ \A t \in Policy!Tries : t # try => body'[t] = body[t]
  BY <1>1, <1>2, PolicyTypes
<1>4. This' = This /\ Begun' = Begun /\ This \in Begun
  BY <1>1, <1>3 DEF IInv, Fresh, This, Begun
<1>5. unknown \subseteq unknown' /\ unknown' \subseteq unknown \cup {This}
  OBVIOUS
<1>6. PolicyInv'
  BY <1>1, <1>2, PolicyKeeps DEF PolicyInv
<1>7. RequestInv'
  BY <1>1, <1>3 DEF IInv, RequestInv
<1>8. MessageInv'
  BY <1>1, <1>4 DEF IInv, MessageInv
<1>9. UnderWay'
  BY <1>1, <1>4 DEF IInv, UnderWay
<1>10. Fresh'
  <2>1. \A t \in Policy!Tries : t > try => << call, t >> \notin unknown' \cup Writers
    BY <1>1, <1>3, <1>5, MaxTriesAssumption DEF IInv, Fresh, This, Policy!Tries
  <2> QED
    BY <1>1, <1>4, <1>5, <2>1 DEF IInv, Fresh
<1>11. Definite'
  BY <1>1, <1>3, <1>4, <1>5 DEF IInv, Definite
<1>12. AnswerInv'
  BY <1>1, <1>3, <1>4 DEF AnswerInv
<1> QED
  BY <1>6, <1>7, <1>8, <1>9, <1>10, <1>11, <1>12 DEF IInv

\* The answer of the current try reaches the responder.
LEMMA AnswerArrivesIInv == ASSUME IInv, NEW r \in Policy!Results, AnswerArrives(r) PROVE IInv'
<1>1. /\ pc = "do" /\ answer # Absent /\ try \notin unsent
      /\ r \in Respond(request.op, answer[1].status)
  BY DEF AnswerArrives, Policy!DoReturns, IInv, AnswerInv
<1>2. unknown' = IF r.err \in {"net", "other", "temporary"} THEN unknown \cup {This} ELSE unknown
  BY <1>1 DEF AnswerArrives, NoteTry, This
<1>3. /\ request.op \in Operations /\ request.op.ok \subseteq {200, 201, 202, 204, 206}
      /\ request.op.reply \in {"discard", "xml", "open"}
  BY Replies DEF IInv, RequestInv, WellFormed, Reply
<1>4. answer[1].status \notin request.op.ok =>
        /\ r.err # Policy!NoError /\ r.body = "closed"
        /\ answer[1].status = 503 => r.err \in {"net", "other", "temporary"}
  BY <1>1 DEF Respond, Failed, ErrorOf, Temporary, Policy!NoError
<1>5. answer[1].status \in request.op.ok =>
        /\ request.op.reply = "discard" => r.err = Policy!NoError
        /\ r.body = "open" => request.op.reply = "open"
  BY <1>1, <1>3 DEF Respond, Failed, Policy!NoError
<1>6. This \in Writers => This \in unknown' \/ r.err = Policy!NoError
  BY <1>1, <1>2, <1>3, <1>4, <1>5 DEF IInv, AnswerInv
<1>7. r.err = Policy!NoError /\ request.op \notin Reads => This \in Writers
  BY <1>1, <1>4 DEF IInv, AnswerInv
<1>8. \A m \in network' : m.from \in unknown'
  BY <1>1, <1>2 DEF AnswerArrives, IInv, UnderWay
<1> QED
  BY <1>2, <1>4, <1>5, <1>6, <1>7, <1>8, TryEndsIInv DEF AnswerArrives

\* A try ends without an answer: timeout, lost connection or the caller's context.
LEMMA NoAnswerIInv == ASSUME IInv, NoAnswer PROVE IInv'
<1> DEFINE r == [err |-> "net", body |-> "nil"]
<1>1. r \in Policy!Results /\ r.err # Policy!NoError /\ r.err = "net" /\ r.body = "nil"
  BY DEF Policy!Results, Policy!OtherErrors, Policy!NoError
<1> HIDE DEF r
<1>2. /\ pc = "do" /\ Policy!DoReturns(r) /\ network' = network
      /\ unknown' = IF try \notin unsent THEN unknown \cup {This} ELSE unknown
      /\ UNCHANGED << callVars, now, serviceVars >>
  BY DEF NoAnswer, Policy!DoReturns, NoteTry, This, r
<1>3. \A m \in network' : m.from \in unknown'
  BY <1>2 DEF IInv, UnderWay
<1>4. This \in Writers => This \in unknown'
  BY <1>2 DEF IInv, Fresh
<1> QED
  BY <1>1, <1>2, <1>3, <1>4, TryEndsIInv

\* A try ends before anything was sent.
LEMMA CannotSendIInv == ASSUME IInv, CannotSend PROVE IInv'
<1> DEFINE r == [err |-> "netFatal", body |-> "nil"]
<1>1. r \in Policy!Results /\ r.err # Policy!NoError /\ r.err = "netFatal" /\ r.body = "nil"
  BY DEF Policy!Results, Policy!OtherErrors, Policy!NoError
<1> HIDE DEF r
<1>2. /\ pc = "do" /\ Policy!DoReturns(r) /\ unknown' = unknown
      /\ UNCHANGED << callVars, now, serviceVars >>
  BY DEF CannotSend, Policy!DoReturns, r
<1>3. PICK m \in network : m.from = This /\ network' = network \ {m}
  BY DEF CannotSend, This
<1>4. \A n \in network' : n.from \in unknown'
  BY <1>2, <1>3 DEF IInv, UnderWay
<1>5. This \notin Writers
  BY <1>3 DEF IInv, UnderWay
<1> QED
  BY <1>1, <1>2, <1>3, <1>4, <1>5, TryEndsIInv

\* The retry policy goes on within the same try, or returns, or the caller acts.
LEMMA SameTryIInv ==
    ASSUME IInv, P!IInv, P!IInv',
           pc' = pc \/ (pc \in {"classify", "returned"} /\ pc' \in {"returned", "closed"}),
           pc' = "do" => now' = now,
           UNCHANGED << try, err, unsent, callVars, network, answer, serviceVars, unknown >>,
           \A t \in Policy!Tries : body'[t] = "open" => body[t] = "open",
           pc \notin {"idle", "refused"}
    PROVE  IInv'
<1>1. /\ try' = try /\ err' = err /\ unsent' = unsent /\ network' = network /\ answer' = answer
      /\ kind' = kind /\ cred' = cred /\ call' = call /\ request' = request
      /\ applied' = applied /\ unknown' = unknown /\ Writers' = Writers
      /\ This' = This /\ Begun' = Begun
  BY DEF callVars, serviceVars, Writers, This, Begun
<1>2. pc' \notin {"idle", "refused"}
  OBVIOUS
<1>3. PolicyInv'
  BY <1>2 DEF PolicyInv
<1>4. RequestInv'
  BY <1>1, <1>2 DEF IInv, RequestInv
<1>5. MessageInv'
  BY <1>1 DEF IInv, MessageInv
<1>6. UnderWay'
  BY <1>1 DEF IInv, UnderWay
<1>7. Fresh'
  BY <1>1, <1>2 DEF IInv, Fresh
<1>8. Definite'
  BY <1>1 DEF IInv, Definite
<1>9. AnswerInv'
  BY <1>1 DEF IInv, AnswerInv
<1> QED
  BY <1>3, <1>4, <1>5, <1>6, <1>7, <1>8, <1>9 DEF IInv

\* A try that is retried has done nothing that its caller was told of.
LEMMA NextTryIInv ==
    ASSUME IInv, Policy!Retry, try < MaxTries,
           UNCHANGED << callVars, network, answer, serviceVars, unknown >>
    PROVE  IInv'
<1>1. /\ pc = "classify" /\ pc' = "sleep" /\ try' = try + 1 /\ unsent' = unsent
      /\ err[try] # Policy!NoError
      /\ body' = [body EXCEPT ![try] = IF @ = "open" THEN "closed" ELSE @]
      /\ network' = network /\ kind' = kind /\ cred' = cred /\ call' = call /\ request' = request
      /\ applied' = applied /\ unknown' = unknown /\ Writers' = Writers /\ Begun' = Begun
  BY DEF Policy!Retry, Policy!ShouldRetry, Policy!NoError, callVars, serviceVars, Writers, Begun
<1>2. P!IInv /\ try \in Policy!Tries /\ DOMAIN body = Policy!Tries /\ Policy!Tries = 1 .. MaxTries
  BY <1>1, PolicyTypes DEF IInv, PolicyInv
<1>3. \A t \in Policy!Tries : body'[t] = "open" => body[t] = "open"
  BY <1>1, <1>2
<1>4. \A t \in Policy!Tries : t >= try' => << call, t >> \notin unknown \cup Writers
  BY <1>1, <1>2, MaxTriesAssumption DEF IInv, Fresh
<1>5. This' = << call, try' >> /\ This' \notin unknown \cup Writers
  BY <1>1, <1>2, <1>4, MaxTriesAssumption DEF This
<1>6. PolicyInv'
  BY <1>1, <1>2, PolicyKeeps DEF PolicyInv
<1>7. RequestInv'
  BY <1>1, <1>3 DEF IInv, RequestInv
<1>8. MessageInv'
  BY <1>1 DEF IInv, MessageInv
<1>9. UnderWay'
  BY <1>1 DEF IInv, UnderWay
<1>10. Fresh'
  <2>1. \A t \in Policy!Tries : t > try' => << call, t >> \notin unknown \cup Writers
    BY <1>1, <1>2, <1>4, MaxTriesAssumption
  <2> QED
    BY <1>1, <1>5, <2>1 DEF IInv, Fresh
<1>11. Definite'
  <2>1. \A w \in Writers \ unknown : w[1] # call
    BY <1>1 DEF IInv, Definite
  <2>2. \A i \in DOMAIN applied : applied[i] # This'
    BY <1>5 DEF Writers
  <2> QED
    BY <1>1, <2>1, <2>2 DEF IInv, Definite
<1>12. AnswerInv'
  BY <1>1 DEF AnswerInv
<1> QED
  BY <1>6, <1>7, <1>8, <1>9, <1>10, <1>11, <1>12 DEF IInv

\* The retry policy returns, gives up or goes to its next try.
LEMMA PolicyDecidesIInv == ASSUME IInv, PolicyDecides PROVE IInv'
<1>1. pc = "classify" /\ UNCHANGED << callVars, network, answer, serviceVars, unknown >>
  BY DEF PolicyDecides, Policy!GiveUp, Policy!Succeed, Policy!Retry
<1>2. P!IInv /\ try \in Policy!Tries /\ DOMAIN body = Policy!Tries
  BY <1>1, PolicyTypes DEF IInv, PolicyInv
<1>3. P!IInv'
  BY <1>2, PolicyKeeps DEF PolicyDecides
<1>4. CASE Policy!GiveUp \/ Policy!Succeed
  <2>1. pc' = "returned" /\ UNCHANGED << try, err, unsent, body >>
    BY <1>4 DEF Policy!GiveUp, Policy!Succeed
  <2> QED
    BY <1>1, <1>2, <1>3, <2>1, SameTryIInv
<1>5. CASE Policy!Retry
  <2>1. CASE try < MaxTries
    BY <1>1, <1>5, <2>1, NextTryIInv
  <2>2. CASE ~(try < MaxTries)
    <3>1. pc' = "returned" /\ UNCHANGED << try, err, unsent >>
      BY <1>5, <2>2 DEF Policy!Retry
    <3>2. \A t \in Policy!Tries : body'[t] = "open" => body[t] = "open"
      BY <1>2, <1>5 DEF Policy!Retry
    <3> QED
      BY <1>1, <1>2, <1>3, <3>1, <3>2, SameTryIInv
  <2> QED
    BY <2>1, <2>2
<1> QED
  BY <1>4, <1>5 DEF PolicyDecides

\* The program closes a body, or its context ends.
LEMMA ProgramActsIInv == ASSUME IInv, ProgramActs PROVE IInv'
<1>1. /\ pc \in {"sleep", "do", "returned"}
      /\ UNCHANGED << callVars, network, answer, now, serviceVars, unknown >>
  BY DEF ProgramActs, Policy!ContextEnds, Policy!CloseBody
<1>2. P!IInv /\ DOMAIN body = Policy!Tries
  BY <1>1, PolicyTypes DEF IInv, PolicyInv
<1>3. P!IInv'
  BY <1>2, PolicyKeeps DEF ProgramActs
<1>4. UNCHANGED << try, err, unsent >> /\ (pc' = pc \/ (pc = "returned" /\ pc' = "closed"))
  BY DEF ProgramActs, Policy!ContextEnds, Policy!CloseBody
<1>5. \A t \in Policy!Tries : body'[t] = "open" => body[t] = "open"
  BY <1>2 DEF ProgramActs, Policy!ContextEnds, Policy!CloseBody
<1> QED
  BY <1>1, <1>2, <1>3, <1>4, <1>5, SameTryIInv

\* What the service appends to the history.
LEMMA AppliedGrows ==
    ASSUME NEW x \in Nat \X Policy!Tries, applied \in Seq(Nat \X Policy!Tries),
           applied' = Append(applied, x)
    PROVE  /\ applied' \in Seq(Nat \X Policy!Tries)
           /\ Writers' = Writers \cup {x}
           /\ \A i, j \in DOMAIN applied' : i < j =>
                i \in DOMAIN applied /\ applied'[i] = applied[i]
           /\ \A j \in DOMAIN applied' :
                IF j \in DOMAIN applied THEN applied'[j] = applied[j] ELSE applied'[j] = x
<1>1. /\ applied' \in Seq(Nat \X Policy!Tries) /\ Len(applied') = Len(applied) + 1
      /\ \A i \in 1 .. Len(applied) : applied'[i] = applied[i]
      /\ applied'[Len(applied) + 1] = x
  BY AppendProperties
<1>2. /\ Len(applied) \in Nat
      /\ DOMAIN applied = 1 .. Len(applied) /\ DOMAIN applied' = 1 .. (Len(applied) + 1)
  BY <1>1, LenProperties
<1>3. Writers' = Writers \cup {x}
  <2>1. \A y \in Writers' : y \in Writers \cup {x}
    BY <1>1, <1>2 DEF Writers
  <2>2. \A y \in Writers : y \in Writers'
    BY <1>1, <1>2 DEF Writers
  <2>3. x \in Writers'
    <3>1. Len(applied) + 1 \in DOMAIN applied'
      BY <1>2
    <3> QED
      BY <1>1, <3>1 DEF Writers
  <2> QED
    BY <2>1, <2>2, <2>3
<1> QED
  BY <1>1, <1>2, <1>3

\* The service takes a request.
LEMMA DeliverIInv ==
    ASSUME IInv, NEW m \in network, NEW fault \in {"none", "before", "after"}, Deliver(m, fault)
    PROVE  IInv'
<1> DEFINE done == isSuccessStatusCode(Status(m)) /\ Denoted(m) \notin Reads /\ fault # "before"
           final == IF fault = "none" THEN Status(m) ELSE 503
           told == pc = "do" /\ m.from = This
<1>1. /\ pc' = pc /\ try' = try /\ ctxDone' = ctxDone /\ tryCtx' = tryCtx /\ unsent' = unsent
      /\ err' = err /\ body' = body /\ wrapper' = wrapper
      /\ kind' = kind /\ cred' = cred /\ call' = call /\ request' = request /\ now' = now
      /\ unknown' = unknown /\ network' = network \ {m}
      /\ This' = This /\ Begun' = Begun
  BY DEF Deliver, policyVars, callVars, This, Begun
<1>2. done => applied' = Append(applied, m.from)
  BY DEF Deliver, Effect
<1>3. ~done => applied' = applied /\ Writers' = Writers
  BY DEF Deliver, serviceVars, Writers
<1>4. /\ told => answer' # Absent /\ answer'[1].status = final
      /\ ~told => answer' = answer
  BY DEF Deliver, This, Sent, Absent
<1>5. /\ m.from \in Begun /\ m.from \notin Writers
      /\ m.from \notin unknown => m.from = This /\ pc = "do" /\ answer = Absent /\ try \notin unsent
      /\ \A n \in network' : n \in network /\ n.from # m.from
  BY <1>1 DEF IInv, UnderWay
<1>6. told => m.from \notin unknown /\ answer = Absent /\ try \notin unsent
  BY <1>5 DEF IInv, Fresh
<1>7. /\ applied' \in Seq(Nat \X Policy!Tries)
      /\ done => Writers' = Writers \cup {m.from}
      /\ \A i, j \in DOMAIN applied' : i < j =>
           i \in DOMAIN applied /\ applied'[i] = applied[i]
      /\ \A j \in DOMAIN applied' :
           IF j \in DOMAIN applied THEN applied'[j] = applied[j] ELSE applied'[j] = m.from
  <2>1. applied \in Seq(Nat \X Policy!Tries) /\ m.from \in Nat \X Policy!Tries
    BY <1>5 DEF IInv, Fresh, Begun
  <2>2. CASE done
    BY <1>2, <2>1, <2>2, AppliedGrows
  <2>3. CASE ~done
    BY <1>3, <2>1, <2>3, LenProperties
  <2> QED
    BY <2>2, <2>3
<1>8. told => IF done THEN final = 503 \/ (final \in request.op.ok /\ request.op.reply = "discard")
                      ELSE final \notin request.op.ok \/ request.op \in Reads
  <2> SUFFICES ASSUME told
               PROVE  IF done THEN final = 503 \/ (final \in request.op.ok /\ request.op.reply = "discard")
                              ELSE final \notin request.op.ok \/ request.op \in Reads
    OBVIOUS
  <2>1. /\ kind \in DOMAIN Methods /\ m.op \in Methods[kind] /\ Signature(m) = Signature(m.op)
        /\ m.op = request.op /\ request.op \in Operations
    BY DEF IInv, RequestInv, MessageInv, WellFormed, This
  <2>2. /\ Denoted(m) \in Operations /\ Denoted(m).ok = request.op.ok
        /\ Denoted(m) \in Reads <=> request.op \in Reads
    BY <2>1, DenotedIs DEF Alike
  <2>3. /\ request.op.ok \subseteq {200, 201, 202, 204, 206}
        /\ request.op \notin Reads => request.op.reply = "discard"
    BY <2>1, Replies DEF Reply, Reads
  <2>4. isSuccessStatusCode(Status(m)) => Status(m) \in request.op.ok
    BY <2>2, StatusAccepted
  <2>5. 503 \notin request.op.ok /\ (Status(m) \in request.op.ok => isSuccessStatusCode(Status(m)))
    BY <2>3 DEF isSuccessStatusCode
  <2> QED
    BY <2>2, <2>3, <2>4, <2>5
<1> HIDE DEF done, final
<1>9. Writers \subseteq Writers' /\ Writers' \subseteq Writers \cup {m.from}
  BY <1>3, <1>7
<1>10. PolicyInv'
  BY <1>1 DEF IInv, PolicyInv, P!IInv, P!TypeOK, P!Behind, P!Ahead, P!Current, P!Unsent, P!Live
<1>11. RequestInv'
  BY <1>1 DEF IInv, RequestInv
<1>12. MessageInv'
  BY <1>1, <1>5 DEF IInv, MessageInv
<1>13. UnderWay'
  BY <1>1, <1>4, <1>5, <1>9 DEF IInv, UnderWay
<1>14. Fresh'
  <2>1. /\ pc \in {"idle", "refused"} => \A t \in Policy!Tries : << call, t >> \notin unknown \cup Writers'
        /\ pc \notin {"idle", "refused"} =>
             \A t \in Policy!Tries : t > try => << call, t >> \notin unknown \cup Writers'
    <3>1. try \notin {t \in Policy!Tries : t > try}
      BY MaxTriesAssumption DEF Policy!Tries
    <3> QED
      BY <1>5, <1>9, <3>1 DEF IInv, Fresh, This
  <2>2. (pc = "sleep" => This \notin Writers') /\ (pc = "do" /\ try \in unsent => This \notin Writers')
    BY <1>5, <1>9 DEF IInv, Fresh
  <2> QED
    BY <1>1, <1>5, <1>7, <1>9, <2>1, <2>2 DEF IInv, Fresh
<1>15. Definite'
  <2>1. \A v, w \in Writers' \ unknown' : v[1] = w[1] => v = w
    BY <1>1, <1>5, <1>9 DEF IInv, Definite, This
  <2>2. \A w \in Writers' \ unknown' : w[1] = call' =>
          w = This' /\ (pc' \in {"classify", "returned", "closed"} => err'[try'] = Policy!NoError)
    BY <1>1, <1>5, <1>9 DEF IInv, Definite
  <2>3. ASSUME NEW i \in DOMAIN applied', NEW j \in DOMAIN applied', applied'[i] = This', i < j
        PROVE  applied'[j] \in unknown'
    <3>1. i \in DOMAIN applied /\ applied[i] = This /\ This \in Writers
      BY <1>1, <1>7, <2>3 DEF Writers
    <3>2. CASE j \in DOMAIN applied
      BY <1>1, <1>7, <2>3, <3>1, <3>2 DEF IInv, Definite
    <3>3. CASE j \notin DOMAIN applied
      BY <1>1, <1>5, <1>7, <3>1, <3>3
    <3> QED
      BY <3>2, <3>3
  <2> QED
    BY <2>1, <2>2, <2>3 DEF Definite
<1>16. AnswerInv'
  <2>1. CASE told
    BY <1>1, <1>3, <1>4, <1>5, <1>6, <1>7, <1>8, <2>1 DEF AnswerInv
  <2>2. CASE ~told
    BY <1>1, <1>4, <1>5, <1>9, <2>2 DEF IInv, AnswerInv
  <2> QED
    BY <2>1, <2>2
<1> QED
  BY <1>10, <1>11, <1>12, <1>13, <1>14, <1>15, <1>16 DEF IInv

-----------------------------------------------------------------------------
(* The theorems. *)

\* Before the first call nothing was sent.
LEMMA InitIInv == Init => IInv
<1> SUFFICES ASSUME Init PROVE IInv
  OBVIOUS
<1>1. Policy!Tries = 1 .. MaxTries
  BY DEF Policy!Tries
<1>2. Writers = {} /\ applied \in Seq(Nat \X Policy!Tries)
  BY DEF Init, Writers
<1>3. PolicyInv
  BY DEF Init, PolicyInv
<1>4. RequestInv
  <2>1. kind \in DOMAIN Methods /\ fileDelete \in Operations
    BY OperationsAre DEF Init, FileMethods
  <2>2. WellFormed(request)
    BY <2>1 DEF Init, WellFormed, Prepare, RequestKeys, Signature
  <2> QED
    BY <2>1, <2>2 DEF Init, RequestInv
<1>5. MessageInv /\ UnderWay
  BY DEF Init, MessageInv, UnderWay
<1>6. Fresh
  BY <1>2 DEF Init, Fresh, This, Begun
<1>7. Definite /\ AnswerInv
  BY <1>2 DEF Init, Definite, AnswerInv
<1> QED
  BY <1>3, <1>4, <1>5, <1>6, <1>7 DEF IInv

\* What a client and the service know of each other, through lost and late requests and
\* lost answers, for every number of tries and calls.
THEOREM ServiceInvariant == Spec => []IInv
<1>1. ASSUME IInv, [Next]_vars PROVE IInv'
  <2>1. CASE \E o \in Methods[kind] : \E a \in Arguments[o] : Call(o, a)
    BY <1>1, <2>1, CallIInv
  <2>2. CASE StartTry
    BY <1>1, <2>2, StartTryIInv
  <2>3. CASE \E r \in Policy!Results : AnswerArrives(r)
    BY <1>1, <2>3, AnswerArrivesIInv
  <2>4. CASE NoAnswer \/ CannotSend
    BY <1>1, <2>4, NoAnswerIInv, CannotSendIInv
  <2>5. CASE PolicyDecides \/ ProgramActs
    BY <1>1, <2>5, PolicyDecidesIInv, ProgramActsIInv
  <2>6. CASE \E m \in network : \E fault \in {"none", "before", "after"} : Deliver(m, fault)
    BY <1>1, <2>6, DeliverIInv
  <2>7. CASE UNCHANGED vars
    <3>1. /\ pc' = pc /\ try' = try /\ ctxDone' = ctxDone /\ tryCtx' = tryCtx /\ unsent' = unsent
          /\ err' = err /\ body' = body /\ wrapper' = wrapper
          /\ kind' = kind /\ cred' = cred /\ call' = call /\ request' = request /\ now' = now
          /\ unknown' = unknown /\ network' = network /\ answer' = answer /\ applied' = applied
      BY <2>7 DEF vars, policyVars, callVars, serviceVars
    <3>2. PolicyInv'
      BY <1>1, <3>1 DEF IInv, PolicyInv, P!IInv, P!TypeOK, P!Behind, P!Ahead, P!Current, P!Unsent, P!Live
    <3>3. This' = This /\ Begun' = Begun /\ Writers' = Writers
      BY <3>1 DEF This, Begun, Writers
    <3>4. RequestInv' /\ MessageInv' /\ UnderWay'
      BY <1>1, <3>1, <3>3 DEF IInv, RequestInv, MessageInv, UnderWay
    <3>5. Fresh' /\ Definite' /\ AnswerInv'
      BY <1>1, <3>1, <3>3 DEF IInv, Fresh, Definite, AnswerInv
    <3> QED
      BY <3>2, <3>4, <3>5 DEF IInv
  <2> QED
    BY <1>1, <2>1, <2>2, <2>3, <2>4, <2>5, <2>6, <2>7 DEF Next, Finished
<1> QED
  BY <1>1, InitIInv, PTL DEF Spec

\* A call's verdict is true of the service: nil means that the last try did it, and that
\* only forgotten requests came after; an error means that nothing was done, unless a try
\* went without a definite answer (zc_policy_retry.go:201-242).
THEOREM VerdictMatchesEffectHolds == Spec => []VerdictMatchesEffect
<1>1. ASSUME IInv PROVE VerdictMatchesEffect
  <2>1. ASSUME Returned, err[try] = Policy!NoError, request.op \notin Reads
        PROVE  /\ << call, try >> \in Writers
               /\ \A i, j \in DOMAIN applied :
                    applied[i] = << call, try >> /\ i < j => applied[j] \in unknown
    BY <1>1, <2>1 DEF IInv, AnswerInv, Definite, This, Returned
  <2>2. ASSUME Returned, err[try] # Policy!NoError, TriesIn(unknown, call) = {}
        PROVE  TriesIn(Writers, call) = {}
    BY <1>1, <2>2 DEF IInv, Definite, TriesIn, Returned
  <2>3. ASSUME pc = "refused" PROVE TriesIn(Writers, call) = {}
    BY <1>1, <2>3 DEF IInv, Fresh, Begun, TriesIn
  <2> QED
    BY <2>1, <2>2, <2>3 DEF VerdictMatchesEffect
<1> QED
  BY <1>1, ServiceInvariant, PTL

\* A call does its work once, and once more at most for each try without a definite answer.
THEOREM ConfirmedOnceHolds == Spec => []ConfirmedOnce
<1>1. ASSUME IInv PROVE ConfirmedOnce
  <2> SUFFICES ASSUME NEW c \in 1 .. call
               PROVE  Cardinality(TriesIn(Writers, c)) <= 1 + Cardinality(TriesIn(unknown, c))
    BY DEF ConfirmedOnce
  <2> DEFINE W == TriesIn(Writers, c)
             U == TriesIn(unknown, c)
  <2>1. W \subseteq Begun /\ U \subseteq Begun
    BY <1>1 DEF IInv, Fresh, TriesIn
  <2>2. IsFiniteSet(Begun)
    <3>1. IsFiniteSet(1 .. call) /\ IsFiniteSet(Policy!Tries)
      BY <1>1, MaxTriesAssumption, FS_Interval DEF IInv, Fresh, Policy!Tries
    <3> QED
      BY <3>1, FS_Product DEF Begun
  <2>3. IsFiniteSet(W) /\ IsFiniteSet(U) /\ Cardinality(U) \in Nat
    BY <2>1, <2>2, FS_Subset, FS_CardinalityType
  <2>4. CASE W \subseteq U
    BY <2>3, <2>4, FS_Subset, FS_CardinalityType
  <2>5. CASE ~(W \subseteq U)
    <3>1. PICK w \in W : w \notin U
      BY <2>5
    <3>2. \A v \in W : v \in U \/ v = w
      BY <1>1, <3>1 DEF IInv, Definite, TriesIn
    <3>3. IsFiniteSet(U \cup {w}) /\ Cardinality(U \cup {w}) = Cardinality(U) + 1
      BY <2>3, <3>1, FS_AddElement
    <3>4. W \subseteq U \cup {w}
      BY <3>2
    <3>5. Cardinality(W) <= Cardinality(U \cup {w})
      BY <3>3, <3>4, FS_Subset
    <3>6. Cardinality(W) \in Nat
      BY <2>3, FS_CardinalityType
    <3> QED
      BY <2>3, <3>3, <3>5, <3>6
  <2> QED
    BY <2>4, <2>5
<1> QED
  BY <1>1, ServiceInvariant, PTL

\* Every request on its way is what the program asked for: the operation, the bytes, the
\* signature over it with the date of its try, and one id for the tries of a call.
THEOREM RequestAsAskedHolds == Spec => []RequestAsAsked
<1>1. ASSUME IInv PROVE RequestAsAsked
  <2> SUFFICES ASSUME NEW m \in network
               PROVE  /\ {k \in DOMAIN Methods : \E o \in Methods[k] : Signature(o) = Signature(m)} = {kind}
                      /\ \A o \in Operations : Signature(o) = Signature(m) =>
                           o.name = m.op.name /\ o.ok = m.op.ok /\ o.reply = m.op.reply /\ o.gets = m.op.gets
                      /\ NamesRange(m)
                      /\ cred = "sharedKey" =>
                           /\ m.signature = Sent(buildStringToSign(m))
                           /\ m.from = << call, try >> /\ pc = "do" => m.date = Sent(now)
                      /\ \A n \in network :
                           /\ (m.id = n.id) <=> (m.from[1] = n.from[1])
                           /\ m.id = n.id => m.fields = n.fields
    BY DEF RequestAsAsked
  <2>1. kind \in DOMAIN Methods /\ m.op \in Methods[kind] /\ Signature(m) = Signature(m.op)
    BY <1>1 DEF IInv, RequestInv, MessageInv, WellFormed
  <2>2. \A k \in DOMAIN Methods : \A o \in Methods[k] :
          Signature(o) = Signature(m) => k = kind /\ Alike(o, m.op)
    BY <2>1, OperationsApart
  <2>3. {k \in DOMAIN Methods : \E o \in Methods[k] : Signature(o) = Signature(m)} = {kind}
    BY <2>1, <2>2
  <2>4. \A o \in Operations : Signature(o) = Signature(m) =>
          o.name = m.op.name /\ o.ok = m.op.ok /\ o.reply = m.op.reply /\ o.gets = m.op.gets
    BY <2>2 DEF Operations, Alike
  <2>5. NamesRange(m)
    BY <1>1 DEF IInv, MessageInv
  <2>6. cred = "sharedKey" =>
          /\ m.signature = Sent(buildStringToSign(m))
          /\ m.from = << call, try >> /\ pc = "do" => m.date = Sent(now)
    BY <1>1 DEF IInv, MessageInv, This
  <2>7. ASSUME NEW n \in network
        PROVE  ((m.id = n.id) <=> (m.from[1] = n.from[1])) /\ (m.id = n.id => m.fields = n.fields)
    <3>1. /\ m.id = Sent(<< m.from[1], 0 >>) /\ n.id = Sent(<< n.from[1], 0 >>)
          /\ m.from[1] = n.from[1] => m.fields = n.fields
      BY <1>1 DEF IInv, MessageInv
    <3>2. m.id = n.id => m.from[1] = n.from[1]
      BY <3>1 DEF Sent
    <3> QED
      BY <3>1, <3>2
  <2> QED
    BY <2>3, <2>4, <2>5, <2>6, <2>7
<1> QED
  BY <1>1, ServiceInvariant, PTL

\* Only the body of a Download that succeeded is left to the caller to close.
THEOREM OnlyDownloadStaysOpenHolds == Spec => []OnlyDownloadStaysOpen
<1>1. ASSUME IInv PROVE OnlyDownloadStaysOpen
  <2> SUFFICES ASSUME NEW t \in Policy!Tries, body[t] = "open"
               PROVE  /\ request.op = fileDownload /\ t = try /\ err[t] = Policy!NoError
                      /\ Returned => wrapper = t
    BY DEF OnlyDownloadStaysOpen
  <2>1. P!IInv
    BY <1>1 DEF IInv, PolicyInv
  <2>2. t = try
    BY <2>1, PolicyTypes
  <2>3. err[t] = Policy!NoError /\ (Returned => wrapper = t)
    BY <2>1, <2>2 DEF P!IInv, P!TypeOK, P!Current, P!NoError, Policy!NoError, Returned
  <2>4. request.op = fileDownload
    BY <1>1, Replies DEF IInv, RequestInv, WellFormed, Reply
  <2> QED
    BY <2>2, <2>3, <2>4
<1> QED
  BY <1>1, ServiceInvariant, PTL

-----------------------------------------------------------------------------
(* What is read back.  A second invariant, on top of the first. *)

\* Each field that was asked for is held so that the program reads it back.
Sound(ask, fields) ==
    \A f \in FieldsOf(kind) : ask[f] # Absent =>
        Preserved(f, ask[f][1].value, ask[f][1].creates, Decode(f, fields[f]))

\* A request whose values the service can hold so.
Lasting(r) == \A f \in DOMAIN r.fields \cap FieldsOf(kind) : Kept(f, r.asked[f], r.fields[f])

ReadInv ==
    /\ DOMAIN resource.fields = FieldsOf(kind) /\ DOMAIN asked = FieldsOf(kind)
    /\ Sound(asked, resource.fields)
    /\ pc \notin {"idle", "refused"} => Lasting(request)
    /\ \A m \in network : Lasting(m)
    /\ pc \notin {"idle", "refused", "sleep"} /\ answer # Absent =>
         Sound(answer[1].asked, answer[1].fields)
    /\ pc \in {"classify", "returned", "closed"} /\ err[try] = Policy!NoError => answer # Absent

\* Every field the operations of a URL return is one that has a codec.
LEMMA FieldsAreStored == ASSUME kind \in DOMAIN Methods PROVE FieldsOf(kind) \subseteq StoredFields
BY Replies DEF FieldsOf, Reply, Operations

\* Before the first call the service holds defaults that nobody asked for.
LEMMA InitReadInv == Init => ReadInv
<1> SUFFICES ASSUME Init PROVE ReadInv
  OBVIOUS
<1>1. /\ DOMAIN resource.fields = FieldsOf(kind) /\ DOMAIN asked = FieldsOf(kind)
      /\ \A f \in FieldsOf(kind) : asked[f] = Absent
  BY DEF Init
<1> QED
  BY <1>1 DEF Init, ReadInv, Sound

\* The service does what a request says.
LEMMA EffectReadInv ==
    ASSUME IInv, ReadInv, NEW m \in network, Effect(m), kind' = kind
    PROVE  /\ DOMAIN resource'.fields = FieldsOf(kind) /\ DOMAIN asked' = FieldsOf(kind)
           /\ Sound(asked', resource'.fields)
<1> DEFINE c == Denoted(m) \in Creates
<1>1. /\ DOMAIN resource.fields = FieldsOf(kind) /\ DOMAIN asked = FieldsOf(kind)
      /\ Sound(asked, resource.fields) /\ Lasting(m)
  BY DEF ReadInv
<1>2. resource'.fields = [f \in DOMAIN resource.fields |->
                            IF f \in Written(m) THEN Stored(f, m.fields[f], c)
                            ELSE resource.fields[f]]
  BY DEF Effect
<1>3. asked' = [f \in DOMAIN asked |-> IF f \in Written(m)
                                       THEN Sent([value |-> m.asked[f], creates |-> c])
                                       ELSE IF f \in Forgotten(m) THEN Absent ELSE asked[f]]
  BY DEF Effect
<1>4. Written(m) \subseteq DOMAIN m.fields \cap FieldsOf(kind) /\ c \in BOOLEAN
  BY <1>1 DEF Written
<1> HIDE DEF c
<1>5. ASSUME NEW f \in FieldsOf(kind), asked'[f] # Absent
      PROVE  Preserved(f, asked'[f][1].value, asked'[f][1].creates, Decode(f, resource'.fields[f]))
  <2>1. CASE f \in Written(m)
    <3>1. asked'[f][1].value = m.asked[f] /\ asked'[f][1].creates = c
      BY <1>1, <1>3, <2>1 DEF Sent
    <3>2. resource'.fields[f] = Stored(f, m.fields[f], c)
      BY <1>1, <1>2, <2>1
    <3>3. Kept(f, m.asked[f], m.fields[f])
      BY <1>1, <1>4, <2>1 DEF Lasting
    <3> QED
      BY <1>4, <3>1, <3>2, <3>3 DEF Kept
  <2>2. CASE f \notin Written(m)
    <3>1. asked'[f] = asked[f] /\ resource'.fields[f] = resource.fields[f]
      BY <1>1, <1>2, <1>3, <1>5, <2>2
    <3> QED
      BY <1>1, <1>5, <3>1 DEF Sound
  <2> QED
    BY <2>1, <2>2
<1>6. DOMAIN resource'.fields = FieldsOf(kind) /\ DOMAIN asked' = FieldsOf(kind)
  BY <1>1, <1>2, <1>3
<1> QED
  BY <1>5, <1>6 DEF Sound

\* The steps of the service.
LEMMA DeliverReadInv ==
    ASSUME IInv, ReadInv, NEW m \in network, NEW fault, Deliver(m, fault)
    PROVE  ReadInv'
<1>1. /\ pc' = pc /\ try' = try /\ err' = err /\ kind' = kind /\ request' = request
      /\ network' \subseteq network /\ FieldsOf(kind)' = FieldsOf(kind)
  BY DEF Deliver, policyVars, callVars, FieldsOf
<1>2. Effect(m) \/ (resource' = resource /\ asked' = asked)
  BY DEF Deliver, serviceVars
<1>3. /\ DOMAIN resource'.fields = FieldsOf(kind) /\ DOMAIN asked' = FieldsOf(kind)
      /\ Sound(asked', resource'.fields)
  BY <1>1, <1>2, EffectReadInv DEF ReadInv
<1>4. \/ answer' = answer
      \/ answer' # Absent /\ answer'[1].asked = asked /\ answer'[1].fields = resource.fields
  BY DEF Deliver, Sent, Absent
<1>5. answer' # Absent /\ pc \notin {"idle", "refused", "sleep"} =>
        Sound(answer'[1].asked, answer'[1].fields)
  BY <1>4 DEF ReadInv
<1> QED
  BY <1>1, <1>3, <1>4, <1>5 DEF ReadInv, Sound, Lasting

\* The steps of the client, which leave the service alone.
LEMMA ClientReadInv ==
    ASSUME IInv, IInv', ReadInv,
           \/ \E o \in Methods[kind] : \E a \in Arguments[o] : Call(o, a)
           \/ StartTry
           \/ \E r \in Policy!Results : AnswerArrives(r)
           \/ NoAnswer \/ CannotSend \/ PolicyDecides \/ ProgramActs
    PROVE  ReadInv'
<1>1. /\ kind' = kind /\ resource' = resource /\ asked' = asked
      /\ FieldsOf(kind)' = FieldsOf(kind)
  BY DEF Call, StartTry, AnswerArrives, NoAnswer, CannotSend, PolicyDecides, ProgramActs,
         callVars, serviceVars, FieldsOf
<1>2. /\ DOMAIN resource'.fields = FieldsOf(kind) /\ DOMAIN asked' = FieldsOf(kind)
      /\ Sound(asked', resource'.fields)
  BY <1>1 DEF ReadInv
<1> SUFFICES /\ pc' \notin {"idle", "refused"} => Lasting(request')
             /\ \A m \in network' : Lasting(m)
             /\ pc' \notin {"idle", "refused", "sleep"} /\ answer' # Absent =>
                  Sound(answer'[1].asked, answer'[1].fields)
             /\ pc' \in {"classify", "returned", "closed"} /\ err'[try'] = Policy!NoError =>
                  answer' # Absent
  BY <1>1, <1>2 DEF ReadInv, Sound, Lasting
<1>3. ASSUME NEW o \in Methods[kind], NEW a \in Arguments[o], Call(o, a)
      PROVE  /\ pc' \in {"refused", "sleep"} /\ network' = network
             /\ pc' \notin {"idle", "refused"} => Lasting(request')
  <2>1. /\ network' = network /\ (Refuse(o, a) \/ Begin(o, a))
        /\ pc' \in {"refused", "sleep"}
    BY <1>3 DEF Call, Refuse, Begin
  <2>2. CASE Refuse(o, a)
    BY <2>1, <2>2 DEF Refuse
  <2>3. CASE Begin(o, a)
    <3>1. PICK metadata \in MetadataSent(o, a) :
            request' = RequestOf(o, [f \in o.sends |-> IF f = "metadata" THEN metadata ELSE Encode(f, a[f])],
                                 a, call + 1)
      BY <2>3 DEF Begin, RequestOf
    <3> DEFINE fields == [f \in o.sends |-> IF f = "metadata" THEN metadata ELSE Encode(f, a[f])]
    <3>2. request'.fields = fields /\ request'.asked = a
      <4> HIDE DEF fields
      <4>1. request' = RequestOf(o, fields, a, call + 1)
        BY <3>1 DEF fields
      <4>2. /\ DOMAIN request' = RequestKeys
            /\ request'.op = o /\ Signature(request') = Signature(o)
            /\ request'.fields = fields /\ request'.asked = a
            /\ request'.id = Sent(<< call + 1, 0 >>) /\ request'.date = Absent
        BY ONLY <4>1, BegunRequest
      <4> QED
        BY <4>2
    <3>3. kind \in DOMAIN Methods /\ o \in Operations
      BY DEF IInv, RequestInv, Operations
    <3>4. ASSUME NEW f \in o.sends \cap FieldsOf(kind) PROVE Kept(f, a[f], fields[f])
      <4>1. f \in StoredFields /\ fields[f] = IF f = "metadata" THEN metadata ELSE Encode(f, a[f])
        BY <3>3, FieldsAreStored
      <4>2. \A g \in o.sends : Accepted(g, a[g])
        BY <2>3 DEF Begin
      <4> QED
        BY <3>3, <4>1, <4>2, FieldKept
    <3> QED
      BY <2>1, <3>2, <3>4 DEF Lasting
  <2> QED
    BY <2>1, <2>2, <2>3
<1>4. CASE \E o \in Methods[kind] : \E a \in Arguments[o] : Call(o, a)
  BY <1>3, <1>4 DEF ReadInv
<1>5. CASE StartTry
  <2>1. /\ pc = "sleep" /\ pc' = "do" /\ answer' = Absent /\ request' = request
        /\ \A m \in network' : m \in network \/ m = MessageOf(request, call, try)
    BY <1>5 DEF StartTry, Policy!StartTry, callVars, MessageOf
  <2>2. LET m == MessageOf(request, call, try) IN m.fields = request.fields /\ m.asked = request.asked
    BY SentRequest DEF IInv, RequestInv, WellFormed
  <2> QED
    BY <2>1, <2>2 DEF ReadInv, Lasting
<1>6. ASSUME NEW r \in Policy!Results, AnswerArrives(r)
      PROVE  /\ pc = "do" /\ pc' = "classify" /\ answer' = answer /\ answer # Absent
             /\ request' = request /\ network' = network
  BY <1>6 DEF AnswerArrives, Policy!DoReturns, callVars
<1>7. CASE \E r \in Policy!Results : AnswerArrives(r)
  BY <1>6, <1>7 DEF ReadInv
<1>8. CASE NoAnswer \/ CannotSend
  <2>1. PICK e \in {"net", "netFatal"} : Policy!DoReturns([err |-> e, body |-> "nil"])
    BY <1>8 DEF NoAnswer, CannotSend
  <2>2. pc = "do" /\ pc' = "classify" /\ try' = try /\ err' = [err EXCEPT ![try] = e]
    BY <2>1 DEF Policy!DoReturns
  <2>3. DOMAIN err = Policy!Tries /\ try \in Policy!Tries
    BY <2>2, PolicyTypes DEF IInv, PolicyInv
  <2>4. err'[try'] # Policy!NoError
    BY <2>2, <2>3 DEF Policy!NoError
  <2>5. request' = request /\ network' \subseteq network /\ answer' \in {Absent, answer}
    BY <1>8 DEF NoAnswer, CannotSend, callVars
  <2> QED
    BY <2>2, <2>4, <2>5 DEF ReadInv
<1>9. CASE PolicyDecides \/ ProgramActs
  <2>1. request' = request /\ network' = network /\ answer' = answer
    BY <1>9 DEF PolicyDecides, ProgramActs, callVars
  <2>2. CASE PolicyDecides
    <3>1. pc = "classify" /\ (pc' = "sleep" \/ (pc' = "returned" /\ try' = try /\ err' = err))
      BY <2>2 DEF PolicyDecides, Policy!GiveUp, Policy!Succeed, Policy!Retry
    <3> QED
      BY <2>1, <3>1 DEF ReadInv
  <2>3. CASE ProgramActs
    <3>1. /\ try' = try /\ err' = err
          /\ (pc \in {"sleep", "do"} /\ pc' = pc) \/ (pc = "returned" /\ pc' = "closed")
      BY <2>3 DEF ProgramActs, Policy!ContextEnds, Policy!CloseBody
    <3> QED
      BY <2>1, <3>1 DEF ReadInv
  <2> QED
    BY <1>9, <2>2, <2>3
<1> QED
  BY <1>4, <1>5, <1>7, <1>8, <1>9

\* What a read returns is what the last write that the service did asked for, as far as
\* the conversions keep it, for every value of the arguments.
THEOREM ReadBackHolds == Spec => []ReadBack
<1>1. ASSUME IInv, IInv', ReadInv, [Next]_vars PROVE ReadInv'
  <2>1. CASE \E m \in network : \E fault \in {"none", "before", "after"} : Deliver(m, fault)
    BY <1>1, <2>1, DeliverReadInv
  <2>2. CASE UNCHANGED vars
    <3>1. /\ pc' = pc /\ try' = try /\ err' = err /\ kind' = kind /\ request' = request
          /\ network' = network /\ answer' = answer /\ resource' = resource /\ asked' = asked
      BY <2>2 DEF vars, policyVars, callVars, serviceVars
    <3> QED
      BY <1>1, <3>1 DEF ReadInv, Sound, Lasting, FieldsOf
  <2> QED
    BY <1>1, <2>1, <2>2, ClientReadInv DEF Next, Finished
<1>2. ASSUME IInv, ReadInv PROVE ReadBack
  <2> SUFFICES ASSUME Returned, err[try] = Policy!NoError, NEW f \in request.op.gets,
                      answer[1].asked[f] # Absent
               PROVE  Preserved(f, answer[1].asked[f][1].value, answer[1].asked[f][1].creates,
                                Decode(f, answer[1].fields[f]))
    BY DEF ReadBack
  <2>1. pc \in {"returned", "closed"}
    BY DEF Returned
  <2>2. answer # Absent /\ Sound(answer[1].asked, answer[1].fields)
    BY <1>2, <2>1 DEF ReadInv
  <2>3. f \in FieldsOf(kind)
    BY <1>2, <2>1 DEF IInv, RequestInv, FieldsOf
  <2> QED
    BY <2>2, <2>3 DEF Sound
<1>3. Spec => []IInv
  BY ServiceInvariant
<1> QED
  BY <1>1, <1>2, <1>3, InitReadInv, PTL DEF Spec
=============================================================================
