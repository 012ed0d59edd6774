------------------------- MODULE RetryReaderProofs -------------------------
(***************************************************************************)
(* Proofs about RetryReader, for every range, buffer and retry limit, and   *)
(* whatever sizes writers give the file meanwhile.                          *)
(***************************************************************************)
EXTENDS RetryReader, TLAPS

IInv ==
    /\ TypeOK
    /\ Bookkeeping
    /\ DeliveredInOrder
    /\ RequestsMissingBytes
    /\ NoStreamLeaked
    /\ EOFMeansComplete

\* A stream opened later for the bytes still missing ends where one opened at once for
\* the whole range would, if the file has the same size.
LEMMA SameEnd ==
    ASSUME NEW from \in Nat, NEW c \in Nat, NEW o \in Nat, NEW left \in Nat, NEW sz \in Nat,
           c # CountToEnd => left # CountToEnd /\ o + left = from + c,
           c = CountToEnd => left = CountToEnd
    PROVE  RangeEnd(o, left, sz) = RangeEnd(from, c, sz)
BY DEF RangeEnd, CountToEnd

\* A range that the service accepts does not end before it starts.
LEMMA RangeEndIs ==
    ASSUME NEW o \in Nat, NEW c \in Nat, NEW sz \in Nat
    PROVE  /\ RangeEnd(o, c, sz) \in Nat
           /\ Satisfiable(o, c, sz) => o <= RangeEnd(o, c, sz)
BY DEF RangeEnd, Satisfiable, CountToEnd

\* The stream ends with the range or with the file, whichever comes first.
LEMMA StreamEnds ==
    ASSUME IInv
    PROVE  /\ stream.pos \in Nat /\ stream.end \in Nat /\ Len(delivered) \in Nat
           /\ countWasBounded => stream.end <= StartOffset + startCount
           /\ stream.end = stream.size \/ (countWasBounded /\ stream.end = StartOffset + startCount)
<1>1. /\ stream.pos \in Nat /\ stream.end \in Nat /\ stream.size \in FileSizes /\ Len(delivered) \in Nat
      /\ startCount \in StartCounts
  BY DEF IInv, TypeOK
<1>2. stream.size \in Nat /\ startCount \in Nat /\ StartOffset \in Nat
  BY <1>1, FileAssumption, CountAssumption
<1>3. stream.end = RangeEnd(StartOffset, startCount, stream.size)
  BY DEF IInv, Bookkeeping, StreamPosition
<1>4. /\ startCount # CountToEnd => stream.end <= StartOffset + startCount
      /\ stream.end = stream.size \/ (startCount # CountToEnd /\ stream.end = StartOffset + startCount)
  BY <1>2, <1>3 DEF RangeEnd, CountToEnd
<1> QED
  BY <1>1, <1>4 DEF countWasBounded

\* Handing n bytes of the stream to the caller extends what it has by the next n
\* bytes of the file.
LEMMA DeliverNext ==
    ASSUME IInv, NEW n \in Nat, n <= stream.end - stream.pos, Deliver(n)
    PROVE  /\ delivered' \in Seq(Nat)
           /\ Len(delivered') = Len(delivered) + n
           /\ \A k \in 1 .. Len(delivered') : delivered'[k] = StartOffset + k - 1
           /\ versions' \in SUBSET (1 .. MaxVersion)
           /\ stream' \in [pos : Nat, end : Nat, ver : 1 .. MaxVersion, size : FileSizes]
           /\ stream'.pos = stream.pos + n
           /\ stream'.end = stream.end
           /\ stream'.size = stream.size
<1> DEFINE more == [k \in 1 .. n |-> stream.pos + k - 1]
<1>1. /\ stream \in [pos : Nat, end : Nat, ver : 1 .. MaxVersion, size : FileSizes]
      /\ versions \in SUBSET (1 .. MaxVersion)
      /\ delivered \in Seq(Nat)
      /\ stream.pos = StartOffset + Len(delivered)
      /\ \A k \in 1 .. Len(delivered) : delivered[k] = StartOffset + k - 1
  BY DEF IInv, TypeOK, Bookkeeping, StreamPosition, DeliveredInOrder
<1>2. StartOffset \in Nat
  BY FileAssumption
<1>3. more \in Seq(Nat) /\ Len(more) = n
  <2>1. \A k \in 1 .. n : stream.pos + k - 1 \in Nat
    BY <1>1, <1>2
  <2>2. more \in [1 .. n -> Nat]
    BY <2>1
  <2> QED
    BY <2>2
<1>4. delivered' = delivered \o more
  BY DEF Deliver
<1>5. delivered' \in Seq(Nat) /\ Len(delivered') = Len(delivered) + n
  BY <1>1, <1>3, <1>4
<1>6. ASSUME NEW k \in 1 .. Len(delivered') PROVE delivered'[k] = StartOffset + k - 1
  <2>1. CASE k \in 1 .. Len(delivered)
    BY <1>1, <1>3, <1>4, <2>1
  <2>2. CASE k \in (Len(delivered) + 1) .. (Len(delivered) + n)
    <3>1. delivered'[k] = more[k - Len(delivered)] /\ k - Len(delivered) \in 1 .. n
      BY <1>1, <1>3, <1>4, <2>2
    <3> QED
      BY <1>1, <1>2, <3>1
  <2> QED
    BY <1>1, <1>5, <1>6, <2>1, <2>2
<1>7. stream' = [stream EXCEPT !.pos = @ + n] /\ versions' \in {versions, versions \cup {stream.ver}}
  BY DEF Deliver
<1>8. stream'.pos = stream.pos + n /\ stream'.end = stream.end /\ stream'.ver = stream.ver /\ stream'.size = stream.size
  BY <1>1, <1>7
<1>9. stream' \in [pos : Nat, end : Nat, ver : 1 .. MaxVersion, size : FileSizes]
  <2>1. stream.pos + n \in Nat
    BY <1>1
  <2> QED
    BY <1>1, <1>7, <2>1
<1>10. versions' \in SUBSET (1 .. MaxVersion)
  BY <1>1, <1>7
<1> QED
  BY <1>5, <1>6, <1>8, <1>9, <1>10

\* NewRetryReader starts with the stream where the caller asked for.
LEMMA InitIInv == Init => IInv
<1> SUFFICES ASSUME Init PROVE IInv
  OBVIOUS
<1>1. /\ StartOffset \in Nat /\ size \in Nat /\ startCount \in Nat /\ size \in FileSizes
      /\ RangeEnd(StartOffset, startCount, size) \in Nat
      /\ StartOffset <= RangeEnd(StartOffset, startCount, size)
  BY RangeEndIs, FileAssumption, CountAssumption DEF Init
<1>2. stream \in [pos : Nat, end : Nat, ver : 1 .. MaxVersion, size : FileSizes]
  BY <1>1, OptionAssumption DEF Init, BodyOf
<1>3. TypeOK
  BY <1>1, <1>2, OptionAssumption DEF Init, TypeOK, NoResponse
<1>4. Bookkeeping
  <2>1. StreamPosition
    BY <1>1 DEF Init, BodyOf, StreamPosition, CountToEnd, countWasBounded
  <2>2. ResponseHeld
    BY DEF Init, ResponseHeld, NoResponse
  <2> QED
    BY <2>1, <2>2 DEF Bookkeeping
<1>5. DeliveredInOrder /\ RequestsMissingBytes /\ NoStreamLeaked /\ EOFMeansComplete
  BY <1>1 DEF Init, DeliveredInOrder, RequestsMissingBytes, NoStreamLeaked, EOFMeansComplete
<1> QED
  BY <1>3, <1>4, <1>5 DEF IInv

\* The part of the invariant about the bytes, and the part about the responses.
Data == StreamPosition /\ DeliveredInOrder /\ RequestsMissingBytes /\ EOFMeansComplete

\* The steps of Read up to the call of Body.Read, the getter included.
LEMMA ReadIInv == ASSUME IInv, CallRead \/ LoadResponse \/ AllRead \/ GetSucceeds \/ GetFails \/ SetResponse
                  PROVE  IInv'
<1>0. /\ TypeOK /\ Data /\ ResponseHeld /\ NoStreamLeaked
      /\ startCount \in Nat /\ StartOffset \in Nat /\ stream.size \in Nat /\ size \in Nat
  BY FileAssumption, CountAssumption DEF IInv, TypeOK, Bookkeeping, Data
<1>a. startCount' = startCount => countWasBounded' = countWasBounded
  BY DEF countWasBounded
<1> USE DEF info, output, file
<1>1. CASE CallRead
  <2>1. TypeOK'
    BY <1>0, <1>1, OptionAssumption DEF CallRead, TypeOK
  <2>2. Data'
    BY <1>0, <1>a, <1>1 DEF CallRead, Data, StreamPosition, DeliveredInOrder, RequestsMissingBytes, EOFMeansComplete
  <2>3. ResponseHeld' /\ NoStreamLeaked'
    BY <1>0, <1>1 DEF CallRead, ResponseHeld, NoStreamLeaked
  <2> QED
    BY <2>1, <2>2, <2>3 DEF IInv, Bookkeeping, Data
<1>2. CASE LoadResponse
  <2>1. TypeOK'
    BY <1>0, <1>2 DEF LoadResponse, TypeOK
  <2>2. Data'
    <3>1. StreamPosition' /\ DeliveredInOrder' /\ EOFMeansComplete'
      BY <1>0, <1>a, <1>2 DEF LoadResponse, Data, StreamPosition, DeliveredInOrder, EOFMeansComplete
    <3>2. RequestsMissingBytes'
      <4>1. caller = "reading"
        BY <1>0, <1>2 DEF LoadResponse, ResponseHeld
      <4>2. offset = StartOffset + Len(delivered) /\ (countWasBounded => offset + count = StartOffset + startCount)
        BY <1>0, <4>1 DEF Data, StreamPosition
      <4>3. countWasBounded => count > 0
        BY <1>0, <1>2 DEF LoadResponse, TypeOK, CountToEnd
      <4> QED
        BY <1>a, <1>2, <4>2, <4>3 DEF LoadResponse, RequestsMissingBytes
    <3> QED
      BY <3>1, <3>2 DEF Data
  <2>3. ResponseHeld' /\ NoStreamLeaked'
    BY <1>0, <1>2 DEF LoadResponse, ResponseHeld, NoStreamLeaked
  <2> QED
    BY <2>1, <2>2, <2>3 DEF IInv, Bookkeeping, Data
<1>3. CASE AllRead
  <2>1. TypeOK'
    BY <1>0, <1>3 DEF AllRead, TypeOK
  <2>2. Data'
    <3>1. StreamPosition' /\ DeliveredInOrder' /\ RequestsMissingBytes'
      BY <1>0, <1>a, <1>3 DEF AllRead, Data, StreamPosition, DeliveredInOrder, RequestsMissingBytes
    <3>2. Len(delivered) = startCount
      <4>1. caller = "reading" /\ countWasBounded /\ count = 0
        BY <1>0, <1>3 DEF AllRead, ResponseHeld, CountToEnd
      <4> QED
        BY <1>0, <4>1 DEF TypeOK, Data, StreamPosition
    <3> QED
      BY <1>a, <1>3, <3>1, <3>2 DEF AllRead, Data, EOFMeansComplete
  <2>3. ResponseHeld' /\ NoStreamLeaked'
    BY <1>0, <1>3 DEF AllRead, ResponseHeld, NoStreamLeaked
  <2> QED
    BY <2>1, <2>2, <2>3 DEF IInv, Bookkeeping, Data
<1>4. CASE GetSucceeds
  <2>1. caller = "reading" /\ offset = stream.pos
    BY <1>0, <1>4 DEF GetSucceeds, ResponseHeld, Data, StreamPosition
  <2>2. RangeEnd(offset, count, size) = RangeEnd(StartOffset, startCount, size)
    <3>1. offset \in Nat /\ count \in Nat
      BY <1>0 DEF TypeOK
    <3>2. startCount # CountToEnd => count # CountToEnd /\ offset + count = StartOffset + startCount
      BY <1>0, <1>4, <3>1 DEF GetSucceeds, Data, RequestsMissingBytes, countWasBounded, CountToEnd
    <3>3. startCount = CountToEnd => count = CountToEnd
      BY <1>0 DEF Data, StreamPosition, countWasBounded
    <3> QED
      BY <1>0, <3>1, <3>2, <3>3, SameEnd
  <2>3. TypeOK' /\ stream'.pos = stream.pos /\ stream'.pos <= stream'.end
        /\ stream'.end = RangeEnd(StartOffset, startCount, stream'.size)
    <3>1. /\ RangeEnd(offset, count, size) \in Nat /\ offset <= RangeEnd(offset, count, size)
      BY <1>0, <1>4, RangeEndIs DEF GetSucceeds, TypeOK
    <3>2. stream' = [pos |-> offset, end |-> RangeEnd(offset, count, size), ver |-> version, size |-> size]
      BY <1>4 DEF GetSucceeds, BodyOf
    <3>3. stream' \in [pos : Nat, end : Nat, ver : 1 .. MaxVersion, size : FileSizes]
      BY <1>0, <3>1, <3>2 DEF TypeOK
    <3>4. gets' \in Nat /\ resp' \in Nat /\ open' \in SUBSET (Nat \ {NoResponse})
      BY <1>0, <1>4 DEF GetSucceeds, TypeOK, NoResponse
    <3>5. TypeOK'
      BY <1>0, <1>4, <3>3, <3>4 DEF GetSucceeds, TypeOK
    <3> QED
      BY <2>1, <2>2, <3>1, <3>2, <3>5
  <2>4. Data'
    BY <1>0, <1>a, <1>4, <2>1, <2>3 DEF GetSucceeds, Data, StreamPosition, DeliveredInOrder,
       RequestsMissingBytes, EOFMeansComplete
  <2>5. ResponseHeld' /\ NoStreamLeaked'
    BY <1>0, <1>4 DEF GetSucceeds, TypeOK, ResponseHeld, NoStreamLeaked, NoResponse
  <2> QED
    BY <2>3, <2>4, <2>5 DEF IInv, Bookkeeping, Data
<1>5. CASE GetFails
  <2>1. TypeOK'
    BY <1>0, <1>5 DEF GetFails, TypeOK
  <2>2. Data'
    BY <1>0, <1>a, <1>5 DEF GetFails, Data, StreamPosition, DeliveredInOrder, RequestsMissingBytes,
       EOFMeansComplete
  <2>3. ResponseHeld' /\ NoStreamLeaked'
    BY <1>0, <1>5 DEF GetFails, ResponseHeld, NoStreamLeaked
  <2> QED
    BY <2>1, <2>2, <2>3 DEF IInv, Bookkeeping, Data
<1>6. CASE SetResponse
  <2>1. TypeOK'
    BY <1>0, <1>6 DEF SetResponse, TypeOK
  <2>2. Data'
    BY <1>0, <1>a, <1>6 DEF SetResponse, Data, StreamPosition, DeliveredInOrder, RequestsMissingBytes,
       EOFMeansComplete
  <2>3. ResponseHeld' /\ NoStreamLeaked'
    BY <1>0, <1>6 DEF SetResponse, TypeOK, ResponseHeld, NoStreamLeaked, NoResponse
  <2> QED
    BY <2>1, <2>2, <2>3 DEF IInv, Bookkeeping, Data
<1> QED
  BY <1>1, <1>2, <1>3, <1>4, <1>5, <1>6

\* Body.Read delivers bytes and advances s.info with the stream, or fails and moves nothing.
LEMMA BodyReadIInv == ASSUME IInv, BodyRead PROVE IInv'
<1>0. /\ TypeOK /\ Data /\ ResponseHeld /\ NoStreamLeaked
      /\ startCount \in Nat /\ StartOffset \in Nat /\ stream.size \in Nat /\ size \in Nat
  BY FileAssumption, CountAssumption DEF IInv, TypeOK, Bookkeeping, Data
<1>a. startCount' = startCount => countWasBounded' = countWasBounded
  BY DEF countWasBounded
<1> USE DEF info, output, file
<1>1. ASSUME NEW n \in 0 .. BufferSize, NEW eof \in BOOLEAN, BodyReadSucceeds(n, eof) PROVE IInv'
  <2>1. n \in Nat /\ n <= stream.end - stream.pos /\ Deliver(n)
    BY <1>1, OptionAssumption DEF BodyReadSucceeds
  <2>2. caller = "reading" /\ offset = stream.pos
    BY <1>0, <1>1 DEF BodyReadSucceeds, ResponseHeld, Data, StreamPosition
  <2>3. /\ stream.pos \in Nat /\ stream.end \in Nat
        /\ countWasBounded => stream.end <= StartOffset + startCount
        /\ stream.end = stream.size \/ (countWasBounded /\ stream.end = StartOffset + startCount)
        /\ count \in Nat /\ Len(delivered) \in Nat
    BY <1>0, StreamEnds DEF TypeOK
  <2>4. /\ offset' \in Nat
        /\ count' \in Nat
        /\ countWasBounded => offset' + count' = StartOffset + startCount
        /\ ~countWasBounded => count' = CountToEnd
    <3>1. CASE countWasBounded
      BY <1>0, <1>1, <2>1, <2>2, <2>3, <3>1 DEF BodyReadSucceeds, Data, StreamPosition, CountToEnd
    <3>2. CASE ~countWasBounded
      BY <1>0, <1>1, <2>1, <2>2, <2>3, <3>2 DEF BodyReadSucceeds, Data, StreamPosition, CountToEnd
    <3> QED
      BY <3>1, <3>2
  <2>5. TypeOK'
    BY <1>0, <1>1, <2>1, <2>4, DeliverNext DEF BodyReadSucceeds, TypeOK
  <2>6. /\ Len(delivered') = Len(delivered) + n
        /\ \A k \in 1 .. Len(delivered') : delivered'[k] = StartOffset + k - 1
        /\ stream'.pos = stream.pos + n /\ stream'.end = stream.end /\ stream'.size = stream.size
    BY <2>1, DeliverNext
  <2>7. startCount' = startCount /\ pc' = "idle"
    BY <1>1 DEF BodyReadSucceeds
  <2>8. StreamPosition'
    BY <1>0, <1>a, <1>1, <2>1, <2>2, <2>3, <2>4, <2>6, <2>7 DEF BodyReadSucceeds, Data, StreamPosition
  <2>9. DeliveredInOrder' /\ RequestsMissingBytes'
    BY <1>0, <1>a, <2>1, <2>3, <2>6, <2>7 DEF Data, StreamPosition, DeliveredInOrder, RequestsMissingBytes
  <2>10. EOFMeansComplete'
    <3>1. eof => \/ countWasBounded /\ Len(delivered') = startCount
                 \/ StartOffset + Len(delivered') = stream'.size
      BY <1>0, <1>1, <2>1, <2>3, <2>6 DEF BodyReadSucceeds, Data, StreamPosition
    <3>2. ~eof => caller' = "reading"
      BY <1>1, <2>2 DEF BodyReadSucceeds
    <3> QED
      BY <1>a, <2>7, <3>1, <3>2 DEF EOFMeansComplete
  <2>11. ResponseHeld' /\ NoStreamLeaked'
    BY <1>0, <1>1, <2>2 DEF BodyReadSucceeds, ResponseHeld, NoStreamLeaked
  <2> QED
    BY <2>5, <2>8, <2>9, <2>10, <2>11 DEF IInv, Bookkeeping
<1>2. ASSUME NEW n \in 0 .. BufferSize, NEW kind \in {"net", "other", "closed"}, BodyReadFails(n, kind)
      PROVE  IInv'
  <2>1. failure' = [kind |-> kind, n |-> n] /\ failure'.n = n
    BY <1>2 DEF BodyReadFails
  <2>2. TypeOK'
    BY <1>0, <1>2, <2>1 DEF BodyReadFails, TypeOK
  <2>3. Data'
    BY <1>0, <1>a, <1>2, <2>1 DEF BodyReadFails, Data, StreamPosition, DeliveredInOrder,
       RequestsMissingBytes, EOFMeansComplete
  <2>4. ResponseHeld' /\ NoStreamLeaked'
    BY <1>0, <1>2 DEF BodyReadFails, ResponseHeld, NoStreamLeaked
  <2> QED
    BY <2>2, <2>3, <2>4 DEF IInv, Bookkeeping, Data
<1> QED
  BY <1>1, <1>2 DEF BodyRead

\* After a failure the stream is closed and forgotten before Read retries or returns.
LEMMA FailIInv == ASSUME IInv, CloseStream \/ Decide PROVE IInv'
<1>0. /\ TypeOK /\ Data /\ ResponseHeld /\ NoStreamLeaked
      /\ startCount \in Nat /\ StartOffset \in Nat /\ stream.size \in Nat /\ size \in Nat
  BY FileAssumption, CountAssumption DEF IInv, TypeOK, Bookkeeping, Data
<1>a. startCount' = startCount => countWasBounded' = countWasBounded
  BY DEF countWasBounded
<1> USE DEF info, output, file
<1>1. CASE CloseStream
  <2>1. TypeOK'
    BY <1>0, <1>1 DEF CloseStream, TypeOK
  <2>2. Data'
    BY <1>0, <1>a, <1>1 DEF CloseStream, Data, StreamPosition, DeliveredInOrder, RequestsMissingBytes,
       EOFMeansComplete
  <2>3. ResponseHeld' /\ NoStreamLeaked'
    BY <1>0, <1>1 DEF CloseStream, ResponseHeld, NoStreamLeaked
  <2> QED
    BY <2>1, <2>2, <2>3 DEF IInv, Bookkeeping, Data
<1>2. CASE Decide
  <2>1. NoStreamLeaked'
    BY <1>0, <1>2 DEF Decide, ResponseHeld, NoStreamLeaked
  <2>2. CASE willRetry
    <3>1. TypeOK'
      <4>1. try' \in 0 .. MaxRetryRequests
        BY <1>0, <1>2, <2>2, OptionAssumption DEF Decide, TypeOK, willRetry
      <4> QED
        BY <1>0, <1>2, <2>2, <4>1 DEF Decide, TypeOK, NoResponse
    <3>2. Data'
      BY <1>0, <1>a, <1>2, <2>2 DEF Decide, Data, StreamPosition, DeliveredInOrder, RequestsMissingBytes,
         EOFMeansComplete
    <3>3. ResponseHeld'
      BY <1>0, <1>2, <2>2 DEF Decide, ResponseHeld
    <3> QED
      BY <2>1, <3>1, <3>2, <3>3 DEF IInv, Bookkeeping, Data
  <2>3. CASE ~willRetry
    <3>1. failure.n \in Nat /\ failure.n <= stream.end - stream.pos /\ Deliver(failure.n)
      BY <1>0, <1>2, <2>3, OptionAssumption DEF Decide, TypeOK, Data, StreamPosition
    <3>2. TypeOK'
      BY <1>0, <1>2, <2>3, <3>1, DeliverNext DEF Decide, TypeOK, NoResponse
    <3>3. PICK n \in Nat : n = failure.n
      BY <3>1
    <3>4. /\ Len(delivered') = Len(delivered) + n
          /\ \A k \in 1 .. Len(delivered') : delivered'[k] = StartOffset + k - 1
          /\ stream'.pos = stream.pos + n /\ stream'.end = stream.end /\ stream'.size = stream.size
      BY <3>1, <3>3, DeliverNext
    <3>5. /\ stream.pos \in Nat /\ stream.end \in Nat /\ Len(delivered) \in Nat
          /\ countWasBounded => stream.end <= StartOffset + startCount
      BY StreamEnds
    <3>6. Data'
      <4>1. /\ caller' = "error" /\ pc' = "idle" /\ offset' = offset /\ count' = count
            /\ startCount' = startCount /\ countWasBounded' = countWasBounded
        BY <1>a, <1>2, <2>3 DEF Decide
      <4>2. StreamPosition'
        <5>1. stream'.pos = StartOffset + Len(delivered') /\ stream'.pos <= stream'.end
          <6>1. stream.pos = StartOffset + Len(delivered) /\ n <= stream.end - stream.pos
            BY <1>0, <3>1, <3>3 DEF Data, StreamPosition
          <6> QED
            BY <1>0, <3>4, <3>5, <6>1
        <5>2. stream'.end = RangeEnd(StartOffset, startCount', stream'.size)
          BY <1>0, <3>4, <4>1 DEF Data, StreamPosition
        <5> QED
          BY <1>0, <4>1, <5>1, <5>2 DEF Data, StreamPosition
      <4>3. DeliveredInOrder' /\ RequestsMissingBytes' /\ EOFMeansComplete'
        BY <1>0, <3>1, <3>3, <3>4, <3>5, <4>1 DEF Data, StreamPosition, DeliveredInOrder,
           RequestsMissingBytes, EOFMeansComplete
      <4> QED
        BY <4>2, <4>3 DEF Data
    <3>7. ResponseHeld'
      BY <1>0, <1>2, <2>3 DEF Decide, ResponseHeld
    <3> QED
      BY <2>1, <3>2, <3>6, <3>7 DEF IInv, Bookkeeping, Data
  <2> QED
    BY <2>2, <2>3
<1> QED
  BY <1>1, <1>2

\* Other goroutines closing the reader, the caller's own Close and writers of the file.
LEMMA EnvironmentIInv ==
    ASSUME IInv, ConcurrentClose \/ FinalClose \/ Overwrite \/ UNCHANGED vars
    PROVE  IInv'
<1>0. /\ TypeOK /\ Data /\ ResponseHeld /\ NoStreamLeaked
  BY DEF IInv, Bookkeeping, Data
<1>a. startCount' = startCount => countWasBounded' = countWasBounded
  BY DEF countWasBounded
<1> USE DEF info, output, file, readVars
<1>1. CASE ConcurrentClose
  <2>1. TypeOK' /\ ResponseHeld' /\ NoStreamLeaked'
    BY <1>0, <1>1 DEF ConcurrentClose, TypeOK, ResponseHeld, NoStreamLeaked
  <2>2. Data'
    BY <1>0, <1>a, <1>1 DEF ConcurrentClose, Data, StreamPosition, DeliveredInOrder,
       RequestsMissingBytes, EOFMeansComplete
  <2> QED
    BY <2>1, <2>2 DEF IInv, Bookkeeping, Data
<1>2. CASE FinalClose
  <2>1. TypeOK' /\ ResponseHeld' /\ NoStreamLeaked'
    BY <1>0, <1>2 DEF FinalClose, TypeOK, ResponseHeld, NoStreamLeaked
  <2>2. Data'
    BY <1>0, <1>a, <1>2 DEF FinalClose, Data, StreamPosition, DeliveredInOrder,
       RequestsMissingBytes, EOFMeansComplete
  <2> QED
    BY <2>1, <2>2 DEF IInv, Bookkeeping, Data
<1>3. CASE Overwrite
  <2>1. TypeOK' /\ ResponseHeld' /\ NoStreamLeaked'
    BY <1>0, <1>3, OptionAssumption DEF Overwrite, TypeOK, ResponseHeld, NoStreamLeaked
  <2>2. Data'
    BY <1>0, <1>a, <1>3 DEF Overwrite, Data, StreamPosition, DeliveredInOrder,
       RequestsMissingBytes, EOFMeansComplete
  <2> QED
    BY <2>1, <2>2 DEF IInv, Bookkeeping, Data
<1>4. CASE UNCHANGED vars
  <2>1. TypeOK' /\ ResponseHeld' /\ NoStreamLeaked'
    BY <1>0, <1>4 DEF vars, TypeOK, ResponseHeld, NoStreamLeaked
  <2>2. Data'
    BY <1>0, <1>a, <1>4 DEF vars, Data, StreamPosition, DeliveredInOrder,
       RequestsMissingBytes, EOFMeansComplete
  <2> QED
    BY <2>1, <2>2 DEF IInv, Bookkeeping, Data
<1> QED
  BY <1>1, <1>2, <1>3, <1>4

\* The invariant of the read loop under every interleaving with Close from other
\* goroutines and with writers of the file (zc_retry_reader.go:103-185).
THEOREM ReaderInvariant == Spec => []IInv
<1>1. IInv /\ [Next]_vars => IInv'
  BY ReadIInv, BodyReadIInv, FailIInv, EnvironmentIInv DEF Next, ReaderStep, ReadStep, Terminated
<1> QED
  BY <1>1, InitIInv, PTL DEF Spec

\* The reader's state keeps its type; in particular offset never passes the file's end.
THEOREM ReaderTypeCorrect == Spec => []TypeOK
<1>1. IInv => TypeOK
  BY DEF IInv
<1> QED
  BY <1>1, ReaderInvariant, PTL

\* The caller receives the range's bytes once each and in order, whatever fails.
THEOREM DeliveredInOrderHolds == Spec => []DeliveredInOrder
<1>1. IInv => DeliveredInOrder
  BY DEF IInv
<1> QED
  BY <1>1, ReaderInvariant, PTL

\* io.EOF is returned only when the whole range has been delivered.
THEOREM EOFMeansCompleteHolds == Spec => []EOFMeansComplete
<1>1. IInv => EOFMeansComplete
  BY DEF IInv
<1> QED
  BY <1>1, ReaderInvariant, PTL

\* Every new GET is for exactly the missing bytes, never for an empty range that
\* CountToEnd would turn into the rest of the file (zc_retry_reader.go:106, 131-136).
THEOREM RequestsMissingBytesHolds == Spec => []RequestsMissingBytes
<1>1. IInv => RequestsMissingBytes
  BY DEF IInv
<1> QED
  BY <1>1, ReaderInvariant, PTL

\* No response body is left open behind the reader (zc_retry_reader.go:138-139, 178-185).
THEOREM NoStreamLeakedHolds == Spec => []NoStreamLeaked
<1>1. IInv => NoStreamLeaked
  BY DEF IInv
<1> QED
  BY <1>1, ReaderInvariant, PTL
=============================================================================
