--------------------------- MODULE PipelineProofs ----------------------------
(***************************************************************************)
(* Proofs about Pipeline, for every capacity, chunk size, retry limit and  *)
(* input length.                                                           *)
(***************************************************************************)
EXTENDS Pipeline, TLAPS, SequenceTheorems, FiniteSetTheorems, FunctionTheorems

\* The assertion on `chunk_size` in `read_csv_from_stdin` (line 283) holds.
THEOREM ChunkSizeAsserted == ChunkSize > 0 /\ ChunkSize <= GEOCODE_SIZE
<1>1. GEOCODE_SIZE \in Nat \ {0} /\ PrefixCount \in Nat
  BY SizeAssumption
<1>2. Larger(PrefixCount, 1) \in Nat \ {0}
  BY <1>1 DEF Larger
<1>3. \A n \in Nat \ {0} : GEOCODE_SIZE \div n \in Nat /\ GEOCODE_SIZE \div n <= GEOCODE_SIZE
  BY <1>1, Z3
<1>4. QED
  BY <1>1, <1>2, <1>3 DEF ChunkSize, Larger

LEMMA ChunkSizeType == ChunkSize \in Nat \ {0}
BY ChunkSizeAsserted, SizeAssumption DEF ChunkSize, Larger

-------------------------------------------------------------------------------
\* Queues: what Append, Head and Tail do to typed sequences.

LEMMA TailType ==
  ASSUME NEW S, NEW q \in Seq(S), q # <<>>
  PROVE  /\ Head(q) \in S /\ Head(q) = q[1]
         /\ Tail(q) \in Seq(S)
         /\ Len(Tail(q)) = Len(q) - 1 /\ Len(q) \in Nat \ {0}
         /\ \A i \in 1..(Len(q) - 1) : Tail(q)[i] = q[i + 1]
BY HeadTailProperties, LenProperties

LEMMA AppendType ==
  ASSUME NEW S, NEW q \in Seq(S), NEW e \in S
  PROVE  /\ Append(q, e) \in Seq(S) /\ Append(q, e) # <<>>
         /\ Len(Append(q, e)) = Len(q) + 1 /\ Len(q) \in Nat
         /\ \A i \in 1..Len(q) : Append(q, e)[i] = q[i]
         /\ Append(q, e)[Len(q) + 1] = e
BY AppendProperties, LenProperties

LEMMA OnlyOne == \A n \in Nat \ {0} : n <= 1 => n = 1
OBVIOUS

LEMMA EmptyType ==
  ASSUME NEW S
  PROVE  <<>> \in Seq(S) /\ Len(<<>>) = 0
OBVIOUS

LEMMA SingleType ==
  ASSUME NEW S, NEW e \in S
  PROVE  <<e>> \in Seq(S) /\ Len(<<e>>) = 1 /\ Head(<<e>>) = e /\ <<e>>[1] = e /\ <<e>> # <<>>
OBVIOUS

\* The records of a chunk are a sequence of row numbers.
LEMMA RowsType ==
  ASSUME NEW msg \in Message
  PROVE  /\ Rows(msg) \in Seq(Nat)
         /\ msg.lo <= msg.hi => Len(Rows(msg)) = msg.hi - msg.lo
<1>1. CASE msg.lo <= msg.hi
  <2>1. msg.hi - msg.lo \in Nat
    BY <1>1 DEF Message
  <2>2. Rows(msg) \in [1..(msg.hi - msg.lo) -> Nat]
    BY <2>1 DEF Rows, Message
  <2>3. QED
    BY <2>1, <2>2 DEF Rows
<1>2. CASE ~(msg.lo <= msg.hi)
  <2>1. 1..(msg.hi - msg.lo) = 1..0
    BY <1>2 DEF Message
  <2>2. Rows(msg) \in [1..0 -> Nat]
    BY <2>1 DEF Rows
  <2>3. QED
    BY <1>2, <2>2
<1>3. QED
  BY <1>1, <1>2

LEMMA RecordsType ==
  ASSUME NEW msg \in Message
  PROVE  Records(msg) \in Seq(Nat)
BY RowsType, ConcatProperties, SingleType DEF Records

-------------------------------------------------------------------------------
\* Type correctness.

LEMMA InitType == Init => TypeOK
<1> SUFFICES ASSUME Init PROVE TypeOK
  OBVIOUS
<1>1. /\ <<>> \in Seq(Message) /\ <<>> \in Seq(Future) /\ <<>> \in Seq(Nat)
      /\ Len(<<>>) = 0
  BY EmptyType
<1>2. /\ numRows \in 0..MaxRows
      /\ rlo \in Nat /\ rnext \in Nat /\ rlo <= rnext /\ rnext <= numRows
      /\ existing \in Int
  BY BoundAssumption DEF Init
<1>3. sentChunk \in BOOLEAN /\ madeFinal \in BOOLEAN /\ headersWritten \in BOOLEAN
  BY Zenon DEF Init
<1>4. /\ 0 <= CHANNEL_BUFFER /\ 0 <= CONCURRENCY /\ 0 <= 1
  BY CapacityAssumption
<1>5. QED
  BY <1>1, <1>2, <1>3, <1>4, Zenon DEF Init, TypeOK

LEMMA ReaderType == TypeOK /\ Reader => TypeOK'
<1> SUFFICES ASSUME TypeOK, Reader PROVE TypeOK'
  OBVIOUS
<1> USE DEF TypeOK, geocodeVars, writerVars
<1>1. CASE ReaderSetup
  BY <1>1 DEF ReaderSetup
<1>2. CASE ReadRow
  BY <1>2, BoundAssumption DEF ReadRow
<1>3. CASE ReadError
  BY <1>3 DEF ReadError
<1>4. CASE ReadEof
  BY <1>4 DEF ReadEof, NeedsFinal
<1>5. CASE ReaderSend
  <2>1. Outgoing \in Message
    BY BoundAssumption DEF Outgoing, EndOfStream, Chunk, Message, Kind
  <2>2. inQ' \in Seq(Message) /\ Len(inQ') <= CHANNEL_BUFFER
    BY <1>5, <2>1, AppendType, CapacityAssumption DEF ReaderSend
  <2>3. rpc' \in {"read", "sendEos", "ok"}
    BY <1>5 DEF ReaderSend, Sending, AfterSend
  <2>4. QED
    BY <1>5, <2>2, <2>3, BoundAssumption DEF ReaderSend
<1>6. CASE ReaderSendFail
  BY <1>6 DEF ReaderSendFail, ReaderHolds
<1>7. QED
  BY <1>1, <1>2, <1>3, <1>4, <1>5, <1>6 DEF Reader

\* Counting chunks in a queue gives a number.
LEMMA CountType ==
  ASSUME NEW S, NEW q \in Seq(S), NEW P, P \in SUBSET DOMAIN q
  PROVE  IsFiniteSet(P) /\ Cardinality(P) \in Nat /\ Cardinality(P) <= Len(q)
<1>1. Len(q) \in Nat /\ DOMAIN q = 1..Len(q)
  BY LenProperties
<1>2. 1 \in Int /\ Len(q) \in Int
  BY <1>1
<1>3. IsFiniteSet(1..Len(q)) /\ Cardinality(1..Len(q)) = IF 1 > Len(q) THEN 0 ELSE Len(q) - 1 + 1
  BY <1>2, FS_Interval, Zenon
<1>4. Cardinality(1..Len(q)) = Len(q)
  BY <1>1, <1>3
<1>5. P \in SUBSET (1..Len(q))
  BY <1>1
<1>6. IsFiniteSet(P) /\ Cardinality(P) <= Cardinality(1..Len(q))
  BY <1>3, <1>5, FS_Subset
<1>7. QED
  BY <1>4, <1>6, FS_CardinalityType

LEMMA ChunksInType ==
  ASSUME NEW q \in Seq(Message)
  PROVE  ChunksIn(q) \in Nat /\ ChunksIn(q) <= Len(q)
BY CountType DEF ChunksIn

LEMMA OwnedType ==
  ASSUME NEW fs \in Seq(Future)
  PROVE  Owned(fs) \in Nat /\ Owned(fs) <= Len(fs)
BY CountType DEF Owned

\* Replacing the i-th future keeps the others and the length.
LEMMA ReplaceFuture ==
  ASSUME NEW S, NEW fs \in Seq(S), NEW i \in DOMAIN fs, NEW f \in S
  PROVE  /\ [fs EXCEPT ![i] = f] \in Seq(S)
         /\ Len([fs EXCEPT ![i] = f]) = Len(fs)
         /\ \A j \in 1..Len(fs) : [fs EXCEPT ![i] = f][j] = IF j = i THEN f ELSE fs[j]
<1>1. Len(fs) \in Nat /\ DOMAIN fs = 1..Len(fs) /\ fs \in [1..Len(fs) -> S]
  BY LenProperties
<1>2. [fs EXCEPT ![i] = f] \in [1..Len(fs) -> S]
  BY <1>1
<1>3. [fs EXCEPT ![i] = f] \in Seq(S)
  BY <1>1, <1>2
<1>4. Len([fs EXCEPT ![i] = f]) = Len(fs)
  BY <1>1, <1>2, <1>3, LenProperties
<1>5. QED
  BY <1>1, <1>3, <1>4

\* A step of a future replaces it by one with the same message.
LEMMA FutureStepReplaces ==
  ASSUME TypeOK, NEW i \in DOMAIN inProgress,
         GeocodeOk(i) \/ GeocodeRetry(i) \/ GeocodeFail(i)
  PROVE  \E f \in Future :
           /\ inProgress' = [inProgress EXCEPT ![i] = f]
           /\ f.msg = inProgress[i].msg
           /\ f.status = IF GeocodeOk(i) THEN "ok"
                         ELSE IF GeocodeRetry(i) THEN "running" ELSE "err"
<1>1. inProgress[i] \in Future
  BY DEF TypeOK
<1>2. CASE GeocodeOk(i)
  <2>1. [inProgress[i] EXCEPT !.status = "ok"] \in Future
    BY <1>1 DEF Future
  <2>2. inProgress' = [inProgress EXCEPT ![i] = [inProgress[i] EXCEPT !.status = "ok"]]
    BY <1>2 DEF GeocodeOk
  <2>3. /\ [inProgress[i] EXCEPT !.status = "ok"].msg = inProgress[i].msg
        /\ [inProgress[i] EXCEPT !.status = "ok"].status = "ok"
    BY <1>1 DEF Future
  <2>4. QED
    BY <1>2, <2>1, <2>2, <2>3
<1>3. CASE GeocodeRetry(i)
  <2>1. inProgress[i].failures + 1 \in 0..MAX_RETRIES
    BY <1>1, <1>3, BoundAssumption DEF GeocodeRetry, Future
  <2>2. [inProgress[i] EXCEPT !.failures = @ + 1] \in Future
    BY <1>1, <2>1 DEF Future
  <2>3. inProgress' = [inProgress EXCEPT ![i] = [inProgress[i] EXCEPT !.failures = @ + 1]]
    BY <1>3 DEF GeocodeRetry
  <2>4. inProgress[i].status = "running" /\ ~GeocodeOk(i)
    <3>1. inProgress'[i].status = "running" /\ inProgress[i].status = "running"
      BY <1>1, <1>3, <2>3 DEF GeocodeRetry, IsRunning, Future, TypeOK
    <3>2. GeocodeOk(i) => inProgress'[i].status = "ok"
      BY <1>1 DEF GeocodeOk, Future, TypeOK
    <3>3. QED
      BY <3>1, <3>2
  <2>5. QED
    BY <1>1, <1>3, <2>2, <2>3, <2>4 DEF Future
<1>4. CASE GeocodeFail(i)
  <2>1. [inProgress[i] EXCEPT !.status = "err"] \in Future
    BY <1>1 DEF Future
  <2>2. inProgress' = [inProgress EXCEPT ![i] = [inProgress[i] EXCEPT !.status = "err"]]
    BY <1>4 DEF GeocodeFail
  <2>3. ~GeocodeOk(i) /\ ~GeocodeRetry(i)
    <3>1. inProgress'[i].status = "err"
      BY <1>1, <2>2 DEF Future, TypeOK
    <3>2. GeocodeOk(i) => inProgress'[i].status = "ok"
      BY <1>1 DEF GeocodeOk, Future, TypeOK
    <3>3. GeocodeRetry(i) => inProgress'[i].status = "running"
      BY <1>1 DEF GeocodeRetry, IsRunning, Future, TypeOK
    <3>4. QED
      BY <3>1, <3>2, <3>3
  <2>4. QED
    BY <1>1, <2>1, <2>2, <2>3 DEF Future
<1>5. QED
  BY <1>2, <1>3, <1>4

LEMMA GiveUpType == TypeOK /\ GiveUp => TypeOK'
<1> SUFFICES ASSUME TypeOK, GiveUp PROVE TypeOK'
  OBVIOUS
<1>1. existing' \in Int
  BY ChunksInType, OwnedType DEF GiveUp, TypeOK
<1>2. /\ inQ' \in Seq(Message) /\ hand' \in Seq(Message) /\ inProgress' \in Seq(Future)
      /\ Len(inQ') = 0 /\ Len(hand') = 0 /\ Len(inProgress') = 0
  BY EmptyType DEF GiveUp
<1>3. QED
  BY <1>1, <1>2, CapacityAssumption DEF GiveUp, TypeOK, readerVars, writerVars

LEMMA GeocodeType == TypeOK /\ Geocode => TypeOK'
<1> SUFFICES ASSUME TypeOK, Geocode PROVE TypeOK'
  OBVIOUS
<1> USE DEF TypeOK, readerVars, writerVars, geocodeVars
<1>1. CASE GeocodeTake
  <2>1. Head(inQ) \in Message /\ Tail(inQ) \in Seq(Message) /\ Len(Tail(inQ)) <= CHANNEL_BUFFER
    BY <1>1, TailType, CapacityAssumption DEF GeocodeTake
  <2>2. NewFuture(Head(inQ)) \in Future
    BY <2>1, BoundAssumption DEF NewFuture, Future
  <2>3. inProgress' \in Seq(Future) /\ Len(inProgress') <= CONCURRENCY
    BY <1>1, <2>2, AppendType, CapacityAssumption DEF GeocodeTake, CanTake
  <2>4. QED
    BY <1>1, <2>1, <2>3 DEF GeocodeTake
<1>2. CASE FutureStep
  <2> PICK i \in DOMAIN inProgress :
        GeocodeOk(i) \/ GeocodeEmpty(i) \/ GeocodeRetry(i) \/ GeocodeFail(i)
    BY <1>2 DEF FutureStep
  <2>1. CASE GeocodeEmpty(i)
    BY <2>1 DEF GeocodeEmpty
  <2>2. CASE GeocodeOk(i) \/ GeocodeRetry(i) \/ GeocodeFail(i)
    <3> PICK f \in Future : inProgress' = [inProgress EXCEPT ![i] = f]
      BY <2>2, FutureStepReplaces
    <3>1. inProgress' \in Seq(Future) /\ Len(inProgress') = Len(inProgress)
      BY ReplaceFuture
    <3>2. existing' \in Int
      BY <2>2 DEF GeocodeOk, GeocodeRetry, GeocodeFail
    <3>3. QED
      BY <2>2, <3>1, <3>2 DEF GeocodeOk, GeocodeRetry, GeocodeFail
  <2>3. QED
    BY <2>1, <2>2
<1>3. CASE Emit
  <2>1. /\ Head(inProgress) \in Future /\ Tail(inProgress) \in Seq(Future)
        /\ Len(Tail(inProgress)) <= CONCURRENCY
    BY <1>3, TailType, CapacityAssumption DEF Emit
  <2>2. hand' \in Seq(Message) /\ Len(hand') = 1
    BY <1>3, <2>1, SingleType DEF Emit, Future
  <2>3. QED
    BY <1>3, <2>1, <2>2 DEF Emit
<1>4. CASE EmitErr
  BY <1>4, GiveUpType DEF EmitErr
<1>5. CASE OutSend
  <2>1. Head(hand) \in Message
    BY <1>5, TailType DEF OutSend
  <2>2. outQ' \in Seq(Message) /\ Len(outQ') <= CHANNEL_BUFFER
    BY <1>5, <2>1, AppendType, CapacityAssumption DEF OutSend
  <2>3. hand' \in Seq(Message) /\ Len(hand') <= 1
    BY <1>5, EmptyType DEF OutSend
  <2>4. QED
    BY <1>5, <2>2, <2>3 DEF OutSend
<1>6. CASE OutSendFail
  BY <1>6, GiveUpType DEF OutSendFail
<1>7. CASE GeocodeEnd
  BY <1>7 DEF GeocodeEnd
<1>8. QED
  BY <1>1, <1>2, <1>3, <1>4, <1>5, <1>6, <1>7 DEF Geocode

LEMMA WriterEndType ==
  ASSUME TypeOK, NEW result \in {"ok", "err"}, NEW dropped \in Int, WriterEnd(result, dropped),
         headersWritten' \in BOOLEAN, written' \in Seq(Nat)
  PROVE  TypeOK'
<1>1. existing' \in Int
  BY ChunksInType DEF WriterEnd, TypeOK
<1>2. /\ outQ' \in Seq(Message) /\ current' \in Seq(Message)
      /\ Len(outQ') = 0 /\ Len(current') = 0
  BY EmptyType DEF WriterEnd
<1>3. QED
  BY <1>1, <1>2, CapacityAssumption DEF WriterEnd, TypeOK, readerVars, geocodeVars

LEMMA WriterType == TypeOK /\ Writer => TypeOK'
<1> SUFFICES ASSUME TypeOK, Writer PROVE TypeOK'
  OBVIOUS
<1>1. CASE Receive
  <2>1. Head(outQ) \in Message /\ Tail(outQ) \in Seq(Message) /\ Len(Tail(outQ)) <= CHANNEL_BUFFER
    BY <1>1, TailType, CapacityAssumption DEF Receive, TypeOK
  <2>2. current' \in Seq(Message) /\ Len(current') = 1
    BY <1>1, <2>1, SingleType DEF Receive
  <2>3. QED
    BY <1>1, <2>1, <2>2 DEF Receive, TypeOK, readerVars, geocodeVars
<1>2. CASE WriteChunk
  <2>1. Records(Head(current)) \in Seq(Nat)
    BY <1>2, TailType, RecordsType DEF WriteChunk, TypeOK
  <2>2. written' \in Seq(Nat)
    BY <1>2, <2>1, ConcatProperties DEF WriteChunk, TypeOK
  <2>3. current' \in Seq(Message) /\ Len(current') = 0
    BY <1>2, EmptyType DEF WriteChunk
  <2>4. QED
    BY <1>2, <2>2, <2>3 DEF WriteChunk, TypeOK, readerVars, geocodeVars
<1>3. CASE WriteFail
  <2>1. Records(Head(current)) \in Seq(Nat)
    BY <1>3, TailType, RecordsType DEF WriteFail, TypeOK
  <2>2. PICK k \in 0..(Len(Records(Head(current))) - 1) :
          /\ written' = written \o SubSeq(Records(Head(current)), 1, k)
          /\ headersWritten' = (headersWritten \/ k > 0)
    BY <1>3 DEF WriteFail
  <2>3. SubSeq(Records(Head(current)), 1, k) \in Seq(Nat)
    BY <2>1, LenProperties, SubSeqProperties
  <2>4. written' \in Seq(Nat)
    BY <2>2, <2>3, ConcatProperties DEF TypeOK
  <2>5. headersWritten' \in BOOLEAN
    BY <2>2
  <2>6. QED
    BY <1>3, <2>4, <2>5, WriterEndType DEF WriteFail
<1>4. CASE WriteEos
  BY <1>4, WriterEndType DEF WriteEos, TypeOK
<1>5. CASE WriteNoEos
  BY <1>5, WriterEndType DEF WriteNoEos, TypeOK
<1>6. QED
  BY <1>1, <1>2, <1>3, <1>4, <1>5 DEF Writer

LEMMA StepType == TypeOK /\ [Next]_vars => TypeOK'
<1> SUFFICES ASSUME TypeOK, [Next]_vars PROVE TypeOK'
  OBVIOUS
<1>1. CASE Reader
  BY <1>1, ReaderType
<1>2. CASE Geocode
  BY <1>2, GeocodeType
<1>3. CASE Writer
  BY <1>3, WriterType
<1>4. CASE MainExit
  BY <1>4 DEF MainExit, TypeOK, readerVars, geocodeVars, writerVars
<1>5. CASE UNCHANGED vars
  BY <1>5 DEF vars, TypeOK, readerVars, geocodeVars, writerVars
<1>6. QED
  BY <1>1, <1>2, <1>3, <1>4, <1>5 DEF Next, Terminated

\* Every variable keeps its type: in particular the channels never hold more
\* than CHANNEL_BUFFER messages and `.buffered()` never more than CONCURRENCY
\* futures.
THEOREM TypeCorrect == Spec => []TypeOK
<1>1. Init => TypeOK
  BY InitType
<1>2. TypeOK /\ [Next]_vars => TypeOK'
  BY StepType
<1>3. QED
  BY <1>1, <1>2, PTL DEF Spec

-------------------------------------------------------------------------------
\* Order.  A message takes up the records Before+1..After of the output of an
\* input of n rows; an end-of-stream takes up none and belongs at the end.

Before(msg, n) ==
    IF IsChunk(msg) THEN (IF msg.lo = 0 THEN 0 ELSE msg.lo + 1) ELSE n + 1
After(msg, n) == IF IsChunk(msg) THEN msg.hi + 1 ELSE n + 1

\* The messages of q follow each other, the first one after `from` records.
Chain(q, from, n) ==
    /\ q # <<>> => Before(q[1], n) = from
    /\ \A i \in 1..(Len(q) - 1) : Before(q[i + 1], n) = After(q[i], n)
End(q, from, n) == IF q = <<>> THEN from ELSE After(q[Len(q)], n)

\* Chunks hold rows of the input.
Proper(q, n) ==
    \A i \in 1..Len(q) : IsChunk(q[i]) => q[i].lo <= q[i].hi /\ q[i].hi <= n

Messages(fs) == [i \in 1..Len(fs) |-> fs[i].msg]

\* The records that precede what the reader sends next.
Sent == IF rpc \in {"sendEos", "ok"} THEN numRows + 1 ELSE IF rlo = 0 THEN 0 ELSE rlo + 1

\* The reader: what it holds and what it sent.
ReaderInv ==
    /\ sentChunk => rlo > 0
    /\ rpc = "sendChunk" => rnext > rlo
    /\ rpc \in {"sendFinal", "sendEos", "ok"} => rnext = numRows

\* Each queue starts where the one nearer the output ends.
E1 == End(current, Len(written), numRows)
E2 == End(outQ, E1, numRows)
E3 == End(hand, E2, numRows)
E4 == End(Messages(inProgress), E3, numRows)
E5 == End(inQ, E4, numRows)

WriterChain ==
    wpc = "run" => Chain(current, Len(written), numRows) /\ Chain(outQ, E1, numRows)
GeocodeChain ==
    wpc = "run" /\ gpc = "run" =>
        /\ Chain(hand, E2, numRows)
        /\ Chain(Messages(inProgress), E3, numRows)
        /\ Chain(inQ, E4, numRows)
        /\ rpc # "err" => E5 = Sent

AllProper ==
    /\ Proper(current, numRows) /\ Proper(outQ, numRows) /\ Proper(hand, numRows)
    /\ Proper(Messages(inProgress), numRows) /\ Proper(inQ, numRows)

\* What is written, and when the writer is done with it.
WrittenInv ==
    /\ OutputInOrder
    /\ Len(written) <= numRows + 1
    /\ headersWritten <=> Len(written) > 0
    /\ wpc # "run" => current = <<>>
    /\ EosMeansComplete

OrderInv == ReaderInv /\ WriterChain /\ GeocodeChain /\ AllProper /\ WrittenInv

LEMMA ChainEmpty ==
  ASSUME NEW from, NEW n
  PROVE  Chain(<<>>, from, n) /\ End(<<>>, from, n) = from /\ Proper(<<>>, n)
BY EmptyType DEF Chain, End, Proper

LEMMA ChainSingle ==
  ASSUME NEW msg \in Message, NEW n
  PROVE  /\ Chain(<<msg>>, Before(msg, n), n)
         /\ \A from : End(<<msg>>, from, n) = After(msg, n)
BY SingleType DEF Chain, End

LEMMA ChainAppend ==
  ASSUME NEW q \in Seq(Message), NEW msg \in Message, NEW from, NEW n,
         Chain(q, from, n), Before(msg, n) = End(q, from, n)
  PROVE  Chain(Append(q, msg), from, n) /\ End(Append(q, msg), from, n) = After(msg, n)
<1> DEFINE r == Append(q, msg)
<1>1. /\ Len(r) = Len(q) + 1 /\ Len(q) \in Nat /\ r # <<>>
      /\ \A i \in 1..Len(q) : r[i] = q[i]
      /\ r[Len(q) + 1] = msg
  BY AppendType
<1>2. q = <<>> <=> Len(q) = 0
  BY EmptySeq
<1> HIDE DEF r
<1>3. End(r, from, n) = After(msg, n)
  BY <1>1 DEF End
<1>4. Before(r[1], n) = from
  BY <1>1, <1>2 DEF Chain, End
<1>5. ASSUME NEW i \in 1..(Len(r) - 1)
      PROVE  Before(r[i + 1], n) = After(r[i], n)
  <2>1. CASE i = Len(q)
    BY <1>1, <1>2, <2>1 DEF End
  <2>2. CASE i < Len(q)
    BY <1>1, <2>2 DEF Chain
  <2>3. QED
    BY <1>1, <2>1, <2>2
<1>6. QED
  BY <1>3, <1>4, <1>5 DEF Chain, r

LEMMA ChainTail ==
  ASSUME NEW q \in Seq(Message), NEW from, NEW n, Chain(q, from, n), q # <<>>
  PROVE  /\ Before(Head(q), n) = from
         /\ Chain(Tail(q), After(Head(q), n), n)
         /\ End(Tail(q), After(Head(q), n), n) = End(q, from, n)
<1> DEFINE r == Tail(q)
<1>1. /\ Len(r) = Len(q) - 1 /\ Len(q) \in Nat \ {0}
      /\ Head(q) = q[1] /\ r \in Seq(Message)
      /\ \A i \in 1..(Len(q) - 1) : r[i] = q[i + 1]
  BY TailType
<1>2. r = <<>> <=> Len(r) = 0
  BY <1>1, EmptySeq
<1> HIDE DEF r
<1>3. Before(Head(q), n) = from
  BY <1>1 DEF Chain
<1>4. r # <<>> => Before(r[1], n) = After(Head(q), n)
  BY <1>1, <1>2 DEF Chain
<1>5. ASSUME NEW i \in 1..(Len(r) - 1)
      PROVE  Before(r[i + 1], n) = After(r[i], n)
  BY <1>1 DEF Chain
<1>6. End(r, After(Head(q), n), n) = End(q, from, n)
  BY <1>1, <1>2 DEF End
<1>7. QED
  BY <1>3, <1>4, <1>5, <1>6 DEF Chain, r

LEMMA ProperAppend ==
  ASSUME NEW q \in Seq(Message), NEW msg \in Message, NEW n, Proper(q, n),
         IsChunk(msg) => msg.lo <= msg.hi /\ msg.hi <= n
  PROVE  Proper(Append(q, msg), n)
BY AppendType DEF Proper

LEMMA ProperTail ==
  ASSUME NEW q \in Seq(Message), NEW n, Proper(q, n), q # <<>>
  PROVE  /\ Proper(Tail(q), n)
         /\ IsChunk(Head(q)) => Head(q).lo <= Head(q).hi /\ Head(q).hi <= n
BY TailType DEF Proper

LEMMA ProperSingle ==
  ASSUME NEW msg \in Message, NEW n, IsChunk(msg) => msg.lo <= msg.hi /\ msg.hi <= n
  PROVE  Proper(<<msg>>, n)
BY SingleType DEF Proper

-------------------------------------------------------------------------------
\* The messages of the futures.

LEMMA MessagesType ==
  ASSUME NEW fs \in Seq(Future)
  PROVE  /\ Messages(fs) \in Seq(Message) /\ Len(Messages(fs)) = Len(fs)
         /\ \A i \in 1..Len(fs) : Messages(fs)[i] = fs[i].msg
         /\ Messages(fs) = <<>> <=> fs = <<>>
<1>1. Len(fs) \in Nat /\ \A i \in 1..Len(fs) : fs[i] \in Future
  BY LenProperties
<1>2. Messages(fs) \in [1..Len(fs) -> Message]
  BY <1>1 DEF Messages, Future
<1>3. Messages(fs) \in Seq(Message) /\ Len(Messages(fs)) = Len(fs)
  BY <1>1, <1>2, LenProperties
<1>4. QED
  BY <1>1, <1>3, EmptySeq DEF Messages

LEMMA MessagesAppend ==
  ASSUME NEW fs \in Seq(Future), NEW f \in Future
  PROVE  Messages(Append(fs, f)) = Append(Messages(fs), f.msg)
<1>1. f.msg \in Message
  BY DEF Future
<1>2. Append(fs, f) \in Seq(Future)
  BY AppendType
<1>3. /\ Messages(Append(fs, f)) \in Seq(Message)
      /\ Append(Messages(fs), f.msg) \in Seq(Message)
      /\ Len(Messages(Append(fs, f))) = Len(fs) + 1
      /\ Len(Append(Messages(fs), f.msg)) = Len(fs) + 1
  <2>1. Messages(fs) \in Seq(Message) /\ Len(Messages(fs)) = Len(fs)
    BY MessagesType
  <2>2. /\ Append(Messages(fs), f.msg) \in Seq(Message)
        /\ Len(Append(Messages(fs), f.msg)) = Len(fs) + 1
    BY <1>1, <2>1, AppendType
  <2>3. Len(Append(fs, f)) = Len(fs) + 1
    BY AppendType
  <2>4. Messages(Append(fs, f)) \in Seq(Message) /\ Len(Messages(Append(fs, f))) = Len(Append(fs, f))
    BY <1>2, MessagesType
  <2>5. QED
    BY <2>2, <2>3, <2>4
<1>4. ASSUME NEW i \in 1..(Len(fs) + 1)
      PROVE  Messages(Append(fs, f))[i] = Append(Messages(fs), f.msg)[i]
  <2>0. Len(Append(fs, f)) = Len(fs) + 1 /\ Len(fs) \in Nat
    BY AppendType
  <2>1. Messages(Append(fs, f))[i] = Append(fs, f)[i].msg
    BY <2>0, <1>2, MessagesType
  <2>2. Messages(fs) \in Seq(Message) /\ Len(Messages(fs)) = Len(fs)
    BY MessagesType
  <2>3. CASE i = Len(fs) + 1
    <3>1. Append(fs, f)[i] = f
      BY <2>3, AppendType
    <3>2. Append(Messages(fs), f.msg)[i] = f.msg
      BY <1>1, <2>2, <2>3, AppendType
    <3>3. QED
      BY <2>1, <3>1, <3>2
  <2>4. CASE i \in 1..Len(fs)
    <3>1. Append(fs, f)[i] = fs[i]
      BY <2>4, AppendType
    <3>2. Append(Messages(fs), f.msg)[i] = Messages(fs)[i]
      BY <1>1, <2>2, <2>4, AppendType
    <3>3. Messages(fs)[i] = fs[i].msg
      BY <2>4, MessagesType
    <3>4. QED
      BY <2>1, <3>1, <3>2, <3>3
  <2>5. i = Len(fs) + 1 \/ i \in 1..Len(fs)
    BY <2>0
  <2>6. QED
    BY <2>3, <2>4, <2>5, Zenon
<1>5. QED
  BY <1>3, <1>4, SeqEqual

LEMMA MessagesTail ==
  ASSUME NEW fs \in Seq(Future), fs # <<>>
  PROVE  /\ Messages(Tail(fs)) = Tail(Messages(fs))
         /\ Head(Messages(fs)) = Head(fs).msg
<1>1. /\ Tail(fs) \in Seq(Future) /\ Messages(fs) \in Seq(Message)
      /\ Messages(fs) # <<>>
  BY TailType, MessagesType
<1>2. /\ Messages(Tail(fs)) \in Seq(Message) /\ Tail(Messages(fs)) \in Seq(Message)
      /\ Len(Messages(Tail(fs))) = Len(fs) - 1
      /\ Len(Tail(Messages(fs))) = Len(fs) - 1
  BY <1>1, MessagesType, TailType
<1>3. \A i \in 1..(Len(fs) - 1) : Messages(Tail(fs))[i] = Tail(Messages(fs))[i]
  <2> TAKE i \in 1..(Len(fs) - 1)
  <2>1. Messages(Tail(fs))[i] = fs[i + 1].msg
    <3>1. Messages(Tail(fs))[i] = Tail(fs)[i].msg
      BY <1>1, MessagesType, TailType
    <3>2. Tail(fs)[i] = fs[i + 1]
      BY TailType
    <3>3. QED
      BY <3>1, <3>2
  <2>2. Tail(Messages(fs))[i] = Messages(fs)[i + 1]
    <3>1. Len(Messages(fs)) = Len(fs)
      BY MessagesType
    <3>2. QED
      BY <1>1, <3>1, TailType
  <2>3. Len(fs) \in Nat /\ i + 1 \in 1..Len(fs)
    BY LenProperties
  <2>4. QED
    BY <2>1, <2>2, <2>3, MessagesType
<1>4. Head(Messages(fs)) = Head(fs).msg
  <2>1. Head(Messages(fs)) = Messages(fs)[1] /\ Head(fs) = fs[1] /\ 1 \in 1..Len(fs)
    BY <1>1, TailType
  <2>2. QED
    BY <2>1, MessagesType
<1>5. QED
  BY <1>2, <1>3, <1>4, SeqEqual

LEMMA MessagesReplace ==
  ASSUME NEW fs \in Seq(Future), NEW i \in DOMAIN fs, NEW f \in Future,
         f.msg = fs[i].msg
  PROVE  Messages([fs EXCEPT ![i] = f]) = Messages(fs)
<1>1. /\ [fs EXCEPT ![i] = f] \in Seq(Future)
      /\ Len([fs EXCEPT ![i] = f]) = Len(fs)
      /\ \A j \in 1..Len(fs) : [fs EXCEPT ![i] = f][j].msg = fs[j].msg
  BY ReplaceFuture
<1>2. QED
  BY <1>1 DEF Messages

-------------------------------------------------------------------------------
\* The records of the chunk whose turn it is continue the output.

LEMMA InOrderConcat ==
  ASSUME NEW w \in Seq(Nat), NEW r \in Seq(Nat),
         w = [i \in 1..Len(w) |-> i - 1],
         \A j \in 1..Len(r) : r[j] = Len(w) + j - 1
  PROVE  /\ Len(w \o r) = Len(w) + Len(r)
         /\ w \o r = [i \in 1..Len(w \o r) |-> i - 1]
<1> DEFINE n == Len(w) + Len(r)
           wr == w \o r
           t == [i \in 1..n |-> i - 1]
<1>1. Len(w) \in Nat /\ Len(r) \in Nat /\ n \in Nat
  BY LenProperties
<1>2. /\ wr \in Seq(Nat) /\ Len(wr) = n
      /\ \A i \in 1..n : wr[i] = IF i <= Len(w) THEN w[i] ELSE r[i - Len(w)]
  BY ConcatProperties
<1>3. ASSUME NEW i \in 1..n PROVE wr[i] = i - 1
  <2>1. CASE i <= Len(w)
    <3>1. i \in 1..Len(w)
      BY <1>1, <2>1
    <3>2. w[i] = i - 1
      BY <3>1
    <3>3. QED
      BY <1>2, <2>1, <3>2
  <2>2. CASE ~(i <= Len(w))
    <3>1. i - Len(w) \in 1..Len(r)
      BY <1>1, <2>2
    <3>2. r[i - Len(w)] = Len(w) + (i - Len(w)) - 1
      BY <3>1
    <3>3. QED
      BY <1>1, <1>2, <2>2, <3>2
  <2>3. QED
    BY <2>1, <2>2
<1>4. t \in Seq(Nat) /\ Len(t) = n
  <2>1. t \in [1..n -> Nat]
    BY <1>1
  <2>2. QED
    BY <1>1, <2>1
<1>5. wr = t
  BY <1>2, <1>3, <1>4, SeqEqual
<1>6. QED
  BY <1>2, <1>5

LEMMA RecordsContinue ==
  ASSUME NEW msg \in Message, IsChunk(msg), msg.lo <= msg.hi,
         written \in Seq(Nat), Before(msg, numRows) = Len(written),
         headersWritten <=> Len(written) > 0
  PROVE  /\ Records(msg) \in Seq(Nat)
         /\ Len(written) + Len(Records(msg)) = After(msg, numRows)
         /\ \A j \in 1..Len(Records(msg)) : Records(msg)[j] = Len(written) + j - 1
<1>1. /\ Rows(msg) \in Seq(Nat) /\ Len(Rows(msg)) = msg.hi - msg.lo
      /\ msg.lo \in Nat /\ msg.hi \in Nat
  BY RowsType DEF Message
<1>2. \A j \in 1..Len(Rows(msg)) : Rows(msg)[j] = msg.lo + j
  BY <1>1 DEF Rows
<1>3. Records(msg) \in Seq(Nat)
  BY RecordsType
<1>4. CASE msg.lo = 0
  <2>1. Records(msg) = <<0>> \o Rows(msg) /\ Len(written) = 0
    BY <1>4 DEF Before, Records
  <2>2. <<0>> \in Seq(Nat) /\ Len(<<0>>) = 1 /\ <<0>>[1] = 0
    BY SingleType
  <2>3. /\ Len(Records(msg)) = 1 + Len(Rows(msg))
        /\ \A j \in 1..(1 + Len(Rows(msg))) :
             Records(msg)[j] = IF j <= 1 THEN <<0>>[j] ELSE Rows(msg)[j - 1]
    BY <1>1, <2>1, <2>2, ConcatProperties
  <2>4. ASSUME NEW j \in 1..Len(Records(msg)) PROVE Records(msg)[j] = j - 1
    <3>1. CASE j = 1
      BY <2>2, <2>3, <3>1
    <3>2. CASE j > 1
      <4>1. j - 1 \in 1..Len(Rows(msg))
        BY <1>1, <2>3, <3>2
      <4>2. Rows(msg)[j - 1] = j - 1
        BY <1>2, <1>4, <4>1
      <4>3. QED
        BY <1>1, <2>3, <3>2, <4>2
    <3>3. QED
      BY <1>1, <2>3, <3>1, <3>2
  <2>5. Len(written) + Len(Records(msg)) = After(msg, numRows)
    BY <1>1, <1>4, <2>1, <2>3 DEF After
  <2>6. QED
    BY <1>3, <2>1, <2>4, <2>5
<1>5. CASE msg.lo # 0
  <2>1. Len(written) = msg.lo + 1
    BY <1>5 DEF Before
  <2>2. Records(msg) = Rows(msg)
    BY <1>1, <2>1 DEF Records
  <2>3. Len(written) + Len(Rows(msg)) = After(msg, numRows)
    <3>1. After(msg, numRows) = msg.hi + 1
      BY DEF After
    <3>2. Len(Rows(msg)) = msg.hi - msg.lo /\ msg.lo \in Int /\ msg.hi \in Int
      BY <1>1
    <3>3. QED
      BY <2>1, <3>1, <3>2
  <2>4. ASSUME NEW j \in 1..Len(Rows(msg)) PROVE Rows(msg)[j] = Len(written) + j - 1
    <3>1. Rows(msg)[j] = msg.lo + j
      BY <1>2
    <3>2. j \in Int
      BY <1>1
    <3>3. QED
      BY <1>1, <2>1, <3>1, <3>2
  <2>5. QED
    BY <1>3, <2>2, <2>3, <2>4
<1>6. QED
  BY <1>4, <1>5

-------------------------------------------------------------------------------
\* Every step preserves the order of the messages.

LEMMA InitOrder == Init => OrderInv
<1> SUFFICES ASSUME Init PROVE OrderInv
  OBVIOUS
<1>1. Messages(inProgress) = <<>>
  BY EmptyType DEF Init, Messages
<1>2. E1 = 0 /\ E2 = 0 /\ E3 = 0 /\ E4 = 0 /\ E5 = 0
  BY <1>1, EmptyType, ChainEmpty DEF Init, E1, E2, E3, E4, E5
<1>3. WriterChain /\ GeocodeChain /\ AllProper
  BY <1>1, <1>2, ChainEmpty, EmptyType
  DEF Init, WriterChain, GeocodeChain, AllProper, Sent
<1>4. ReaderInv
  BY DEF Init, ReaderInv
<1>5. OutputInOrder
  BY EmptyType DEF Init, OutputInOrder
<1>6. QED
  BY <1>3, <1>4, <1>5, BoundAssumption, EmptyType
  DEF Init, OrderInv, WrittenInv, EosMeansComplete

\* What the reader leaves alone.
LEMMA ReaderFrame ==
  ASSUME OrderInv, Reader
  PROVE  /\ numRows' = numRows /\ gpc' = gpc /\ wpc' = wpc
         /\ WriterChain' /\ WrittenInv' /\ E4' = E4
         /\ wpc = "run" /\ gpc = "run" =>
              Chain(hand, E2, numRows)' /\ Chain(Messages(inProgress), E3, numRows)'
         /\ Proper(current, numRows)' /\ Proper(outQ, numRows)' /\ Proper(hand, numRows)'
         /\ Proper(Messages(inProgress), numRows)'
<1>1. UNCHANGED <<numRows, geocodeVars, outQ, writerVars>>
  BY DEF Reader, ReaderSetup, ReadRow, ReadError, ReadEof, ReaderSend, ReaderSendFail
<1>2. /\ numRows' = numRows /\ gpc' = gpc /\ inProgress' = inProgress /\ hand' = hand
      /\ outQ' = outQ /\ wpc' = wpc /\ current' = current
      /\ headersWritten' = headersWritten /\ written' = written
  BY <1>1 DEF geocodeVars, writerVars
<1>3. E1' = E1 /\ E2' = E2 /\ E3' = E3 /\ E4' = E4
  BY <1>2 DEF E1, E2, E3, E4
<1>4. QED
  BY <1>2, <1>3
  DEF OrderInv, WriterChain, GeocodeChain, WrittenInv, AllProper, OutputInOrder, EosMeansComplete

LEMMA ReaderOrder == TypeOK /\ OrderInv /\ Reader => OrderInv'
<1> SUFFICES ASSUME TypeOK, OrderInv, Reader PROVE OrderInv'
  OBVIOUS
<1>1. CASE ReaderSend
  <2>1. /\ Outgoing \in Message /\ inQ \in Seq(Message) /\ inQ' = Append(inQ, Outgoing)
        /\ IsChunk(Outgoing) => Outgoing.lo <= Outgoing.hi /\ Outgoing.hi <= numRows
    BY <1>1, BoundAssumption
    DEF ReaderSend, TypeOK, Outgoing, EndOfStream, Chunk, IsChunk, Message, Kind
  <2>2. Before(Outgoing, numRows) = Sent
    BY <1>1 DEF ReaderSend, Sending, AfterSend, Before, Outgoing, EndOfStream, Chunk, IsChunk, Sent
  <2>3. After(Outgoing, numRows) = Sent' /\ ReaderInv'
    BY <1>1, BoundAssumption
    DEF ReaderSend, Sending, AfterSend, After, Outgoing, EndOfStream, Chunk, IsChunk,
        Sent, OrderInv, ReaderInv, TypeOK
  <2>4. Proper(inQ, numRows)'
    BY <2>1, ProperAppend, ReaderFrame DEF OrderInv, AllProper
  <2>5. ASSUME wpc' = "run", gpc' = "run"
        PROVE  Chain(inQ, E4, numRows)' /\ E5' = Sent'
    <3>1. Chain(inQ, E4, numRows) /\ E5 = Sent
      BY <1>1, <2>5, ReaderFrame DEF OrderInv, GeocodeChain, ReaderSend, Sending, AfterSend
    <3>2. /\ Chain(Append(inQ, Outgoing), E4, numRows)
          /\ End(Append(inQ, Outgoing), E4, numRows) = After(Outgoing, numRows)
      BY <2>1, <2>2, <3>1, ChainAppend DEF E5
    <3>3. QED
      BY <2>1, <2>3, <3>2, ReaderFrame DEF E5
  <2>6. QED
    BY <2>3, <2>4, <2>5, ReaderFrame DEF OrderInv, GeocodeChain, AllProper
<1>2. CASE ~ReaderSend
  <2>1. inQ' = inQ /\ rlo' = rlo /\ sentChunk' = sentChunk
    BY <1>2 DEF Reader, ReaderSetup, ReadRow, ReadError, ReadEof, ReaderSendFail
  <2>2. ReaderInv' /\ (rpc' # "err" => rpc # "err" /\ Sent' = Sent)
    <3>1. CASE ReaderSetup
      BY <3>1 DEF ReaderSetup, OrderInv, ReaderInv, Sent
    <3>2. CASE ReadRow
      <4>1. rpc' = "sendChunk" => rnext' > rlo
        BY <3>2, ChunkSizeType, BoundAssumption DEF ReadRow, RowsFull, TypeOK
      <4>2. QED
        BY <2>1, <3>2, <4>1 DEF ReadRow, OrderInv, ReaderInv, Sent, TypeOK
    <3>3. CASE ReadError
      BY <3>3 DEF ReadError, OrderInv, ReaderInv
    <3>4. CASE ReadEof
      <4>1. ~NeedsFinal => rlo = numRows /\ rlo > 0
        BY <3>4, BoundAssumption DEF ReadEof, NeedsFinal, OrderInv, ReaderInv, TypeOK
      <4>2. QED
        BY <3>4, <4>1 DEF ReadEof, OrderInv, ReaderInv, Sent, TypeOK
    <3>5. CASE ReaderSendFail
      BY <3>5 DEF ReaderSendFail, OrderInv, ReaderInv
    <3>6. QED
      BY <1>2, <3>1, <3>2, <3>3, <3>4, <3>5 DEF Reader
  <2>3. E5' = E5 /\ Proper(inQ, numRows)'
    BY <2>1, ReaderFrame DEF E5, OrderInv, AllProper
  <2>4. QED
    BY <2>1, <2>2, <2>3, ReaderFrame DEF OrderInv, GeocodeChain, AllProper
<1>3. QED
  BY <1>1, <1>2

\* What the geocode task leaves alone.
LEMMA GeocodeFrame ==
  ASSUME OrderInv, Geocode
  PROVE  /\ numRows' = numRows /\ wpc' = wpc /\ rpc' = rpc /\ rlo' = rlo
         /\ ReaderInv' /\ WrittenInv' /\ E1' = E1 /\ Sent' = Sent
         /\ Proper(current, numRows)'
         /\ current' = current /\ written' = written
<1>1. UNCHANGED <<numRows, readerVars, writerVars>>
  BY DEF Geocode, GeocodeTake, FutureStep, GeocodeOk, GeocodeEmpty, GeocodeRetry,
         GeocodeFail, Emit, EmitErr, OutSend, OutSendFail, GiveUp, GeocodeEnd
<1>2. /\ numRows' = numRows /\ wpc' = wpc /\ current' = current
      /\ headersWritten' = headersWritten /\ written' = written
      /\ rpc' = rpc /\ rlo' = rlo /\ rnext' = rnext /\ sentChunk' = sentChunk
  BY <1>1 DEF readerVars, writerVars
<1>3. QED
  BY <1>2
  DEF OrderInv, ReaderInv, WrittenInv, OutputInOrder, EosMeansComplete, AllProper, E1, Sent

\* A geocode step that keeps the out channel keeps what leads up to it.
LEMMA OutQFrame ==
  ASSUME OrderInv, Geocode, outQ' = outQ
  PROVE  WriterChain' /\ E2' = E2 /\ Proper(outQ, numRows)'
BY GeocodeFrame DEF OrderInv, WriterChain, AllProper, E2

LEMMA GiveUpOrder == OrderInv /\ Geocode /\ GiveUp => OrderInv'
<1> SUFFICES ASSUME OrderInv, Geocode, GiveUp PROVE OrderInv'
  OBVIOUS
<1>1. outQ' = outQ /\ gpc' = "err" /\ inQ' = <<>> /\ inProgress' = <<>> /\ hand' = <<>>
  BY DEF GiveUp
<1>2. Messages(inProgress') = <<>>
  BY <1>1, EmptyType DEF Messages
<1>3. AllProper'
  BY <1>1, <1>2, ChainEmpty, GeocodeFrame, OutQFrame DEF AllProper
<1>4. QED
  BY <1>1, <1>3, GeocodeFrame, OutQFrame DEF OrderInv, GeocodeChain

LEMMA GeocodeOrder == TypeOK /\ OrderInv /\ Geocode => OrderInv'
<1> SUFFICES ASSUME TypeOK, OrderInv, Geocode PROVE OrderInv'
  OBVIOUS
<1> DEFINE msgs == Messages(inProgress)
<1>0. /\ inQ \in Seq(Message) /\ msgs \in Seq(Message) /\ outQ \in Seq(Message)
      /\ hand \in Seq(Message) /\ inProgress \in Seq(Future)
      /\ (msgs = <<>> <=> inProgress = <<>>)
  BY MessagesType DEF TypeOK
<1>1. CASE GeocodeTake
  <2> DEFINE h == Head(inQ)
  <2>1. /\ inQ # <<>> /\ inQ' = Tail(inQ) /\ outQ' = outQ /\ hand' = hand /\ gpc' = gpc
        /\ inProgress' = Append(inProgress, NewFuture(h))
    BY <1>1 DEF GeocodeTake
  <2>2. h \in Message /\ NewFuture(h) \in Future /\ NewFuture(h).msg = h
    BY <1>0, <2>1, TailType, BoundAssumption DEF NewFuture, Future
  <2>3. Messages(inProgress') = Append(msgs, h)
    BY <1>0, <2>1, <2>2, MessagesAppend
  <2>4. AllProper'
    <3>1. Proper(inQ, numRows)' /\ (IsChunk(h) => h.lo <= h.hi /\ h.hi <= numRows)
      BY <1>0, <2>1, ProperTail, GeocodeFrame DEF OrderInv, AllProper
    <3>2. Proper(Messages(inProgress), numRows)'
      BY <1>0, <2>2, <2>3, <3>1, ProperAppend, GeocodeFrame DEF OrderInv, AllProper
    <3>3. QED
      BY <2>1, <3>1, <3>2, GeocodeFrame, OutQFrame DEF OrderInv, AllProper
  <2>5. E3' = E3
    BY <2>1, GeocodeFrame, OutQFrame DEF E3
  <2>6. GeocodeChain'
    <3> SUFFICES ASSUME wpc = "run", gpc = "run"
                 PROVE  /\ Chain(hand, E2, numRows)'
                        /\ Chain(Messages(inProgress), E3, numRows)'
                        /\ Chain(inQ, E4, numRows)'
                        /\ E5' = E5
      BY <2>1, GeocodeFrame DEF OrderInv, GeocodeChain
    <3>1. /\ Chain(hand, E2, numRows) /\ Chain(msgs, E3, numRows) /\ Chain(inQ, E4, numRows)
      BY DEF OrderInv, GeocodeChain
    <3>2. /\ Before(h, numRows) = E4
          /\ Chain(Tail(inQ), After(h, numRows), numRows)
          /\ End(Tail(inQ), After(h, numRows), numRows) = E5
      BY <1>0, <2>1, <3>1, ChainTail DEF E5
    <3>3. /\ Chain(Append(msgs, h), E3, numRows)
          /\ End(Append(msgs, h), E3, numRows) = After(h, numRows)
      BY <1>0, <2>2, <3>1, <3>2, ChainAppend DEF E4
    <3>4. E4' = After(h, numRows)
      BY <2>3, <2>5, <3>3, GeocodeFrame DEF E4
    <3>5. QED
      BY <2>1, <2>3, <2>5, <3>1, <3>2, <3>3, <3>4, GeocodeFrame, OutQFrame DEF E5
  <2>7. QED
    BY <2>1, <2>4, <2>6, GeocodeFrame, OutQFrame DEF OrderInv
<1>2. CASE FutureStep
  <2> PICK i \in DOMAIN inProgress :
        GeocodeOk(i) \/ GeocodeEmpty(i) \/ GeocodeRetry(i) \/ GeocodeFail(i)
    BY <1>2 DEF FutureStep
  <2>1. inQ' = inQ /\ outQ' = outQ /\ hand' = hand /\ gpc' = gpc
    BY DEF GeocodeOk, GeocodeEmpty, GeocodeRetry, GeocodeFail, geocodeVars
  <2>2. Messages(inProgress') = msgs
    <3>1. CASE GeocodeEmpty(i)
      BY <3>1 DEF GeocodeEmpty, geocodeVars
    <3>2. CASE GeocodeOk(i) \/ GeocodeRetry(i) \/ GeocodeFail(i)
      <4> PICK f \in Future : inProgress' = [inProgress EXCEPT ![i] = f] /\ f.msg = inProgress[i].msg
        BY <3>2, FutureStepReplaces
      <4>1. QED
        BY <1>0, MessagesReplace
    <3>3. QED
      BY <3>1, <3>2
  <2>3. E3' = E3 /\ E4' = E4 /\ E5' = E5
    BY <2>1, <2>2, GeocodeFrame, OutQFrame DEF E3, E4, E5
  <2>4. AllProper' /\ GeocodeChain'
    BY <2>1, <2>2, <2>3, GeocodeFrame, OutQFrame DEF OrderInv, AllProper, GeocodeChain
  <2>5. QED
    BY <2>1, <2>4, GeocodeFrame, OutQFrame DEF OrderInv
<1>3. CASE Emit
  <2> DEFINE h == Head(inProgress).msg
  <2>1. /\ inProgress # <<>> /\ inProgress' = Tail(inProgress) /\ hand = <<>> /\ hand' = <<h>>
        /\ inQ' = inQ /\ outQ' = outQ /\ gpc' = gpc
    BY <1>3 DEF Emit, Polling
  <2>2. /\ Messages(inProgress') = Tail(msgs) /\ Head(msgs) = h /\ msgs # <<>>
    BY <1>0, <2>1, MessagesTail
  <2>3. h \in Message
    BY <1>0, <2>2, TailType
  <2>4. AllProper'
    <3>1. Proper(Tail(msgs), numRows) /\ (IsChunk(h) => h.lo <= h.hi /\ h.hi <= numRows)
      BY <1>0, <2>2, ProperTail DEF OrderInv, AllProper
    <3>2. Proper(<<h>>, numRows)
      BY <2>3, <3>1, ProperSingle
    <3>3. QED
      BY <2>1, <2>2, <3>1, <3>2, GeocodeFrame, OutQFrame DEF OrderInv, AllProper
  <2>5. GeocodeChain'
    <3> SUFFICES ASSUME wpc = "run", gpc = "run"
                 PROVE  /\ Chain(hand, E2, numRows)'
                        /\ Chain(Messages(inProgress), E3, numRows)'
                        /\ E4' = E4 /\ E5' = E5 /\ Chain(inQ, E4, numRows)
      BY <2>1, GeocodeFrame DEF OrderInv, GeocodeChain
    <3>1. Chain(msgs, E2, numRows) /\ Chain(inQ, E4, numRows) /\ E4 = End(msgs, E2, numRows)
      BY <2>1, ChainEmpty DEF OrderInv, GeocodeChain, E3, E4
    <3>2. /\ Before(h, numRows) = E2
          /\ Chain(Tail(msgs), After(h, numRows), numRows)
          /\ End(Tail(msgs), After(h, numRows), numRows) = E4
      BY <1>0, <2>2, <3>1, ChainTail
    <3>3. Chain(<<h>>, E2, numRows) /\ End(<<h>>, E2, numRows) = After(h, numRows)
      BY <2>3, <3>2, ChainSingle
    <3>4. E3' = After(h, numRows)
      BY <2>1, <3>3, GeocodeFrame, OutQFrame DEF E3
    <3>5. E4' = E4
      BY <2>2, <3>2, <3>4, GeocodeFrame DEF E4
    <3>6. E5' = E5
      BY <2>1, <3>5, GeocodeFrame DEF E5
    <3>7. QED
      BY <2>1, <2>2, <3>1, <3>2, <3>3, <3>4, <3>5, <3>6, GeocodeFrame, OutQFrame
  <2>6. QED
    BY <2>1, <2>4, <2>5, GeocodeFrame, OutQFrame DEF OrderInv
<1>4. CASE EmitErr
  BY <1>4, GiveUpOrder DEF EmitErr
<1>5. CASE OutSend
  <2> DEFINE h == Head(hand)
  <2>1. /\ hand # <<>> /\ hand' = <<>> /\ outQ' = Append(outQ, h) /\ ~WriterDone /\ gpc = "run"
        /\ inQ' = inQ /\ inProgress' = inProgress /\ gpc' = gpc
    BY <1>5 DEF OutSend
  <2>2. /\ h \in Message /\ Len(hand) = 1 /\ h = hand[1]
    <3>1. h \in Message /\ Len(hand) \in Nat \ {0} /\ h = hand[1]
      BY <1>0, <2>1, TailType
    <3>2. Len(hand) <= 1
      BY DEF TypeOK
    <3>3. Len(hand) = 1
      BY <3>1, <3>2, OnlyOne, Zenon
    <3>4. QED
      BY <3>1, <3>3
  <2>3. wpc = "run"
    BY <2>1 DEF WriterDone, TypeOK
  <2>4. Before(h, numRows) = E2 /\ E3 = After(h, numRows)
    BY <2>1, <2>2, <2>3 DEF OrderInv, GeocodeChain, Chain, E3, End
  <2>5. /\ Chain(Append(outQ, h), E1, numRows)
        /\ End(Append(outQ, h), E1, numRows) = After(h, numRows)
    BY <1>0, <2>2, <2>3, <2>4, ChainAppend DEF OrderInv, WriterChain, E2
  <2>6. E2' = E3 /\ E3' = E3 /\ E4' = E4 /\ E5' = E5
    <3>1. E2' = E3
      BY <2>1, <2>4, <2>5, GeocodeFrame DEF E2
    <3>2. E3' = E3
      BY <2>1, <3>1, ChainEmpty DEF E3
    <3>3. E4' = E4
      BY <2>1, <3>2, GeocodeFrame DEF E4
    <3>4. QED
      BY <2>1, <3>1, <3>2, <3>3, GeocodeFrame DEF E5
  <2>7. WriterChain'
    BY <2>1, <2>5, GeocodeFrame DEF OrderInv, WriterChain
  <2>8. GeocodeChain'
    BY <2>1, <2>6, ChainEmpty, GeocodeFrame DEF OrderInv, GeocodeChain
  <2>9. AllProper'
    <3>1. IsChunk(h) => h.lo <= h.hi /\ h.hi <= numRows
      BY <1>0, <2>1, ProperTail DEF OrderInv, AllProper
    <3>2. Proper(outQ, numRows)'
      BY <1>0, <2>1, <2>2, <3>1, ProperAppend, GeocodeFrame DEF OrderInv, AllProper
    <3>3. QED
      BY <2>1, <3>2, ChainEmpty, GeocodeFrame DEF OrderInv, AllProper
  <2>10. QED
    BY <2>7, <2>8, <2>9, GeocodeFrame DEF OrderInv
<1>6. CASE OutSendFail
  BY <1>6, GiveUpOrder DEF OutSendFail
<1>7. CASE GeocodeEnd
  <2>1. /\ gpc' = "ok" /\ inQ' = inQ /\ inProgress' = inProgress /\ hand' = hand /\ outQ' = outQ
    BY <1>7 DEF GeocodeEnd
  <2>2. QED
    BY <2>1, GeocodeFrame, OutQFrame DEF OrderInv, GeocodeChain, AllProper
<1>8. QED
  BY <1>1, <1>2, <1>3, <1>4, <1>5, <1>6, <1>7 DEF Geocode

\* What the writer leaves alone.
LEMMA WriterFrame ==
  ASSUME OrderInv, Writer
  PROVE  /\ numRows' = numRows /\ gpc' = gpc /\ rpc' = rpc /\ inQ' = inQ
         /\ inProgress' = inProgress /\ hand' = hand
         /\ ReaderInv' /\ Sent' = Sent
         /\ Proper(hand, numRows)' /\ Proper(Messages(inProgress), numRows)'
         /\ Proper(inQ, numRows)'
<1>1. UNCHANGED <<numRows, readerVars, inQ, geocodeVars>>
  BY DEF Writer, Receive, WriteChunk, WriteFail, WriteEos, WriteNoEos, WriterEnd
<1>2. /\ numRows' = numRows /\ gpc' = gpc /\ inProgress' = inProgress /\ hand' = hand
      /\ rpc' = rpc /\ rlo' = rlo /\ rnext' = rnext /\ sentChunk' = sentChunk /\ inQ' = inQ
  BY <1>1 DEF readerVars, geocodeVars
<1>3. QED
  BY <1>2 DEF OrderInv, ReaderInv, AllProper, Sent

LEMMA WriterEndOrder ==
  ASSUME TypeOK, OrderInv, Writer, NEW result \in {"ok", "err"}, NEW dropped,
         WriterEnd(result, dropped), WrittenInv'
  PROVE  OrderInv'
<1>1. wpc' # "run" /\ outQ' = <<>> /\ current' = <<>>
  BY DEF WriterEnd
<1>2. AllProper'
  BY <1>1, ChainEmpty, WriterFrame DEF AllProper
<1>3. QED
  BY <1>1, <1>2, WriterFrame DEF OrderInv, WriterChain, GeocodeChain

LEMMA WriterOrder == TypeOK /\ OrderInv /\ Writer => OrderInv'
<1> SUFFICES ASSUME TypeOK, OrderInv, Writer PROVE OrderInv'
  OBVIOUS
<1>0. /\ outQ \in Seq(Message) /\ current \in Seq(Message) /\ written \in Seq(Nat)
      /\ Len(written) \in Nat /\ numRows \in Nat
      /\ wpc \in {"run", "ok", "err"} /\ gpc \in {"run", "ok", "err"}
  BY LenProperties, BoundAssumption DEF TypeOK
<1> DEFINE c == Head(current)
<1>1. ASSUME current # <<>>
      PROVE  /\ c \in Message /\ wpc = "run"
             /\ Before(c, numRows) = Len(written) /\ E1 = After(c, numRows)
             /\ IsChunk(c) => c.lo <= c.hi /\ c.hi <= numRows
  <2>1. c \in Message /\ Len(current) \in Nat \ {0} /\ c = current[1]
    BY <1>0, <1>1, TailType
  <2>2. Len(current) = 1
    <3>1. Len(current) <= 1
      BY DEF TypeOK
    <3>2. QED
      BY <2>1, <3>1, OnlyOne, Zenon
  <2>3. wpc = "run"
    BY <1>1 DEF OrderInv, WrittenInv
  <2>4. QED
    BY <1>1, <2>1, <2>2, <2>3 DEF OrderInv, WriterChain, AllProper, Chain, Proper, E1, End
<1>2. ASSUME current # <<>>, IsChunk(c)
      PROVE  /\ Records(c) \in Seq(Nat)
             /\ Len(written) + Len(Records(c)) = After(c, numRows)
             /\ After(c, numRows) <= numRows + 1
             /\ \A j \in 1..Len(Records(c)) : Records(c)[j] = Len(written) + j - 1
  <2>1. /\ Records(c) \in Seq(Nat)
        /\ Len(written) + Len(Records(c)) = After(c, numRows)
        /\ \A j \in 1..Len(Records(c)) : Records(c)[j] = Len(written) + j - 1
    BY <1>0, <1>1, <1>2, RecordsContinue DEF OrderInv, WrittenInv
  <2>2. After(c, numRows) <= numRows + 1
    BY <1>0, <1>1, <1>2 DEF After, Message
  <2>3. QED
    BY <2>1, <2>2
<1>3. CASE Receive
  <2> DEFINE h == Head(outQ)
  <2>1. /\ wpc = "run" /\ wpc' = wpc /\ current = <<>> /\ current' = <<h>> /\ outQ # <<>>
        /\ outQ' = Tail(outQ) /\ written' = written /\ headersWritten' = headersWritten
    BY <1>3 DEF Receive
  <2>2. h \in Message
    BY <1>0, <2>1, TailType
  <2>3. Chain(outQ, Len(written), numRows) /\ E2 = End(outQ, Len(written), numRows)
    BY <2>1, ChainEmpty DEF OrderInv, WriterChain, E1, E2
  <2>4. /\ Before(h, numRows) = Len(written)
        /\ Chain(Tail(outQ), After(h, numRows), numRows)
        /\ End(Tail(outQ), After(h, numRows), numRows) = E2
    BY <1>0, <2>1, <2>3, ChainTail
  <2>5. Chain(<<h>>, Len(written), numRows) /\ End(<<h>>, Len(written), numRows) = After(h, numRows)
    BY <2>2, <2>4, ChainSingle
  <2>6. E1' = After(h, numRows) /\ E2' = E2
    BY <2>1, <2>4, <2>5, WriterFrame DEF E1, E2
  <2>7. WriterChain'
    BY <2>1, <2>4, <2>5, <2>6, WriterFrame DEF WriterChain
  <2>8. E3' = E3 /\ E4' = E4 /\ E5' = E5
    BY <2>6, WriterFrame DEF E3, E4, E5
  <2>9. GeocodeChain'
    BY <2>1, <2>6, <2>8, WriterFrame DEF OrderInv, GeocodeChain
  <2>10. AllProper'
    <3>1. Proper(Tail(outQ), numRows) /\ (IsChunk(h) => h.lo <= h.hi /\ h.hi <= numRows)
      BY <1>0, <2>1, ProperTail DEF OrderInv, AllProper
    <3>2. Proper(<<h>>, numRows)
      BY <2>2, <3>1, ProperSingle
    <3>3. QED
      BY <2>1, <3>1, <3>2, WriterFrame DEF AllProper
  <2>11. WrittenInv'
    BY <2>1, WriterFrame DEF OrderInv, WrittenInv, OutputInOrder, EosMeansComplete
  <2>12. QED
    BY <2>7, <2>9, <2>10, <2>11, WriterFrame DEF OrderInv
<1>4. CASE WriteChunk
  <2>1. /\ wpc = "run" /\ wpc' = wpc /\ current # <<>> /\ IsChunk(c) /\ current' = <<>>
        /\ written' = written \o Records(c) /\ headersWritten' = TRUE /\ outQ' = outQ
    BY <1>4 DEF WriteChunk
  <2>2. /\ Len(written') = Len(written) + Len(Records(c))
        /\ written' = [i \in 1..Len(written') |-> i - 1]
    BY <1>0, <1>2, <2>1, InOrderConcat DEF OrderInv, WrittenInv, OutputInOrder
  <2>3. Len(written') = E1 /\ Len(written') <= numRows + 1 /\ Len(written') > 0
    <3>1. Len(written') = After(c, numRows) /\ c.hi \in Nat
      BY <1>1, <1>2, <2>1, <2>2 DEF Message
    <3>2. QED
      BY <1>1, <1>2, <2>1, <3>1 DEF After
  <2>4. E1' = E1 /\ E2' = E2 /\ E3' = E3 /\ E4' = E4 /\ E5' = E5
    <3>1. E1' = E1
      BY <2>1, <2>3, ChainEmpty DEF E1
    <3>2. E2' = E2
      BY <2>1, <3>1, WriterFrame DEF E2
    <3>3. QED
      BY <3>1, <3>2, WriterFrame DEF E3, E4, E5
  <2>5. WriterChain' /\ GeocodeChain'
    BY <2>1, <2>4, ChainEmpty, WriterFrame DEF OrderInv, WriterChain, GeocodeChain
  <2>6. AllProper'
    BY <2>1, ChainEmpty, WriterFrame DEF OrderInv, AllProper
  <2>7. WrittenInv'
    BY <2>1, <2>2, <2>3, WriterFrame DEF OrderInv, WrittenInv, OutputInOrder, EosMeansComplete
  <2>8. QED
    BY <2>5, <2>6, <2>7, WriterFrame DEF OrderInv
<1>5. CASE WriteFail
  <2>1. current # <<>> /\ IsChunk(c) /\ WriterEnd("err", 1)
    BY <1>5 DEF WriteFail
  <2>2. PICK k \in 0..(Len(Records(c)) - 1) :
          /\ written' = written \o SubSeq(Records(c), 1, k)
          /\ headersWritten' = (headersWritten \/ k > 0)
    BY <1>5 DEF WriteFail
  <2>3. Len(Records(c)) \in Nat /\ \A j \in 1..Len(Records(c)) : Records(c)[j] \in Nat
    BY <1>2, <2>1, LenProperties
  <2>4. /\ SubSeq(Records(c), 1, k) \in Seq(Nat) /\ Len(SubSeq(Records(c), 1, k)) = k
        /\ \A j \in 1..k : SubSeq(Records(c), 1, k)[j] = Records(c)[j]
    <3>1. k \in Int /\ 1 \in Int /\ \A j \in 1..k : Records(c)[j] \in Nat
      BY <2>2, <2>3
    <3>2. /\ SubSeq(Records(c), 1, k) \in Seq(Nat)
          /\ Len(SubSeq(Records(c), 1, k)) = (IF 1 <= k THEN k - 1 + 1 ELSE 0)
          /\ \A j \in 1..(k - 1 + 1) : SubSeq(Records(c), 1, k)[j] = Records(c)[1 + j - 1]
      BY <3>1, SubSeqProperties
    <3>3. QED
      BY <2>2, <3>2
  <2>5. \A j \in 1..k : SubSeq(Records(c), 1, k)[j] = Len(written) + j - 1
    BY <1>2, <2>1, <2>2, <2>3, <2>4
  <2>6. Len(written') = Len(written) + k /\ written' = [i \in 1..Len(written') |-> i - 1]
    BY <1>0, <2>2, <2>4, <2>5, InOrderConcat DEF OrderInv, WrittenInv, OutputInOrder
  <2>7. Len(written') <= numRows + 1
    BY <1>0, <1>2, <2>1, <2>2, <2>3, <2>6
  <2>8. headersWritten' <=> Len(written') > 0
    <3>1. k \in Nat
      BY <2>2, <2>3
    <3>2. headersWritten <=> Len(written) > 0
      BY DEF OrderInv, WrittenInv
    <3>3. Len(written) + k > 0 <=> Len(written) > 0 \/ k > 0
      BY <1>0, <3>1
    <3>4. QED
      BY <2>2, <2>6, <3>2, <3>3, Zenon
  <2>9. current' = <<>> /\ wpc' = "err"
    BY <2>1 DEF WriterEnd
  <2>10. WrittenInv'
    BY <2>6, <2>7, <2>8, <2>9, WriterFrame DEF WrittenInv, OutputInOrder, EosMeansComplete
  <2>11. QED
    BY <2>1, <2>10, WriterEndOrder
<1>6. CASE WriteEos
  <2>1. /\ current # <<>> /\ ~IsChunk(c) /\ WriterEnd("ok", 0)
        /\ written' = written /\ headersWritten' = headersWritten
    BY <1>6 DEF WriteEos
  <2>2. Len(written) = numRows + 1
    BY <1>1, <2>1 DEF Before
  <2>3. WrittenInv'
    BY <2>1, <2>2, WriterFrame
    DEF OrderInv, WrittenInv, WriterEnd, OutputInOrder, EosMeansComplete
  <2>4. QED
    BY <2>1, <2>3, WriterEndOrder
<1>7. CASE WriteNoEos
  <2>1. WriterEnd("err", 0) /\ written' = written /\ headersWritten' = headersWritten
    BY <1>7 DEF WriteNoEos
  <2>2. WrittenInv'
    BY <2>1, WriterFrame
    DEF OrderInv, WrittenInv, WriterEnd, OutputInOrder, EosMeansComplete
  <2>3. QED
    BY <2>1, <2>2, WriterEndOrder
<1>8. QED
  BY <1>3, <1>4, <1>5, <1>6, <1>7 DEF Writer

LEMMA UnchangedOrder ==
  ASSUME OrderInv,
         UNCHANGED <<numRows, rpc, rlo, rnext, sentChunk, inQ, gpc, inProgress, hand, outQ,
                     wpc, current, headersWritten, written>>
  PROVE  OrderInv'
<1>1. E1' = E1 /\ E2' = E2 /\ E3' = E3 /\ E4' = E4 /\ E5' = E5 /\ Sent' = Sent
  BY DEF E1, E2, E3, E4, E5, Sent
<1>2. QED
  BY <1>1 DEF OrderInv, ReaderInv, WriterChain, GeocodeChain, AllProper, WrittenInv,
              OutputInOrder, EosMeansComplete

LEMMA StepOrder == TypeOK /\ OrderInv /\ [Next]_vars => OrderInv'
<1> SUFFICES ASSUME TypeOK, OrderInv, [Next]_vars PROVE OrderInv'
  OBVIOUS
<1>1. CASE Reader
  BY <1>1, ReaderOrder
<1>2. CASE Geocode
  BY <1>2, GeocodeOrder
<1>3. CASE Writer
  BY <1>3, WriterOrder
<1>4. CASE MainExit \/ UNCHANGED vars
  <2>1. UNCHANGED <<numRows, rpc, rlo, rnext, sentChunk, inQ, gpc, inProgress, hand, outQ,
                     wpc, current, headersWritten, written>>
    BY <1>4 DEF MainExit, vars, readerVars, geocodeVars, writerVars
  <2>2. QED
    BY <2>1, UnchangedOrder
<1>5. QED
  BY <1>1, <1>2, <1>3, <1>4 DEF Next, Terminated

THEOREM Ordered == Spec => [](TypeOK /\ OrderInv)
<1>1. Init => TypeOK /\ OrderInv
  BY InitType, InitOrder
<1>2. TypeOK /\ OrderInv /\ [Next]_vars => (TypeOK /\ OrderInv)'
  BY StepType, StepOrder
<1>3. QED
  BY <1>1, <1>2, PTL DEF Spec

\* Whatever order the geocoder calls end in and whichever process fails, the
\* writer has been given the header and the first rows, in order.
THEOREM OutputAlwaysInOrder == Spec => []OutputInOrder
<1>1. OrderInv => OutputInOrder
  BY DEF OrderInv, WrittenInv
<1>2. QED
  BY <1>1, Ordered, PTL

\* The writer that ends without an error has written the whole output.
THEOREM WriterSuccessIsComplete == Spec => []EosMeansComplete
<1>1. OrderInv => EosMeansComplete
  BY DEF OrderInv, WrittenInv
<1>2. QED
  BY <1>1, Ordered, PTL

\* The writer's assertion that the headers were written never fails.
THEOREM HeadersAsserted == Spec => []HeadersBeforeEos
<1>1. TypeOK /\ OrderInv => HeadersBeforeEos
  <2> SUFFICES ASSUME TypeOK, OrderInv, current # <<>>, ~IsChunk(Head(current))
               PROVE  headersWritten
    BY DEF HeadersBeforeEos
  <2>1. Head(current) = current[1] /\ numRows \in Nat
    BY TailType, BoundAssumption DEF TypeOK
  <2>2. Len(written) = numRows + 1
    BY <2>1 DEF OrderInv, WrittenInv, WriterChain, Chain, Before, TypeOK
  <2>3. QED
    BY <2>1, <2>2 DEF OrderInv, WrittenInv
<1>2. QED
  BY <1>1, Ordered, PTL

-------------------------------------------------------------------------------
\* The pipeline implements CsvFilter.

LEMMA FilterInit == Init => Filter!Init
BY DEF Init, Filter!Init, Filter!FirstRecords

\* Giving records to the `csv::Writer` extends the output of the filter.
LEMMA WriteExtends ==
  ASSUME TypeOK, OrderInv, OrderInv', Running, NEW r \in Seq(Nat), written' = written \o r,
         numRows' = numRows, exit' = exit
  PROVE  Filter!Extend
<1>1. Len(written) \in Nat /\ Len(r) \in Nat /\ Len(written') = Len(written) + Len(r)
  BY ConcatProperties, LenProperties DEF TypeOK
<1>2. Len(written') <= numRows + 1 /\ written' = Filter!FirstRecords(Len(written'))
  BY DEF OrderInv, WrittenInv, OutputInOrder, Filter!FirstRecords
<1>3. Len(written') \in Len(written)..(numRows + 1)
  BY <1>1, <1>2, BoundAssumption DEF TypeOK
<1>4. QED
  BY <1>2, <1>3 DEF Filter!Extend, Running

LEMMA FilterStep ==
  ASSUME TypeOK, OrderInv, OrderInv', [Next]_vars
  PROVE  [Filter!Next]_(Filter!vars)
<1>1. CASE Reader
  BY <1>1 DEF Reader, ReaderSetup, ReadRow, ReadError, ReadEof, ReaderSend, ReaderSendFail,
              writerVars, Filter!vars
<1>2. CASE Geocode
  <2>1. CASE FutureStep
    <3> PICK i \in DOMAIN inProgress :
          GeocodeOk(i) \/ GeocodeEmpty(i) \/ GeocodeRetry(i) \/ GeocodeFail(i)
      BY <2>1 DEF FutureStep
    <3>1. CASE GeocodeEmpty(i)
      BY <3>1 DEF GeocodeEmpty, Polling, Running, writerVars, Filter!Next, Filter!Fail
    <3>2. CASE ~GeocodeEmpty(i)
      BY <3>2 DEF GeocodeOk, GeocodeRetry, GeocodeFail, writerVars, Filter!vars
    <3>3. QED
      BY <3>1, <3>2
  <2>2. CASE ~FutureStep
    BY <1>2, <2>2 DEF Geocode, GeocodeTake, Emit, EmitErr, OutSend, OutSendFail, GiveUp,
                      GeocodeEnd, writerVars, Filter!vars
  <2>3. QED
    BY <2>1, <2>2
<1>3. CASE Writer
  <2>1. ASSUME current # <<>> PROVE Records(Head(current)) \in Seq(Nat)
    BY <2>1, TailType, RecordsType DEF TypeOK
  <2>2. CASE WriteChunk
    <3>1. /\ Running /\ numRows' = numRows /\ exit' = exit
          /\ written' = written \o Records(Head(current)) /\ current # <<>>
      BY <2>2 DEF WriteChunk
    <3>2. QED
      BY <2>1, <3>1, WriteExtends DEF Filter!Next
  <2>3. CASE WriteFail
    <3>1. Running /\ numRows' = numRows /\ exit' = exit /\ current # <<>>
      BY <2>3 DEF WriteFail, WriterEnd
    <3>2. PICK k \in 0..(Len(Records(Head(current))) - 1) :
            written' = written \o SubSeq(Records(Head(current)), 1, k)
      BY <2>3 DEF WriteFail
    <3>3. SubSeq(Records(Head(current)), 1, k) \in Seq(Nat)
      BY <2>1, <3>1, LenProperties, SubSeqProperties
    <3>4. QED
      BY <3>1, <3>2, <3>3, WriteExtends DEF Filter!Next
  <2>4. CASE Receive \/ WriteEos \/ WriteNoEos
    BY <2>4 DEF Receive, WriteEos, WriteNoEos, WriterEnd, Filter!vars
  <2>5. QED
    BY <1>3, <2>2, <2>3, <2>4 DEF Writer
<1>4. CASE MainExit
  <2>1. /\ Running /\ numRows' = numRows /\ written' = written
        /\ exit' = (IF "err" \in {rpc, gpc, wpc} THEN "err" ELSE "ok")
        /\ wpc \in {"ok", "err"}
    BY <1>4 DEF MainExit, WriterDone, writerVars
  <2>2. CASE exit' = "err"
    BY <2>1, <2>2 DEF Running, Filter!Next, Filter!Fail
  <2>3. CASE exit' = "ok"
    <3>1. wpc = "ok"
      BY <2>1, <2>3
    <3>2. written = Filter!FirstRecords(numRows + 1)
      BY <3>1 DEF OrderInv, WrittenInv, EosMeansComplete, OutputInOrder, Filter!FirstRecords
    <3>3. QED
      BY <2>1, <2>3, <3>2 DEF Running, Filter!Next, Filter!Succeed
  <2>4. QED
    BY <2>1, <2>2, <2>3
<1>5. CASE UNCHANGED vars
  BY <1>5 DEF vars, writerVars, Filter!vars
<1>6. QED
  BY <1>1, <1>2, <1>3, <1>4, <1>5 DEF Next, Terminated

\* Everything the pipeline does is something CsvFilter allows: the output only
\* grows, in input order, and exit 0 means that it was all handed to the writer.
THEOREM PipelineImplementsFilter == Spec => ImplementsFilter
<1>1. Init => Filter!Init
  BY FilterInit
<1>2. (TypeOK /\ OrderInv) /\ (TypeOK /\ OrderInv)' /\ [Next]_vars
        => [Filter!Next]_(Filter!vars)
  BY FilterStep
<1>3. QED
  BY <1>1, <1>2, Ordered, PTL DEF Spec, ImplementsFilter, Filter!Spec

-------------------------------------------------------------------------------
\* How many chunks there are: what TOTAL_CHUNKS_EXISTING counts, and the bound that
\* the code's comment computes for it.  First, what the queue operations do to the
\* number of chunks in a queue.

LEMMA ShiftCount ==
  ASSUME NEW A \in SUBSET Int, NEW B \in SUBSET Int, IsFiniteSet(A),
         \A i \in B : i + 1 \in A, \A a \in A : a - 1 \in B
  PROVE  Cardinality(B) = Cardinality(A)
<1> DEFINE f == [a \in A |-> a - 1]
<1>1. f \in [A -> B]
  OBVIOUS
<1>2. \A a, b \in A : f[a] = f[b] => a = b
  OBVIOUS
<1>3. \A t \in B : \E s \in A : f[s] = t
  <2> TAKE t \in B
  <2>1. t + 1 \in A /\ f[t + 1] = t
    OBVIOUS
  <2>2. QED
    BY <2>1
<1>4. f \in Bijection(A, B)
  BY <1>1, <1>2, <1>3, Fun_IsBij
<1>5. ExistsBijection(A, B)
  BY <1>4 DEF ExistsBijection
<1>6. QED
  BY <1>5, FS_Bijection

\* One more position at the end, one less at the front, one marked differently.
LEMMA CountAppend ==
  ASSUME NEW n \in Nat, NEW P \in SUBSET (1..n), NEW b \in BOOLEAN
  PROVE  Cardinality(P \cup (IF b THEN {n + 1} ELSE {})) = Cardinality(P) + IF b THEN 1 ELSE 0
<1>1. IsFiniteSet(P)
  <2>1. 1 \in Int /\ n \in Int
    OBVIOUS
  <2>2. IsFiniteSet(1..n)
    BY <2>1, FS_Interval
  <2>3. QED
    BY <2>2, FS_Subset
<1>2. n + 1 \notin P /\ Cardinality(P) \in Nat
  BY <1>1, FS_CardinalityType
<1>3. Cardinality(P \cup {n + 1}) = Cardinality(P) + 1
  BY <1>1, <1>2, FS_AddElement
<1>4. CASE b
  BY <1>3, <1>4
<1>5. CASE ~b
  <2>1. P \cup {} = P
    OBVIOUS
  <2>2. QED
    BY <1>2, <1>5, <2>1
<1>6. QED
  BY <1>4, <1>5

LEMMA CountTail ==
  ASSUME NEW n \in Nat \ {0}, NEW P \in SUBSET (1..n)
  PROVE  Cardinality({i \in 1..(n - 1) : i + 1 \in P}) = Cardinality(P) - IF 1 \in P THEN 1 ELSE 0
<1> DEFINE A == P \ {1}
           B == {i \in 1..(n - 1) : i + 1 \in P}
<1>1. IsFiniteSet(P)
  <2>1. 1 \in Int /\ n \in Int
    OBVIOUS
  <2>2. IsFiniteSet(1..n)
    BY <2>1, FS_Interval
  <2>3. QED
    BY <2>2, FS_Subset
<1>2. IsFiniteSet(A) /\ Cardinality(A) = IF 1 \in P THEN Cardinality(P) - 1 ELSE Cardinality(P)
  BY <1>1, FS_RemoveElement
<1>3. Cardinality(P) \in Nat
  BY <1>1, FS_CardinalityType
<1>4. Cardinality(B) = Cardinality(A)
  <2>1. A \in SUBSET Int /\ B \in SUBSET Int
    OBVIOUS
  <2>2. \A i \in B : i + 1 \in A
    OBVIOUS
  <2>3. \A a \in A : a - 1 \in B
    OBVIOUS
  <2> HIDE DEF A, B
  <2>4. QED
    BY <1>2, <2>1, <2>2, <2>3, ShiftCount
<1>5. QED
  BY <1>2, <1>3, <1>4

LEMMA ChunksInEmpty == ChunksIn(<<>>) = 0
<1>1. {i \in DOMAIN <<>> : IsChunk(<<>>[i])} = {}
  OBVIOUS
<1>2. QED
  BY <1>1, FS_EmptySet DEF ChunksIn

LEMMA OwnedEmpty == Owned(<<>>) = 0
<1>1. {i \in DOMAIN <<>> : IsChunk(<<>>[i].msg) /\ <<>>[i].status # "err"} = {}
  OBVIOUS
<1>2. QED
  BY <1>1, FS_EmptySet DEF Owned

Weight(msg) == IF IsChunk(msg) THEN 1 ELSE 0

LEMMA ChunksInAppend ==
  ASSUME NEW q \in Seq(Message), NEW msg \in Message
  PROVE  ChunksIn(Append(q, msg)) = ChunksIn(q) + Weight(msg)
<1> DEFINE P == {i \in DOMAIN q : IsChunk(q[i])}
           R == {i \in DOMAIN Append(q, msg) : IsChunk(Append(q, msg)[i])}
<1>1. /\ Len(q) \in Nat /\ DOMAIN q = 1..Len(q) /\ DOMAIN Append(q, msg) = 1..(Len(q) + 1)
      /\ \A i \in 1..Len(q) : Append(q, msg)[i] = q[i]
      /\ Append(q, msg)[Len(q) + 1] = msg
  BY AppendProperties, LenProperties
<1>2. R = P \cup (IF IsChunk(msg) THEN {Len(q) + 1} ELSE {})
  BY <1>1
<1>3. P \in SUBSET (1..Len(q)) /\ IsChunk(msg) \in BOOLEAN
  BY <1>1 DEF IsChunk
<1>4. Cardinality(R) = Cardinality(P) + IF IsChunk(msg) THEN 1 ELSE 0
  <2> HIDE DEF P, R
  <2>1. QED
    BY <1>1, <1>2, <1>3, CountAppend
<1>5. QED
  BY <1>4 DEF ChunksIn, Weight

LEMMA ChunksInTail ==
  ASSUME NEW q \in Seq(Message), q # <<>>
  PROVE  ChunksIn(Tail(q)) = ChunksIn(q) - Weight(Head(q))
<1> DEFINE P == {i \in DOMAIN q : IsChunk(q[i])}
           R == {i \in DOMAIN Tail(q) : IsChunk(Tail(q)[i])}
<1>1. /\ Len(q) \in Nat \ {0} /\ DOMAIN q = 1..Len(q) /\ DOMAIN Tail(q) = 1..(Len(q) - 1)
      /\ \A i \in 1..(Len(q) - 1) : Tail(q)[i] = q[i + 1]
      /\ Head(q) = q[1]
  BY TailType, LenProperties
<1>2. R = {i \in 1..(Len(q) - 1) : i + 1 \in P}
  BY <1>1
<1>3. P \in SUBSET (1..Len(q)) /\ (1 \in P <=> IsChunk(Head(q)))
  BY <1>1
<1>4. Cardinality(R) = Cardinality(P) - IF 1 \in P THEN 1 ELSE 0
  <2> HIDE DEF P, R
  <2>1. QED
    BY <1>1, <1>2, <1>3, CountTail
<1>5. QED
  BY <1>3, <1>4 DEF ChunksIn, Weight

LEMMA ChunksInSingle ==
  ASSUME NEW msg \in Message
  PROVE  ChunksIn(<<msg>>) = Weight(msg)
<1>1. Append(<<>>, msg) = <<msg>>
  OBVIOUS
<1>2. <<>> \in Seq(Message) /\ Weight(msg) \in Nat
  BY DEF Weight
<1>3. ChunksIn(Append(<<>>, msg)) = ChunksIn(<<>>) + Weight(msg)
  BY <1>2, ChunksInAppend
<1>4. QED
  BY <1>1, <1>2, <1>3, ChunksInEmpty

\* A queue of one message is that message.
LEMMA ChunksInOne ==
  ASSUME NEW q \in Seq(Message), Len(q) <= 1, q # <<>>
  PROVE  ChunksIn(q) = Weight(Head(q))
<1>1. /\ Head(q) \in Message /\ Head(q) = q[1] /\ Len(q) \in Nat \ {0}
  BY TailType
<1>2. Len(q) = 1
  BY <1>1, OnlyOne, Zenon
<1>3. q = <<Head(q)>>
  <2>1. /\ <<Head(q)>> \in Seq(Message) /\ Len(<<Head(q)>>) = 1 /\ <<Head(q)>>[1] = Head(q)
    BY <1>1, SingleType
  <2>2. \A i \in 1..Len(q) : q[i] = <<Head(q)>>[i]
    BY <1>1, <1>2, <2>1
  <2>3. QED
    BY <1>2, <2>1, <2>2, SeqEqual
<1>4. QED
  BY <1>1, <1>3, ChunksInSingle

OwnWeight(f) == IF IsChunk(f.msg) /\ f.status # "err" THEN 1 ELSE 0

LEMMA OwnedAppend ==
  ASSUME NEW fs \in Seq(Future), NEW f \in Future
  PROVE  Owned(Append(fs, f)) = Owned(fs) + OwnWeight(f)
<1> DEFINE Own(g) == IsChunk(g.msg) /\ g.status # "err"
           P == {i \in DOMAIN fs : Own(fs[i])}
           R == {i \in DOMAIN Append(fs, f) : Own(Append(fs, f)[i])}
<1>1. /\ Len(fs) \in Nat /\ DOMAIN fs = 1..Len(fs) /\ DOMAIN Append(fs, f) = 1..(Len(fs) + 1)
      /\ \A i \in 1..Len(fs) : Append(fs, f)[i] = fs[i]
      /\ Append(fs, f)[Len(fs) + 1] = f
  BY AppendProperties, LenProperties
<1>2. R = P \cup (IF Own(f) THEN {Len(fs) + 1} ELSE {})
  BY <1>1
<1>3. P \in SUBSET (1..Len(fs)) /\ Own(f) \in BOOLEAN
  BY <1>1
<1>4. Cardinality(R) = Cardinality(P) + IF Own(f) THEN 1 ELSE 0
  <2> HIDE DEF P, R, Own
  <2>1. QED
    BY <1>1, <1>2, <1>3, CountAppend
<1>5. QED
  BY <1>4 DEF Owned, OwnWeight

LEMMA OwnedTail ==
  ASSUME NEW fs \in Seq(Future), fs # <<>>
  PROVE  Owned(Tail(fs)) = Owned(fs) - OwnWeight(Head(fs))
<1> DEFINE Own(g) == IsChunk(g.msg) /\ g.status # "err"
           P == {i \in DOMAIN fs : Own(fs[i])}
           R == {i \in DOMAIN Tail(fs) : Own(Tail(fs)[i])}
<1>1. /\ Len(fs) \in Nat \ {0} /\ DOMAIN fs = 1..Len(fs) /\ DOMAIN Tail(fs) = 1..(Len(fs) - 1)
      /\ \A i \in 1..(Len(fs) - 1) : Tail(fs)[i] = fs[i + 1]
      /\ Head(fs) = fs[1]
  BY TailType, LenProperties
<1>2. R = {i \in 1..(Len(fs) - 1) : i + 1 \in P}
  BY <1>1
<1>3. P \in SUBSET (1..Len(fs)) /\ (1 \in P <=> Own(Head(fs)))
  BY <1>1
<1>4. Cardinality(R) = Cardinality(P) - IF 1 \in P THEN 1 ELSE 0
  <2> HIDE DEF P, R
  <2>1. QED
    BY <1>1, <1>2, <1>3, CountTail
<1>5. QED
  BY <1>3, <1>4 DEF Owned, OwnWeight

LEMMA OwnedReplace ==
  ASSUME NEW fs \in Seq(Future), NEW i \in DOMAIN fs, NEW f \in Future
  PROVE  Owned([fs EXCEPT ![i] = f]) = Owned(fs) - OwnWeight(fs[i]) + OwnWeight(f)
<1> DEFINE Own(g) == IsChunk(g.msg) /\ g.status # "err"
           gs == [fs EXCEPT ![i] = f]
           P == {j \in DOMAIN fs : Own(fs[j])}
           R == {j \in DOMAIN gs : Own(gs[j])}
<1>1. DOMAIN gs = DOMAIN fs /\ gs[i] = f /\ \A j \in DOMAIN fs : j # i => gs[j] = fs[j]
  OBVIOUS
<1>2. IsFiniteSet(P) /\ Cardinality(P) \in Nat
  BY CountType
<1>3. IsFiniteSet(P \ {i}) /\ Cardinality(P \ {i}) = IF Own(fs[i]) THEN Cardinality(P) - 1 ELSE Cardinality(P)
  <2>1. i \in P <=> Own(fs[i])
    OBVIOUS
  <2> HIDE DEF P, Own
  <2>2. QED
    BY <1>2, <2>1, FS_RemoveElement
<1>4. /\ Owned(fs) = Cardinality(P) /\ Owned(gs) = Cardinality(R)
      /\ OwnWeight(fs[i]) = IF Own(fs[i]) THEN 1 ELSE 0
      /\ OwnWeight(f) = IF Own(f) THEN 1 ELSE 0
  BY DEF Owned, OwnWeight
<1>5. CASE Own(f)
  <2>1. R = (P \ {i}) \cup {i} /\ i \notin P \ {i}
    BY <1>1, <1>5
  <2>2. Cardinality(R) = Cardinality(P \ {i}) + 1
    BY <1>3, <2>1, FS_AddElement
  <2> HIDE DEF P, R, Own
  <2>3. QED
    BY <1>2, <1>3, <1>4, <1>5, <2>2
<1>6. CASE ~Own(f)
  <2>1. R = P \ {i}
    BY <1>1, <1>6
  <2> HIDE DEF P, R, Own
  <2>2. QED
    BY <1>2, <1>3, <1>4, <1>6, <2>1
<1>7. QED
  BY <1>5, <1>6

-------------------------------------------------------------------------------
\* The counter.  Beside the count itself, the invariant says that only chunks
\* are geocoded, that a result being sent on took a worker's place, and that
\* the uncounted chunk comes last.

CountInv ==
    /\ CounterAccounts
    /\ \A i \in DOMAIN inProgress :
           inProgress[i].status = "running" => IsChunk(inProgress[i].msg)
    /\ Len(inProgress) + Len(hand) <= CONCURRENCY
    /\ rpc \in {"setup", "read", "sendChunk"} => ~madeFinal

LEMMA InitCount == Init => CountInv
<1> SUFFICES ASSUME Init PROVE CountInv
  OBVIOUS
<1>1. /\ ChunksIn(inQ) = 0 /\ ChunksIn(outQ) = 0 /\ ChunksIn(hand) = 0
      /\ ChunksIn(current) = 0 /\ Owned(inProgress) = 0
  BY ChunksInEmpty, OwnedEmpty DEF Init
<1>2. CounterAccounts
  BY <1>1 DEF Init, CounterAccounts, LiveChunks, ReaderHolds, Uncounted
<1>3. Len(inProgress) + Len(hand) <= CONCURRENCY
  BY CapacityAssumption, EmptyType DEF Init
<1>4. QED
  BY <1>2, <1>3 DEF Init, CountInv

\* The numbers of chunks are numbers.
LEMMA CountTypes ==
  ASSUME TypeOK
  PROVE  /\ ChunksIn(inQ) \in Nat /\ ChunksIn(outQ) \in Nat /\ ChunksIn(hand) \in Nat
         /\ ChunksIn(current) \in Nat /\ Owned(inProgress) \in Nat /\ ReaderHolds \in Nat
         /\ existing \in Int
BY ChunksInType, OwnedType DEF TypeOK, ReaderHolds

LEMMA ReaderCount == TypeOK /\ CountInv /\ Reader => CountInv'
<1> SUFFICES ASSUME TypeOK, CountInv, Reader PROVE CountInv'
  OBVIOUS
<1>1. UNCHANGED <<inProgress, hand, outQ, current>>
  BY DEF Reader, ReaderSetup, ReadRow, ReadError, ReadEof, ReaderSend, ReaderSendFail,
         geocodeVars, writerVars
<1>2. rpc' \in {"setup", "read", "sendChunk"} => ~madeFinal'
  BY DEF CountInv, TypeOK, Reader, ReaderSetup, ReadRow, ReadError, ReadEof, ReaderSend,
         ReaderSendFail, Sending, AfterSend
<1>3. CounterAccounts'
  <2>1. /\ Owned(inProgress)' = Owned(inProgress) /\ ChunksIn(hand)' = ChunksIn(hand)
        /\ ChunksIn(outQ)' = ChunksIn(outQ) /\ ChunksIn(current)' = ChunksIn(current)
    BY <1>1
  <2>2. CASE ReaderSend
    <3>1. Outgoing \in Message /\ Weight(Outgoing) = ReaderHolds /\ ReaderHolds' = 0
      BY <2>2, BoundAssumption
      DEF ReaderSend, Sending, AfterSend, TypeOK, Outgoing, EndOfStream, Chunk, IsChunk,
          Message, Kind, Weight, ReaderHolds
    <3>2. ChunksIn(inQ)' = ChunksIn(inQ) + ReaderHolds
      BY <2>2, <3>1, ChunksInAppend DEF ReaderSend, TypeOK
    <3>3. existing' = existing /\ Uncounted' = Uncounted
      BY <2>2 DEF ReaderSend, Uncounted
    <3>4. QED
      BY <2>1, <3>1, <3>2, <3>3, CountTypes DEF CountInv, CounterAccounts, LiveChunks
  <2>3. CASE ~ReaderSend
    <3>1. ChunksIn(inQ)' = ChunksIn(inQ)
      BY <2>3 DEF Reader, ReaderSetup, ReadRow, ReadError, ReadEof, ReaderSendFail
    <3>2. existing' - ReaderHolds' + Uncounted' = existing - ReaderHolds + Uncounted
      <4>1. CASE ReaderSetup
        BY <4>1, CountTypes DEF ReaderSetup, ReaderHolds, Uncounted
      <4>2. CASE ReadRow
        BY <4>2, CountTypes DEF ReadRow, ReaderHolds, Uncounted
      <4>3. CASE ReadError
        BY <4>3, CountTypes DEF ReadError, ReaderHolds, Uncounted
      <4>4. CASE ReadEof
        <5>1. ~madeFinal /\ existing' = existing /\ ReaderHolds = 0 /\ madeFinal' = NeedsFinal
              /\ rpc' = IF NeedsFinal THEN "sendFinal" ELSE "sendEos"
          BY <4>4 DEF ReadEof, ReaderHolds, CountInv
        <5>2. CASE NeedsFinal
          BY <5>1, <5>2, CountTypes DEF ReaderHolds, Uncounted
        <5>3. CASE ~NeedsFinal
          BY <5>1, <5>3, CountTypes DEF ReaderHolds, Uncounted
        <5>4. QED
          BY <5>2, <5>3
      <4>5. CASE ReaderSendFail
        BY <4>5, CountTypes DEF ReaderSendFail, ReaderHolds, Uncounted
      <4>6. QED
        BY <2>3, <4>1, <4>2, <4>3, <4>4, <4>5 DEF Reader
    <3>3. /\ ReaderHolds' \in Nat /\ existing' \in Int /\ Uncounted \in Nat /\ Uncounted' \in Nat
      BY StepType DEF Next, ReaderHolds, TypeOK, Uncounted
    <3>4. LiveChunks' - ReaderHolds' = LiveChunks - ReaderHolds
      BY <2>1, <3>1, <3>3, CountTypes DEF LiveChunks
    <3>5. LiveChunks \in Nat /\ LiveChunks' \in Int
      BY <2>1, <3>1, <3>3, CountTypes DEF LiveChunks
    <3>6. existing = LiveChunks - Uncounted
      BY DEF CountInv, CounterAccounts
    <3>7. existing' = LiveChunks' - Uncounted'
      <4>1. existing' = existing - ReaderHolds + Uncounted + ReaderHolds' - Uncounted'
        BY <3>2, <3>3, CountTypes
      <4>2. LiveChunks' = LiveChunks - ReaderHolds + ReaderHolds'
        BY <3>3, <3>4, <3>5, CountTypes
      <4>3. QED
        BY <3>3, <3>5, <3>6, <4>1, <4>2, CountTypes
    <3>8. QED
      BY <3>7 DEF CounterAccounts
  <2>4. QED
    BY <2>2, <2>3
<1>4. QED
  BY <1>1, <1>2, <1>3 DEF CountInv

\* The task gives up: nothing it held is left, and the counter says so.
LEMMA GiveUpCount == TypeOK /\ CountInv /\ GiveUp => CountInv'
<1> SUFFICES ASSUME TypeOK, CountInv, GiveUp PROVE CountInv'
  OBVIOUS
<1>1. /\ ChunksIn(inQ)' = 0 /\ ChunksIn(hand)' = 0 /\ Owned(inProgress)' = 0
      /\ existing' = existing - ChunksIn(inQ) - Owned(inProgress) - ChunksIn(hand)
  BY ChunksInEmpty, OwnedEmpty DEF GiveUp
<1>2. /\ ChunksIn(outQ)' = ChunksIn(outQ) /\ ChunksIn(current)' = ChunksIn(current)
      /\ ReaderHolds' = ReaderHolds /\ madeFinal' = madeFinal /\ rpc' = rpc
      /\ Uncounted' = Uncounted
  BY DEF GiveUp, readerVars, writerVars, ReaderHolds, Uncounted
<1>3. CounterAccounts'
  <2>1. LiveChunks' = LiveChunks - ChunksIn(inQ) - Owned(inProgress) - ChunksIn(hand)
    BY <1>1, <1>2, CountTypes DEF LiveChunks
  <2>2. LiveChunks \in Nat /\ Uncounted \in Nat /\ existing = LiveChunks - Uncounted
    BY CountTypes DEF LiveChunks, Uncounted, CountInv, CounterAccounts
  <2>3. existing' = LiveChunks' - Uncounted'
    BY <1>1, <1>2, <2>1, <2>2, CountTypes
  <2>4. QED
    BY <2>3 DEF CounterAccounts
<1>4. inProgress' = <<>> /\ Len(inProgress') + Len(hand') <= CONCURRENCY
  BY EmptyType, CapacityAssumption DEF GiveUp
<1>5. QED
  BY <1>2, <1>3, <1>4 DEF CountInv

\* The count stays right when counter and chunks change by as much.
LEMMA CountMoves ==
  ASSUME TypeOK, TypeOK', CountInv, Uncounted' = Uncounted, NEW d \in Int,
         existing' = existing + d, LiveChunks' = LiveChunks + d
  PROVE  CounterAccounts'
<1>1. LiveChunks \in Nat /\ Uncounted \in Nat /\ existing = LiveChunks - Uncounted
  <2>1. LiveChunks \in Nat
    BY CountTypes DEF LiveChunks
  <2>2. Uncounted \in Nat
    BY DEF Uncounted
  <2>3. QED
    BY <2>1, <2>2 DEF CountInv, CounterAccounts
<1>2. existing' = LiveChunks' - Uncounted'
  BY <1>1
<1>3. QED
  BY <1>2 DEF CounterAccounts

LEMMA GeocodeCount == TypeOK /\ CountInv /\ Geocode => CountInv'
<1> SUFFICES ASSUME TypeOK, CountInv, Geocode PROVE CountInv'
  OBVIOUS
<1>0. TypeOK'
  BY GeocodeType
<1>1. /\ rpc' = rpc /\ madeFinal' = madeFinal /\ Uncounted' = Uncounted
      /\ ReaderHolds' = ReaderHolds /\ ChunksIn(current)' = ChunksIn(current)
  <2>1. UNCHANGED <<readerVars, writerVars>>
    BY DEF Geocode, GeocodeTake, FutureStep, GeocodeOk, GeocodeEmpty, GeocodeRetry,
           GeocodeFail, Emit, EmitErr, OutSend, OutSendFail, GiveUp, GeocodeEnd
  <2>2. QED
    BY <2>1 DEF readerVars, writerVars, Uncounted, ReaderHolds
<1>2. /\ inQ \in Seq(Message) /\ outQ \in Seq(Message) /\ hand \in Seq(Message)
      /\ inProgress \in Seq(Future) /\ Len(inProgress) \in Nat /\ Len(hand) \in Nat
      /\ existing \in Int
  BY LenProperties DEF TypeOK
<1>3. CASE GeocodeTake
  <2> DEFINE h == Head(inQ)
             f == NewFuture(h)
  <2>1. /\ inQ # <<>> /\ inQ' = Tail(inQ) /\ outQ' = outQ /\ hand = <<>> /\ hand' = hand
        /\ inProgress' = Append(inProgress, f) /\ existing' = existing
        /\ Len(inProgress) < CONCURRENCY
    BY <1>3 DEF GeocodeTake, CanTake, Polling
  <2>2. h \in Message /\ f \in Future /\ OwnWeight(f) = Weight(h) /\ Weight(h) \in Nat
        /\ (f.status = "running" => IsChunk(f.msg))
    <3>1. h \in Message
      BY <1>2, <2>1, TailType
    <3>2. f.msg = h /\ f.status = IF IsChunk(h) THEN "running" ELSE "ok"
      BY DEF NewFuture
    <3>3. f \in Future
      BY <3>1, BoundAssumption DEF NewFuture, Future
    <3>4. OwnWeight(f) = Weight(h) /\ Weight(h) \in Nat
      BY <3>2 DEF OwnWeight, Weight
    <3>5. QED
      BY <3>1, <3>2, <3>3, <3>4
  <2>3. /\ ChunksIn(inQ)' = ChunksIn(inQ) - Weight(h)
        /\ Owned(inProgress)' = Owned(inProgress) + Weight(h)
        /\ ChunksIn(outQ)' = ChunksIn(outQ) /\ ChunksIn(hand)' = ChunksIn(hand)
    BY <1>2, <2>1, <2>2, ChunksInTail, OwnedAppend
  <2>4. LiveChunks' = LiveChunks + 0 /\ existing' = existing + 0
    <3>1. existing' = existing + 0
      BY <1>2, <2>1
    <3>2. Weight(h) \in Int
      BY <2>2
    <3>3. LiveChunks' = LiveChunks + 0
      <4> HIDE DEF h, f
      <4>1. LiveChunks = ReaderHolds + ChunksIn(inQ) + Owned(inProgress) + ChunksIn(hand)
                           + ChunksIn(outQ) + ChunksIn(current)
        BY DEF LiveChunks
      <4>2. LiveChunks' = ReaderHolds + (ChunksIn(inQ) - Weight(h))
                            + (Owned(inProgress) + Weight(h)) + ChunksIn(hand)
                            + ChunksIn(outQ) + ChunksIn(current)
        BY <1>1, <2>3, Zenon DEF LiveChunks
      <4>3. QED
        BY <3>2, <4>1, <4>2, CountTypes
    <3>4. QED
      BY <3>1, <3>3
  <2>5. CounterAccounts'
    BY <1>0, <1>1, <2>4, CountMoves
  <2>6. Len(inProgress') + Len(hand') <= CONCURRENCY
    <3>1. Len(inProgress') = Len(inProgress) + 1 /\ Len(hand') = 0
      BY <1>2, <2>1, <2>2, AppendType, EmptyType
    <3>2. QED
      BY <1>2, <2>1, <3>1, CapacityAssumption
  <2>7. \A i \in DOMAIN inProgress' :
          inProgress'[i].status = "running" => IsChunk(inProgress'[i].msg)
    <3>1. /\ DOMAIN inProgress' = 1..(Len(inProgress) + 1) /\ DOMAIN inProgress = 1..Len(inProgress)
          /\ \A i \in 1..Len(inProgress) : inProgress'[i] = inProgress[i]
          /\ inProgress'[Len(inProgress) + 1] = f
      BY <1>2, <2>1, <2>2, AppendProperties, LenProperties
    <3>2. \A i \in DOMAIN inProgress' : i \in DOMAIN inProgress \/ i = Len(inProgress) + 1
      BY <1>2, <3>1
    <3> HIDE DEF f
    <3>3. QED
      BY <2>2, <3>1, <3>2 DEF CountInv
  <2>8. QED
    BY <1>1, <2>5, <2>6, <2>7 DEF CountInv
<1>4. CASE FutureStep
  <2> PICK i \in DOMAIN inProgress :
        GeocodeOk(i) \/ GeocodeEmpty(i) \/ GeocodeRetry(i) \/ GeocodeFail(i)
    BY <1>4 DEF FutureStep
  <2>1. inQ' = inQ /\ outQ' = outQ /\ hand' = hand
    BY DEF GeocodeOk, GeocodeEmpty, GeocodeRetry, GeocodeFail, geocodeVars
  <2>2. CASE GeocodeEmpty(i)
    <3>1. inProgress' = inProgress /\ existing' = existing + 0
      BY <1>2, <2>2 DEF GeocodeEmpty, geocodeVars
    <3>2. LiveChunks' = LiveChunks + 0
      BY <1>1, <2>1, <3>1, CountTypes DEF LiveChunks
    <3>3. CounterAccounts'
      BY <1>0, <1>1, <3>1, <3>2, CountMoves
    <3>4. QED
      BY <1>1, <2>1, <3>1, <3>3 DEF CountInv
  <2>3. CASE GeocodeOk(i) \/ GeocodeRetry(i) \/ GeocodeFail(i)
    <3>1. inProgress[i] \in Future /\ inProgress[i].status = "running" /\ IsChunk(inProgress[i].msg)
      BY <1>2, <2>3 DEF GeocodeOk, GeocodeRetry, GeocodeFail, IsRunning, CountInv
    <3> PICK f \in Future :
          /\ inProgress' = [inProgress EXCEPT ![i] = f]
          /\ f.msg = inProgress[i].msg
          /\ f.status = IF GeocodeOk(i) THEN "ok"
                        ELSE IF GeocodeRetry(i) THEN "running" ELSE "err"
      BY <2>3, FutureStepReplaces
    <3>2. inProgress'[i] = f
      BY <1>2
    <3>3. OwnWeight(inProgress[i]) = 1
      BY <3>1 DEF OwnWeight
    <3>4. Owned(inProgress)' = Owned(inProgress) - 1 + OwnWeight(f) /\ OwnWeight(f) \in Int
      <4>1. OwnWeight(f) \in Int
        BY DEF OwnWeight
      <4>2. Owned(inProgress)' = Owned(inProgress) - OwnWeight(inProgress[i]) + OwnWeight(f)
        BY <1>2, OwnedReplace
      <4>3. QED
        BY <3>3, <4>1, <4>2
    <3>5. existing' = existing + (OwnWeight(f) - 1)
      <4>1. CASE f.status # "err"
        <5>1. existing' = existing
          BY <2>3, <4>1 DEF GeocodeOk, GeocodeRetry
        <5>2. OwnWeight(f) = 1
          BY <3>1, <4>1 DEF OwnWeight
        <5>3. QED
          BY <1>2, <5>1, <5>2
      <4>2. CASE f.status = "err"
        <5>1. ~GeocodeOk(i) /\ ~GeocodeRetry(i)
          BY <4>2
        <5>2. existing' = existing - 1
          BY <2>3, <5>1 DEF GeocodeFail
        <5>3. OwnWeight(f) = 0
          BY <4>2 DEF OwnWeight
        <5>4. QED
          BY <1>2, <5>2, <5>3
      <4>3. QED
        BY <4>1, <4>2
    <3>6. LiveChunks' = LiveChunks + (OwnWeight(f) - 1)
      <4>1. /\ ChunksIn(inQ)' = ChunksIn(inQ) /\ ChunksIn(outQ)' = ChunksIn(outQ)
            /\ ChunksIn(hand)' = ChunksIn(hand)
        BY <2>1
      <4>2. QED
        BY <1>1, <3>4, <4>1, CountTypes DEF LiveChunks
    <3>7. CounterAccounts'
      BY <1>0, <1>1, <3>4, <3>5, <3>6, CountMoves
    <3>8. Len(inProgress') + Len(hand') <= CONCURRENCY
      BY <1>2, <2>1, ReplaceFuture DEF CountInv
    <3>9. \A j \in DOMAIN inProgress' :
            inProgress'[j].status = "running" => IsChunk(inProgress'[j].msg)
      BY <3>1, <3>2 DEF CountInv
    <3>10. QED
      BY <1>1, <3>7, <3>8, <3>9 DEF CountInv
  <2>4. QED
    BY <2>2, <2>3
<1>5. CASE Emit
  <2> DEFINE g == Head(inProgress)
  <2>1. /\ inProgress # <<>> /\ g.status = "ok" /\ hand = <<>> /\ hand' = <<g.msg>>
        /\ inProgress' = Tail(inProgress) /\ inQ' = inQ /\ outQ' = outQ /\ existing' = existing
    BY <1>5 DEF Emit, Polling
  <2>2. g \in Future /\ g.msg \in Message /\ OwnWeight(g) = Weight(g.msg) /\ Weight(g.msg) \in Nat
    <3>1. g \in Future
      BY <1>2, <2>1, TailType
    <3>2. g.msg \in Message
      BY <3>1 DEF Future
    <3>3. OwnWeight(g) = Weight(g.msg) /\ Weight(g.msg) \in Nat
      BY <2>1 DEF OwnWeight, Weight
    <3>4. QED
      BY <3>1, <3>2, <3>3
  <2>3. /\ Owned(inProgress)' = Owned(inProgress) - Weight(g.msg)
        /\ ChunksIn(hand)' = Weight(g.msg) /\ ChunksIn(hand) = 0
        /\ ChunksIn(inQ)' = ChunksIn(inQ) /\ ChunksIn(outQ)' = ChunksIn(outQ)
    BY <1>2, <2>1, <2>2, OwnedTail, ChunksInSingle, ChunksInEmpty
  <2>4. LiveChunks' = LiveChunks + 0 /\ existing' = existing + 0
    BY <1>1, <1>2, <2>1, <2>2, <2>3, CountTypes DEF LiveChunks
  <2>5. CounterAccounts'
    BY <1>0, <1>1, <2>4, CountMoves
  <2>6. /\ Len(inProgress') = Len(inProgress) - 1 /\ Len(hand) = 0 /\ Len(hand') = 1
        /\ \A i \in 1..(Len(inProgress) - 1) : inProgress'[i] = inProgress[i + 1]
    BY <1>2, <2>1, <2>2, TailType, SingleType, EmptyType
  <2>7. Len(inProgress') + Len(hand') <= CONCURRENCY
    BY <1>2, <2>6 DEF CountInv
  <2>8. \A i \in DOMAIN inProgress' :
          inProgress'[i].status = "running" => IsChunk(inProgress'[i].msg)
    <3>1. /\ DOMAIN inProgress' = 1..(Len(inProgress) - 1)
          /\ DOMAIN inProgress = 1..Len(inProgress)
      BY <1>2, <2>1, TailType, LenProperties
    <3>2. \A i \in DOMAIN inProgress' : i + 1 \in DOMAIN inProgress
      BY <1>2, <3>1
    <3>3. QED
      BY <2>6, <3>1, <3>2 DEF CountInv
  <2>9. QED
    BY <1>1, <2>5, <2>7, <2>8 DEF CountInv
<1>6. CASE EmitErr
  BY <1>6, GiveUpCount DEF EmitErr
<1>7. CASE OutSend
  <2> DEFINE h == Head(hand)
  <2>1. /\ hand # <<>> /\ hand' = <<>> /\ outQ' = Append(outQ, h) /\ existing' = existing
        /\ inQ' = inQ /\ inProgress' = inProgress
    BY <1>7 DEF OutSend
  <2>2. h \in Message /\ Weight(h) \in Nat /\ ChunksIn(hand) = Weight(h)
    BY <1>2, <2>1, TailType, ChunksInOne DEF TypeOK, Weight
  <2>3. /\ ChunksIn(outQ)' = ChunksIn(outQ) + Weight(h) /\ ChunksIn(hand)' = 0
        /\ ChunksIn(inQ)' = ChunksIn(inQ) /\ Owned(inProgress)' = Owned(inProgress)
    BY <1>2, <2>1, <2>2, ChunksInAppend, ChunksInEmpty
  <2>4. LiveChunks' = LiveChunks + 0 /\ existing' = existing + 0
    BY <1>1, <1>2, <2>1, <2>2, <2>3, CountTypes DEF LiveChunks
  <2>5. CounterAccounts'
    BY <1>0, <1>1, <2>4, CountMoves
  <2>6. Len(inProgress') + Len(hand') <= CONCURRENCY
    <3>1. Len(inProgress') = Len(inProgress) /\ Len(hand') = 0
      BY <2>1, EmptyType
    <3>2. Len(inProgress) + Len(hand) <= CONCURRENCY
      BY DEF CountInv
    <3>3. QED
      BY <1>2, <3>1, <3>2, CapacityAssumption
  <2>7. QED
    BY <1>1, <2>1, <2>5, <2>6 DEF CountInv
<1>8. CASE OutSendFail
  BY <1>8, GiveUpCount DEF OutSendFail
<1>9. CASE GeocodeEnd
  <2>1. /\ inQ' = inQ /\ inProgress' = inProgress /\ hand' = hand /\ outQ' = outQ
        /\ existing' = existing + 0
    BY <1>2, <1>9 DEF GeocodeEnd
  <2>2. LiveChunks' = LiveChunks + 0
    BY <1>1, <2>1, CountTypes DEF LiveChunks
  <2>3. CounterAccounts'
    BY <1>0, <1>1, <2>1, <2>2, CountMoves
  <2>4. QED
    BY <1>1, <2>1, <2>3 DEF CountInv
<1>10. QED
  BY <1>3, <1>4, <1>5, <1>6, <1>7, <1>8, <1>9 DEF Geocode

\* What the writer's last step does to the count: it drops what is queued and
\* the chunk it is on.
LEMMA WriterEndCount ==
  ASSUME TypeOK, TypeOK', CountInv, NEW result, WriterEnd(result, ChunksIn(current))
  PROVE  CountInv'
<1>1. /\ ChunksIn(outQ)' = 0 /\ ChunksIn(current)' = 0
      /\ existing' = existing - ChunksIn(outQ) - ChunksIn(current)
      /\ ReaderHolds' = ReaderHolds /\ Uncounted' = Uncounted
      /\ inQ' = inQ /\ inProgress' = inProgress /\ hand' = hand
      /\ rpc' = rpc /\ madeFinal' = madeFinal
  BY ChunksInEmpty
  DEF WriterEnd, readerVars, geocodeVars, ReaderHolds, Uncounted
<1> DEFINE d == 0 - ChunksIn(outQ) - ChunksIn(current)
<1>2. d \in Int /\ existing' = existing + d
  BY <1>1, CountTypes
<1>3. LiveChunks' = LiveChunks + d
  <2>1. /\ ChunksIn(inQ)' = ChunksIn(inQ) /\ ChunksIn(hand)' = ChunksIn(hand)
        /\ Owned(inProgress)' = Owned(inProgress)
    BY <1>1
  <2>2. QED
    BY <1>1, <2>1, CountTypes DEF LiveChunks
<1>4. CounterAccounts'
  <2> HIDE DEF d
  <2>1. QED
    BY <1>1, <1>2, <1>3, CountMoves
<1>5. QED
  BY <1>1, <1>4 DEF CountInv

LEMMA WriterCount == TypeOK /\ CountInv /\ Writer => CountInv'
<1> SUFFICES ASSUME TypeOK, CountInv, Writer PROVE CountInv'
  OBVIOUS
<1>0. TypeOK'
  BY WriterType
<1>1. /\ outQ \in Seq(Message) /\ current \in Seq(Message) /\ Len(current) <= 1
      /\ existing \in Int
  BY DEF TypeOK
<1>2. ASSUME current # <<>>
      PROVE  ChunksIn(current) = Weight(Head(current))
  BY <1>1, <1>2, ChunksInOne
<1>3. CASE Receive
  <2> DEFINE h == Head(outQ)
  <2>1. /\ outQ # <<>> /\ outQ' = Tail(outQ) /\ current = <<>> /\ current' = <<h>>
        /\ existing' = existing + 0 /\ inQ' = inQ /\ inProgress' = inProgress /\ hand' = hand
        /\ rpc' = rpc /\ madeFinal' = madeFinal
    BY <1>1, <1>3 DEF Receive, readerVars, geocodeVars
  <2>2. h \in Message /\ Weight(h) \in Nat
    BY <1>1, <2>1, TailType DEF Weight
  <2>3. /\ ChunksIn(outQ)' = ChunksIn(outQ) - Weight(h) /\ ChunksIn(current) = 0
        /\ ChunksIn(current)' = Weight(h)
    BY <1>1, <2>1, <2>2, ChunksInTail, ChunksInSingle, ChunksInEmpty
  <2>4. /\ ReaderHolds' = ReaderHolds /\ Uncounted' = Uncounted
        /\ ChunksIn(inQ)' = ChunksIn(inQ) /\ ChunksIn(hand)' = ChunksIn(hand)
        /\ Owned(inProgress)' = Owned(inProgress)
    BY <2>1 DEF ReaderHolds, Uncounted
  <2>5. LiveChunks' = LiveChunks + 0
    BY <2>2, <2>3, <2>4, CountTypes DEF LiveChunks
  <2>6. CounterAccounts'
    BY <1>0, <2>1, <2>4, <2>5, CountMoves
  <2>7. QED
    BY <2>1, <2>6 DEF CountInv
<1>4. CASE WriteChunk
  <2>1. /\ current # <<>> /\ IsChunk(Head(current)) /\ current' = <<>> /\ outQ' = outQ
        /\ existing' = existing + (0 - 1) /\ inQ' = inQ /\ inProgress' = inProgress
        /\ hand' = hand /\ rpc' = rpc /\ madeFinal' = madeFinal
    BY <1>1, <1>4 DEF WriteChunk, readerVars, geocodeVars
  <2>2. ChunksIn(current) = 1 /\ ChunksIn(current)' = 0
    BY <1>2, <2>1, ChunksInEmpty DEF Weight
  <2>3. /\ ReaderHolds' = ReaderHolds /\ Uncounted' = Uncounted
        /\ ChunksIn(inQ)' = ChunksIn(inQ) /\ ChunksIn(hand)' = ChunksIn(hand)
        /\ ChunksIn(outQ)' = ChunksIn(outQ) /\ Owned(inProgress)' = Owned(inProgress)
    BY <2>1 DEF ReaderHolds, Uncounted
  <2>4. LiveChunks' = LiveChunks + (0 - 1)
    BY <2>2, <2>3, CountTypes DEF LiveChunks
  <2>5. CounterAccounts'
    <3>1. 0 - 1 \in Int
      OBVIOUS
    <3>2. QED
      BY <1>0, <2>1, <2>3, <2>4, <3>1, CountMoves
  <2>6. QED
    BY <2>1, <2>5 DEF CountInv
<1>5. CASE WriteFail
  <2>1. current # <<>> /\ IsChunk(Head(current)) /\ WriterEnd("err", 1)
    BY <1>5 DEF WriteFail
  <2>2. ChunksIn(current) = 1
    BY <1>2, <2>1 DEF Weight
  <2>3. QED
    BY <1>0, <2>1, <2>2, WriterEndCount
<1>6. CASE WriteEos
  <2>1. current # <<>> /\ ~IsChunk(Head(current)) /\ WriterEnd("ok", 0)
    BY <1>6 DEF WriteEos
  <2>2. ChunksIn(current) = 0
    BY <1>2, <2>1 DEF Weight
  <2>3. QED
    BY <1>0, <2>1, <2>2, WriterEndCount
<1>7. CASE WriteNoEos
  <2>1. current = <<>> /\ WriterEnd("err", 0)
    BY <1>7 DEF WriteNoEos
  <2>2. ChunksIn(current) = 0
    BY <2>1, ChunksInEmpty
  <2>3. QED
    BY <1>0, <2>1, <2>2, WriterEndCount
<1>8. QED
  BY <1>3, <1>4, <1>5, <1>6, <1>7 DEF Writer

LEMMA StepCount == TypeOK /\ CountInv /\ [Next]_vars => CountInv'
<1> SUFFICES ASSUME TypeOK, CountInv, [Next]_vars PROVE CountInv'
  OBVIOUS
<1>1. CASE Reader
  BY <1>1, ReaderCount
<1>2. CASE Geocode
  BY <1>2, GeocodeCount
<1>3. CASE Writer
  BY <1>3, WriterCount
<1>4. CASE MainExit \/ UNCHANGED vars
  <2>1. UNCHANGED <<rpc, madeFinal, inQ, inProgress, hand, outQ, current, existing>>
    BY <1>4 DEF MainExit, vars, readerVars, geocodeVars, writerVars
  <2>2. QED
    BY <2>1 DEF CountInv, CounterAccounts, LiveChunks, ReaderHolds, Uncounted
<1>5. QED
  BY <1>1, <1>2, <1>3, <1>4 DEF Next, Terminated

THEOREM Counted == Spec => [](TypeOK /\ CountInv)
<1>1. Init => TypeOK /\ CountInv
  BY InitType, InitCount
<1>2. TypeOK /\ CountInv /\ [Next]_vars => (TypeOK /\ CountInv)'
  BY StepType, StepCount
<1>3. QED
  BY <1>1, <1>2, PTL DEF Spec

\* The counter is the number of chunks, less the final one, which is discounted
\* without having been counted.
THEOREM CounterIsAccountedFor == Spec => []CounterAccounts
<1>1. CountInv => CounterAccounts
  BY DEF CountInv
<1>2. QED
  BY <1>1, Counted, PTL

LEMMA LiveChunksBound == TypeOK /\ CountInv => Backpressure /\ LiveChunks \in Nat
<1> SUFFICES ASSUME TypeOK, CountInv PROVE Backpressure /\ LiveChunks \in Nat
  OBVIOUS
<1>1. /\ ChunksIn(inQ) <= CHANNEL_BUFFER /\ ChunksIn(outQ) <= CHANNEL_BUFFER
      /\ ChunksIn(current) <= 1
  <2>1. /\ ChunksIn(inQ) <= Len(inQ) /\ ChunksIn(outQ) <= Len(outQ)
        /\ ChunksIn(current) <= Len(current)
    BY ChunksInType DEF TypeOK
  <2>2. /\ Len(inQ) \in Nat /\ Len(outQ) \in Nat /\ Len(current) \in Nat
    BY LenProperties DEF TypeOK
  <2>3. Len(inQ) <= CHANNEL_BUFFER /\ Len(outQ) <= CHANNEL_BUFFER /\ Len(current) <= 1
    BY DEF TypeOK
  <2>4. QED
    BY <2>1, <2>2, <2>3, CountTypes, CapacityAssumption
<1>2. Owned(inProgress) + ChunksIn(hand) <= CONCURRENCY
  <2>1. Owned(inProgress) <= Len(inProgress) /\ ChunksIn(hand) <= Len(hand)
    BY OwnedType, ChunksInType DEF TypeOK
  <2>2. Len(inProgress) \in Nat /\ Len(hand) \in Nat
    BY LenProperties DEF TypeOK
  <2>3. Len(inProgress) + Len(hand) <= CONCURRENCY
    BY DEF CountInv
  <2>4. QED
    BY <2>1, <2>2, <2>3, CountTypes, CapacityAssumption
<1>3. ReaderHolds <= 1
  BY DEF ReaderHolds
<1>4. QED
  BY <1>1, <1>2, <1>3, CountTypes, CapacityAssumption DEF Backpressure, LiveChunks

\* There are never more chunks than the comment on MAX_EXPECTED_CHUNKS computes
\* before it adds its allowance of 10.
THEOREM BackpressureWorks == Spec => []Backpressure
<1>1. QED
  BY Counted, LiveChunksBound, PTL

LEMMA ExistingBounds ==
  TypeOK /\ CountInv => existing >= -1 /\ existing <= MAX_EXPECTED_CHUNKS
<1> SUFFICES ASSUME TypeOK, CountInv
             PROVE  existing >= -1 /\ existing <= MAX_EXPECTED_CHUNKS
  OBVIOUS
<1>1. LiveChunks \in Nat /\ LiveChunks <= CHANNEL_BUFFER * 2 + CONCURRENCY + 2
  BY LiveChunksBound DEF Backpressure
<1>2. existing = LiveChunks - Uncounted /\ Uncounted \in 0..1
  BY DEF CountInv, CounterAccounts, Uncounted
<1>3. QED
  BY <1>1, <1>2, CapacityAssumption DEF MAX_EXPECTED_CHUNKS

\* A fact about every reachable state, so that it can be used primed.
Bounded == TypeOK /\ existing >= -1 /\ existing <= MAX_EXPECTED_CHUNKS

LEMMA BoundedStep == Bounded /\ Bounded' => CountsSafely
<1>1. MAX_EXPECTED_CHUNKS \in Nat
  BY CapacityAssumption DEF MAX_EXPECTED_CHUNKS
<1>2. QED
  BY <1>1 DEF Bounded, CountsSafely, TypeOK

\* So neither panic on TOTAL_CHUNKS_EXISTING can happen.
THEOREM CounterPanicsNever == Spec => CounterNeverPanics
<1>1. TypeOK /\ CountInv => Bounded
  BY ExistingBounds DEF Bounded
<1>2. Spec => []Bounded
  BY <1>1, Counted, PTL
<1>3. Bounded /\ Bounded' => [CountsSafely]_vars
  BY BoundedStep
<1>4. QED
  BY <1>2, <1>3, PTL DEF CounterNeverPanics

==============================================================================
