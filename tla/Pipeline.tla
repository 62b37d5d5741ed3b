------------------------------- MODULE Pipeline -------------------------------
(***************************************************************************)
(* The CSV pipeline of src/src/pipeline.rs, run by `geocode_stdio`.        *)
(*                                                                         *)
(*   reader thread --in channel--> geocode task --out channel--> writer    *)
(*                                                                         *)
(* The reader groups CSV rows into chunks; the geocode task turns each     *)
(* message into a future, runs up to CONCURRENCY of them at once with      *)
(* `.buffered()` and forwards the results in submission order; the writer  *)
(* prints them.  `geocode_stdio` joins the three and turns their results   *)
(* into the exit status.                                                   *)
(*                                                                         *)
(* Rows are abstracted to their numbers: row n is the n-th row of the      *)
(* input, record 0 the header line.  What a geocoder returns is left out,  *)
(* only whether it succeeds.                                               *)
(***************************************************************************)
EXTENDS Integers, Sequences, FiniteSets

CONSTANTS
    CHANNEL_BUFFER,  \* messages each channel can hold
    CONCURRENCY,     \* futures `.buffered()` runs at once
    GEOCODE_SIZE,    \* addresses per geocoder call the reader aims at
    PrefixCount,     \* `spec.prefix_count()`: addresses in one row
    MAX_RETRIES,     \* the --max-retries option
    SLACK,           \* the "up to 10 chunks" the code allows for oversights
    MaxRows          \* bound on the rows of the input, for TLC

ASSUME CapacityAssumption ==
    /\ CHANNEL_BUFFER \in Nat \ {0}
    /\ CONCURRENCY \in Nat \ {0}
    /\ SLACK \in Nat
ASSUME SizeAssumption ==
    /\ GEOCODE_SIZE \in Nat \ {0}
    /\ PrefixCount \in Nat
ASSUME BoundAssumption ==
    /\ MAX_RETRIES \in Nat
    /\ MaxRows \in Nat

MAX_EXPECTED_CHUNKS == CHANNEL_BUFFER * 2 + CONCURRENCY + 2 + SLACK

Larger(a, b) == IF a < b THEN b ELSE a

\* Rows per chunk, so that a chunk is at most GEOCODE_SIZE addresses.
ChunkSize == Larger(1, GEOCODE_SIZE \div Larger(PrefixCount, 1))

-------------------------------------------------------------------------------
\* Messages.  A chunk holds the rows lo+1..hi.

Kind == {"chunk", "eos"}
Message == [kind : Kind, lo : Nat, hi : Nat]
Chunk(lo, hi) == [kind |-> "chunk", lo |-> lo, hi |-> hi]
EndOfStream == [kind |-> "eos", lo |-> 0, hi |-> 0]
IsChunk(m) == m.kind = "chunk"

\* A future made by `geocode_message`, and how far it is.
Future == [msg : Message, failures : 0..MAX_RETRIES, status : {"running", "ok", "err"}]
NewFuture(m) ==
    [msg |-> m, failures |-> 0, status |-> IF IsChunk(m) THEN "running" ELSE "ok"]

VARIABLES
    numRows,         \* rows in the input
    rpc,             \* where the reader is
    rlo,             \* rows in the chunks handed over so far
    rnext,           \* rows read so far: `rows` holds rlo+1..rnext
    sentChunk,       \* `sent_chunk`
    inQ,             \* channel reader -> geocode task
    gpc,             \* the geocode task: "run", or its result
    inProgress,      \* the futures of `.buffered()`, in submission order
    hand,            \* the result being sent on: <<>> or <<message>>
    outQ,            \* channel geocode task -> writer
    wpc,             \* the writer: "run", or its result
    current,         \* the message the writer is on: <<>> or <<message>>
    headersWritten,  \* `headers_written`
    written,         \* records given to `csv::Writer`
    flush,           \* whether its buffer reached stdout when it was dropped
    existing,        \* TOTAL_CHUNKS_EXISTING
    madeFinal,       \* history: a chunk was built without `Chunk::new`
    exit             \* how the process ended, "running" until then

readerVars == <<rpc, rlo, rnext, sentChunk, madeFinal>>
geocodeVars == <<gpc, inProgress, hand>>
writerVars == <<wpc, current, headersWritten, written, flush>>
vars == <<numRows, readerVars, inQ, geocodeVars, outQ, writerVars, existing, exit>>

Init ==
    /\ numRows \in 0..MaxRows
    /\ rpc = "setup" /\ rlo = 0 /\ rnext = 0 /\ sentChunk = FALSE
    /\ inQ = <<>> /\ outQ = <<>>
    /\ gpc = "run" /\ inProgress = <<>> /\ hand = <<>>
    /\ wpc = "run" /\ current = <<>>
    /\ headersWritten = FALSE /\ written = <<>> /\ flush = "no"
    /\ existing = 0 /\ madeFinal = FALSE
    /\ exit = "running"

Running == exit = "running"

\* How many of the messages of q are chunks, and how many futures own one: a
\* future that failed has dropped its chunk.
ChunksIn(q) == Cardinality({i \in DOMAIN q : IsChunk(q[i])})
Owned(fs) ==
    Cardinality({i \in DOMAIN fs : IsChunk(fs[i].msg) /\ fs[i].status # "err"})
ReaderHolds == IF rpc \in {"sendChunk", "sendFinal"} THEN 1 ELSE 0

-------------------------------------------------------------------------------
\* The reader thread: `read_csv_from_stdin`.

ReaderDone == rpc \in {"ok", "err"}      \* its Sender is dropped
GeocodeDone == gpc \in {"ok", "err"}     \* its Receiver and Sender are dropped
WriterDone == wpc \in {"ok", "err"}      \* its Receiver is dropped

\* Headers, duplicate columns and column indices; any of them may fail.
ReaderSetup ==
    /\ Running /\ rpc = "setup"
    /\ rpc' \in {"read", "err"}
    /\ UNCHANGED <<numRows, rlo, rnext, sentChunk, madeFinal, inQ, geocodeVars,
                   outQ, writerVars, existing, exit>>

RowsFull(n) == n >= ChunkSize

\* A row is read into `rows`; a full `rows` becomes a counted chunk.
ReadRow ==
    /\ Running /\ rpc = "read" /\ rnext < numRows
    /\ rnext' = rnext + 1
    /\ \/ RowsFull(rnext' - rlo) /\ rpc' = "sendChunk" /\ existing' = existing + 1
       \/ ~RowsFull(rnext' - rlo) /\ UNCHANGED <<rpc, existing>>
    /\ UNCHANGED <<numRows, rlo, sentChunk, madeFinal, inQ, geocodeVars, outQ,
                   writerVars, exit>>

\* A malformed row ends the reader.
ReadError ==
    /\ Running /\ rpc = "read" /\ rnext < numRows
    /\ rpc' = "err"
    /\ UNCHANGED <<numRows, rlo, rnext, sentChunk, madeFinal, inQ, geocodeVars,
                   outQ, writerVars, existing, exit>>

\* Faulty: forgets the rows left over after the last full chunk.
FaultyNeedsFinal == ~sentChunk
NeedsFinal == ~sentChunk \/ rnext > rlo

\* Faulty: no chunk, and so no header, for an input without rows.
FaultyReadEof ==
    /\ Running /\ rpc = "read" /\ rnext = numRows
    /\ rpc' = IF rnext > rlo THEN "sendFinal" ELSE "sendEos"
    /\ madeFinal' = (rnext > rlo)
    /\ UNCHANGED <<numRows, rlo, rnext, sentChunk, inQ, geocodeVars, outQ,
                   writerVars, existing, exit>>

\* End of input.  The final chunk is a struct literal: it is not counted.
ReadEof ==
    /\ Running /\ rpc = "read" /\ rnext = numRows
    /\ rpc' = IF NeedsFinal THEN "sendFinal" ELSE "sendEos"
    /\ madeFinal' = NeedsFinal
    /\ UNCHANGED <<numRows, rlo, rnext, sentChunk, inQ, geocodeVars, outQ,
                   writerVars, existing, exit>>

Outgoing == IF rpc = "sendEos" THEN EndOfStream ELSE Chunk(rlo, rnext)
AfterSend == [sendChunk |-> "read", sendFinal |-> "sendEos", sendEos |-> "ok"]
Sending == rpc \in DOMAIN AfterSend

\* `block_on(tx.send(..))` returns once the channel has room.
ReaderSend ==
    /\ Running /\ Sending /\ ~GeocodeDone
    /\ Len(inQ) < CHANNEL_BUFFER
    /\ inQ' = Append(inQ, Outgoing)
    /\ rpc' = AfterSend[rpc]
    /\ rlo' = rnext
    /\ sentChunk' = (sentChunk \/ rpc = "sendChunk")
    /\ UNCHANGED <<numRows, rnext, madeFinal, geocodeVars, outQ, writerVars,
                   existing, exit>>

\* The geocode task is gone: the send fails and the chunk is dropped.
ReaderSendFail ==
    /\ Running /\ Sending /\ GeocodeDone
    /\ rpc' = "err"
    /\ existing' = existing - ReaderHolds
    /\ UNCHANGED <<numRows, rlo, rnext, sentChunk, madeFinal, inQ, geocodeVars,
                   outQ, writerVars, exit>>

Reader == ReaderSetup \/ ReadRow \/ ReadError \/ ReadEof \/ ReaderSend \/ ReaderSendFail

-------------------------------------------------------------------------------
\* The geocode task: `geocode_fut`, one task that polls `.buffered()` and, while
\* a result is in hand, only the send of that result.

Polling == Running /\ gpc = "run" /\ hand = <<>>

\* Faulty: one future too many.
FaultyCanTake == Len(inProgress) <= CONCURRENCY
CanTake == Len(inProgress) < CONCURRENCY

\* `.buffered()` takes another message and makes it a future.
GeocodeTake ==
    /\ Polling /\ inQ # <<>> /\ CanTake
    /\ inProgress' = Append(inProgress, NewFuture(Head(inQ)))
    /\ inQ' = Tail(inQ)
    /\ UNCHANGED <<numRows, readerVars, gpc, hand, outQ, writerVars, existing, exit>>

IsRunning(i) == inProgress[i].status = "running"

\* The geocoder answers.  `geocoded.chunks(0)` panics, so this needs a row.
GeocodeOk(i) ==
    /\ Polling /\ IsRunning(i)
    /\ inProgress[i].msg.lo < inProgress[i].msg.hi
    /\ inProgress' = [inProgress EXCEPT ![i].status = "ok"]
    /\ UNCHANGED <<numRows, readerVars, inQ, gpc, hand, outQ, writerVars, existing, exit>>

\* The geocoder answers for a chunk without rows: the process panics.
GeocodeEmpty(i) ==
    /\ Polling /\ IsRunning(i)
    /\ inProgress[i].msg.lo = inProgress[i].msg.hi
    /\ exit' = "panic"
    /\ UNCHANGED <<numRows, readerVars, inQ, geocodeVars, outQ, writerVars, existing>>

\* Faulty: the failure count wraps instead of ending the retries.
FaultyRetry(i) ==
    /\ Polling /\ IsRunning(i)
    /\ inProgress' = [inProgress EXCEPT ![i].failures = (@ + 1) % (MAX_RETRIES + 1)]
    /\ UNCHANGED <<numRows, readerVars, inQ, gpc, hand, outQ, writerVars, existing, exit>>

\* The geocoder fails and there are retries left.
GeocodeRetry(i) ==
    /\ Polling /\ IsRunning(i)
    /\ inProgress[i].failures < MAX_RETRIES
    /\ inProgress' = [inProgress EXCEPT ![i].failures = @ + 1]
    /\ UNCHANGED <<numRows, readerVars, inQ, gpc, hand, outQ, writerVars, existing, exit>>

\* Faulty: the chunk is discounted once for each of its failed calls.
FaultyFail(i) ==
    /\ Polling /\ IsRunning(i)
    /\ inProgress[i].failures = MAX_RETRIES
    /\ inProgress' = [inProgress EXCEPT ![i].status = "err"]
    /\ existing' = existing - (1 + inProgress[i].failures)
    /\ UNCHANGED <<numRows, readerVars, inQ, gpc, hand, outQ, writerVars, exit>>

\* The geocoder fails for good: the future ends and drops its chunk.
GeocodeFail(i) ==
    /\ Polling /\ IsRunning(i)
    /\ inProgress[i].failures = MAX_RETRIES
    /\ inProgress' = [inProgress EXCEPT ![i].status = "err"]
    /\ existing' = existing - 1
    /\ UNCHANGED <<numRows, readerVars, inQ, gpc, hand, outQ, writerVars, exit>>

\* Faulty: results are sent on in the order they complete (`buffer_unordered`).
FaultyEmit ==
    /\ Polling
    /\ \E i \in DOMAIN inProgress :
           /\ inProgress[i].status = "ok"
           /\ hand' = <<inProgress[i].msg>>
           /\ inProgress' = SubSeq(inProgress, 1, i - 1)
                                \o SubSeq(inProgress, i + 1, Len(inProgress))
    /\ UNCHANGED <<numRows, readerVars, inQ, gpc, outQ, writerVars, existing, exit>>

\* The oldest future is done: its message is taken to be sent on.
Emit ==
    /\ Polling /\ inProgress # <<>> /\ Head(inProgress).status = "ok"
    /\ hand' = <<Head(inProgress).msg>>
    /\ inProgress' = Tail(inProgress)
    /\ UNCHANGED <<numRows, readerVars, inQ, gpc, outQ, writerVars, existing, exit>>

\* Faulty: the chunks queued for the task are not dropped with it.
FaultyGiveUp ==
    /\ gpc' = "err"
    /\ existing' = existing - Owned(inProgress) - ChunksIn(hand)
    /\ inQ' = <<>> /\ inProgress' = <<>> /\ hand' = <<>>
    /\ UNCHANGED <<numRows, readerVars, outQ, writerVars, exit>>

\* The task ends with an error and drops everything it owns.
GiveUp ==
    /\ gpc' = "err"
    /\ existing' = existing - ChunksIn(inQ) - Owned(inProgress) - ChunksIn(hand)
    /\ inQ' = <<>> /\ inProgress' = <<>> /\ hand' = <<>>
    /\ UNCHANGED <<numRows, readerVars, outQ, writerVars, exit>>

\* The oldest future failed: `result?`.
EmitErr ==
    /\ Polling /\ inProgress # <<>> /\ Head(inProgress).status = "err"
    /\ GiveUp

\* `out_tx.send(..)` has room, or finds the writer gone.
OutSend ==
    /\ Running /\ gpc = "run" /\ hand # <<>> /\ ~WriterDone
    /\ Len(outQ) < CHANNEL_BUFFER
    /\ outQ' = Append(outQ, Head(hand))
    /\ hand' = <<>>
    /\ UNCHANGED <<numRows, readerVars, inQ, gpc, inProgress, writerVars, existing, exit>>

OutSendFail ==
    /\ Running /\ gpc = "run" /\ hand # <<>> /\ WriterDone
    /\ GiveUp

\* The in channel is closed and drained and every future was forwarded.
GeocodeEnd ==
    /\ Polling /\ inQ = <<>> /\ inProgress = <<>> /\ ReaderDone
    /\ gpc' = "ok"
    /\ UNCHANGED <<numRows, readerVars, inQ, inProgress, hand, outQ, writerVars,
                   existing, exit>>

FutureStep ==
    \E i \in DOMAIN inProgress :
        GeocodeOk(i) \/ GeocodeEmpty(i) \/ GeocodeRetry(i) \/ GeocodeFail(i)

Geocode == GeocodeTake \/ FutureStep \/ Emit \/ EmitErr \/ OutSend \/ OutSendFail \/ GeocodeEnd

-------------------------------------------------------------------------------
\* The writer thread: `write_csv_to_stdout`.

\* The records that the chunk m adds to the output, the header with the first.
Rows(m) == [j \in 1..(m.hi - m.lo) |-> m.lo + j]
Records(m) == IF headersWritten THEN Rows(m) ELSE <<0>> \o Rows(m)

Receive ==
    /\ Running /\ wpc = "run" /\ current = <<>> /\ outQ # <<>>
    /\ current' = <<Head(outQ)>>
    /\ outQ' = Tail(outQ)
    /\ UNCHANGED <<numRows, readerVars, inQ, geocodeVars, wpc, headersWritten,
                   written, flush, existing, exit>>

\* Every record of the chunk is written; the chunk is dropped.
WriteChunk ==
    /\ Running /\ wpc = "run" /\ current # <<>> /\ IsChunk(Head(current))
    /\ written' = written \o Records(Head(current))
    /\ headersWritten' = TRUE
    /\ current' = <<>>
    /\ existing' = existing - 1
    /\ UNCHANGED <<numRows, readerVars, inQ, geocodeVars, outQ, wpc, flush, exit>>

\* The thread ends: its Receiver drops what is queued, and dropping the
\* `csv::Writer` flushes its buffer and ignores an error.
WriterEnd(result, dropped) ==
    /\ wpc' = result
    /\ flush' \in {"done", "lost"}
    /\ existing' = existing - ChunksIn(outQ) - dropped
    /\ outQ' = <<>> /\ current' = <<>>
    /\ UNCHANGED <<numRows, readerVars, inQ, geocodeVars, exit>>

\* Writing fails after k records of the chunk.
WriteFail ==
    /\ Running /\ wpc = "run" /\ current # <<>> /\ IsChunk(Head(current))
    /\ \E k \in 0..(Len(Records(Head(current))) - 1) :
           /\ written' = written \o SubSeq(Records(Head(current)), 1, k)
           /\ headersWritten' = (headersWritten \/ k > 0)
    /\ WriterEnd("err", 1)

\* Faulty: a closed channel is taken for the end of the stream.
FaultyWriteNoEos ==
    /\ Running /\ wpc = "run" /\ current = <<>> /\ outQ = <<>> /\ GeocodeDone
    /\ WriterEnd("ok", 0)
    /\ UNCHANGED <<headersWritten, written>>

\* The end-of-stream message: the writer is done.
WriteEos ==
    /\ Running /\ wpc = "run" /\ current # <<>> /\ ~IsChunk(Head(current))
    /\ WriterEnd("ok", 0)
    /\ UNCHANGED <<headersWritten, written>>

\* The channel is closed and drained, and no end-of-stream was seen.
WriteNoEos ==
    /\ Running /\ wpc = "run" /\ current = <<>> /\ outQ = <<>> /\ GeocodeDone
    /\ WriterEnd("err", 0)
    /\ UNCHANGED <<headersWritten, written>>

Writer == Receive \/ WriteChunk \/ WriteFail \/ WriteEos \/ WriteNoEos

-------------------------------------------------------------------------------
\* Faulty: the writer's result is not looked at.
FaultyMainExit ==
    /\ Running /\ ReaderDone /\ GeocodeDone /\ WriterDone
    /\ exit' = IF "err" \in {rpc, gpc} THEN "err" ELSE "ok"
    /\ UNCHANGED <<numRows, readerVars, inQ, geocodeVars, outQ, writerVars, existing>>

\* `join3` has all three results: one error is enough to fail.
MainExit ==
    /\ Running /\ ReaderDone /\ GeocodeDone /\ WriterDone
    /\ exit' = IF "err" \in {rpc, gpc, wpc} THEN "err" ELSE "ok"
    /\ UNCHANGED <<numRows, readerVars, inQ, geocodeVars, outQ, writerVars, existing>>

Terminated == ~Running /\ UNCHANGED vars

Next == Reader \/ Geocode \/ Writer \/ MainExit \/ Terminated

Spec == Init /\ [][Next]_vars

\* The threads are scheduled, the task is polled when it can proceed, geocoder
\* calls return, and stdin and stdout do not block for ever.
Fairness == WF_vars(Reader) /\ WF_vars(Geocode) /\ WF_vars(Writer) /\ WF_vars(MainExit)
FairSpec == Spec /\ Fairness

-------------------------------------------------------------------------------
\* Properties.

TypeOK ==
    /\ numRows \in 0..MaxRows
    /\ rpc \in {"setup", "read", "sendChunk", "sendFinal", "sendEos", "ok", "err"}
    /\ rlo \in Nat /\ rnext \in Nat /\ rlo <= rnext /\ rnext <= numRows
    /\ sentChunk \in BOOLEAN /\ madeFinal \in BOOLEAN
    /\ inQ \in Seq(Message) /\ Len(inQ) <= CHANNEL_BUFFER
    /\ gpc \in {"run", "ok", "err"}
    /\ inProgress \in Seq(Future) /\ Len(inProgress) <= CONCURRENCY
    /\ hand \in Seq(Message) /\ Len(hand) <= 1
    /\ outQ \in Seq(Message) /\ Len(outQ) <= CHANNEL_BUFFER
    /\ wpc \in {"run", "ok", "err"}
    /\ current \in Seq(Message) /\ Len(current) <= 1
    /\ headersWritten \in BOOLEAN
    /\ written \in Seq(Nat)
    /\ flush \in {"no", "done", "lost"}
    /\ existing \in Int
    /\ exit \in {"running", "ok", "err", "panic"}

\* The header, then the rows in input order, each once: whatever order the
\* geocoder calls finish in and whichever process fails (`.buffered`, line 165).
OutputInOrder == written = [i \in 1..Len(written) |-> i - 1]

\* The writer succeeds only after it wrote the header and every row: an
\* end-of-stream that reaches it has overtaken nothing and was sent by a reader
\* that saw the end of its input (`end_of_stream_seen`, lines 372 and 377).
EosMeansComplete == wpc = "ok" => Len(written) = numRows + 1

\* `assert!(headers_written)` of the writer (line 371) holds.
HeadersBeforeEos ==
    current # <<>> /\ ~IsChunk(Head(current)) => headersWritten

\* The chunks that exist: the reader's, the queued, the ones in flight, the
\* writer's.
LiveChunks ==
    ReaderHolds + ChunksIn(inQ) + Owned(inProgress) + ChunksIn(hand)
        + ChunksIn(outQ) + ChunksIn(current)

\* The comment at lines 37-43 counts right, without the 10 chunks of allowance:
\* the result being sent on still takes the place of one of the workers'.
Backpressure == LiveChunks <= CHANNEL_BUFFER * 2 + CONCURRENCY + 2

\* TOTAL_CHUNKS_EXISTING is the number of chunks, but for the final one, which
\* `Drop` discounts and nothing counted (lines 84-108 and 320).
Uncounted == IF madeFinal THEN 1 ELSE 0
CounterAccounts == existing = LiveChunks - Uncounted

\* Neither panic on TOTAL_CHUNKS_EXISTING happens: `Chunk::new` never finds more
\* than MAX_EXPECTED_CHUNKS, `drop` never finds a negative count.
CountsSafely ==
    /\ existing' > existing => existing <= MAX_EXPECTED_CHUNKS
    /\ existing' < existing => existing' >= -1
CounterNeverPanics == [][CountsSafely]_vars

\* The pipeline is a filter as CsvFilter describes it: what reaches the
\* `csv::Writer` only grows, in order, and success means it is complete.
Filter == INSTANCE CsvFilter WITH output <- written
ImplementsFilter == Filter!Spec

\* `geocode_stdio` ends, however its three processes fail: nobody waits for ever
\* on a full channel, an empty one, or one whose other end is gone.
Termination == <>(exit # "running")

\* "Send a final chunk if ... we never sent a chunk" (lines 316-317): an input
\* that has only a header is geocoded like any other.
HeaderOnlyInput == exit # "panic"

\* "We use an atomic counter to keep track of how many chunks currently exist"
\* (line 67).
CounterCountsChunks == existing = LiveChunks

\* "If geocoding succeeds, geocode-csv will return 0. If it fails, it will return
\* a non-zero error code" (README.md): exit 0 means that stdout has the output.
SuccessReachesStdout == exit = "ok" => flush = "done"
===============================================================================
