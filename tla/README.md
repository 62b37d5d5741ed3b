# Verification of geocode-csv

`geocode-csv` reads a CSV file from standard input, has the addresses in each
row geocoded, and writes the rows, with the geocoder's columns added, to
standard output. This directory models the parts of it where order, failure and
concurrency make it hard to test, checks them with TLC and proves with TLAPS, for
all values of the constants, every safety property that the runs check and the
three refinements of abstract specifications. Paths are relative to the
repository's root, which is `src/` here: `src/src/pipeline.rs` is
`src/pipeline.rs` of the repository.

Contents: [the system](#the-system), [the modules](#the-modules),
[the runs](#the-runs), [the proofs](#the-proofs),
[what is not covered](#what-is-not-covered), [the plan](#the-plan).

## The system

    stdin -> reader thread -> in channel -> geocode task -> out channel -> writer thread -> stdout
                                               |
                            Paired -> Normalizer -> InvalidRecordSkipper -> Cache -> Smarty or LibPostal
                               |          |                                   |         |
                           libpostal  libpostal                       Redis or BigTable  HTTP

| Component (source) | State it keeps | Operations | Talks to |
|---|---|---|---|
| CSV pipeline (`src/pipeline.rs`, `src/async_util.rs`) | two bounded channels, the ordered buffer of up to 48 futures, `TOTAL_CHUNKS_EXISTING` | `geocode_stdio`, `read_csv_from_stdin`, `geocode_message`, `geocode_chunk`, `write_csv_to_stdout`, `Chunk::new`, `Chunk::drop` | messages on the channels; calls the geocoder; a channel end that is dropped wakes the other |
| Address columns (`src/addresses.rs`) | the specification, first by name, then by index | `from_path`, `duplicate_columns`, `convert_to_indices_using_headers`, `prefixes`, `extract_address_from_record` | called by reader and geocode task |
| Geocoder trait (`src/geocoders/mod.rs`) | column names, a cache prefix | `geocode_addresses`, `add_header_columns`, `add_value_columns_to_row`, `add_empty_columns_to_row` | the pipeline, and each other |
| Cache (`src/geocoders/cache/`) | a shared key/value store | `geocode_addresses`: get, geocode the misses, set | the store, shared with other calls and processes; the inner geocoder |
| Key/value stores (`src/key_value_stores/`) | a pool of connections, a key prefix | `new_from_url`, pipelined get and set | Redis, BigTable |
| Skipper, Normalizer, Paired, LibPostal (`src/geocoders/*.rs`) | none | `geocode_addresses` | inner geocoders |
| Smarty (`src/geocoders/smarty/`, `src/unpack_vec.rs`) | HTTP client, rate limiter, the table of columns | `geocode_addresses`, `street_addresses`, `unpack_vec`, `Structure` | an HTTP service; the limiter all calls share |
| libpostal (`crates/libpostal-rust`, `crates/libpostal-sys`) | GLOBAL_LOCK with `InitializationState`, data directory | `parse_address`, `expand_address` | a C library that is not thread safe |
| NewRelic exporter (`crates/metrics-exporter-newrelic`) | registry of atomics, metadata under an async lock | `report`, counter and histogram updates | an HTTP service; every thread counts |
| opinionated_metrics (`crates/opinionated_metrics`) | which exporter it is | `install`, `report` | NewRelic's exporter, or Prometheus's, whose text it logs |
| Server mode (`src/server.rs`) | the geocoder | POST /geocode | the geocoder, by concurrent requests |
| Command line (`src/main.rs`) | options, rate limiter | builds the stack, runs one of the modes, reports metrics once at its end | everything |

What is hard about it:

- **Order.** Calls finish in any order, chunks are retried, and the output must
  be in input order. Answers are matched to addresses by position in several
  layers, each with its own list of indices.
- **Failure of one of several.** Reader, geocode task and writer can each fail
  at any time, while the other two are blocked on a channel or still working.
  Half-finished calls are dropped.
- **Bounds.** The number of chunks in memory is asserted at run time by a global
  counter that is incremented in one place and decremented in `Drop`.
- **Shared state.** The cache is shared by calls and processes without locks, and
  Redis connections by one call after the other, also after a call that was
  dropped half-way; libpostal is behind one lock that a panic poisons; metrics change while they
  are reported.
- **Lost requests and replies**, to the store, the geocoder and NewRelic.

What makes each component correct: for the pipeline, its output is the
geocoded input in order, whatever fails it ends, and it succeeds only if the
output is complete; for the columns, each cell is in its own row under its own
column; for the stores, a get returns a
value for each key in the order of the keys; for the cache, what one call saved is
sound for every other, and nothing in the cache is geocoded again; for libpostal, one thread at a time and set up
once; for the stack of geocoders, each address has its own answer or none, and
no list waits for permits for ever; for the reports, nothing is lost, counted
twice, or underflows.
`PROJECT.json` lists the hazards with the lines they are at, and for each the
properties that cover it or why none does.

## The modules

Each definition's lines in the source are in `PROJECT.json` under `map`.
Definitions named `Faulty...` are not part of a model: each is an action or
operator with a plausible mistake in it. With one of them in place of the
original, the properties that PROJECT.json names must fail, which shows that
they depend on that code.

### CsvFilter: what a run promises

The output grows in input order; the process ends with success only when the
header and all rows are in it. It has no channels, chunks or threads.

### Pipeline: `geocode_stdio`

Rows are numbers, record 0 is the header line, and a chunk is an interval of
rows. What a geocoder returns is left out, only whether it succeeds.

| In the model | In the code |
|---|---|
| `rpc`, `rlo`, `rnext`, `sentChunk`, `madeFinal` | the reader thread: where it is, the rows in `rows`, `sent_chunk`, whether the final chunk was made |
| `inQ`, `outQ` | the channels, of CHANNEL_BUFFER messages |
| `inProgress` | the ordered buffer of `.buffered(CONCURRENCY)`, with the number of failures of each call |
| `hand` | the result that `out_tx.send` is waiting to deliver |
| `current`, `headersWritten`, `written`, `flush` | the writer thread, and what became of the last flush of the `csv::Writer` |
| `existing` | `TOTAL_CHUNKS_EXISTING` |
| `exit` | the exit status, after `join3` |

`Reader` has an action per step of `read_csv_from_stdin`: setting up, reading a
row, a bad record, the end of the file, and sending, which blocks on a full
channel and fails on a closed one. `Geocode` has one for taking a message into
the buffer, the steps of each future (success, retry, failure, the panic of an
empty chunk), taking the oldest result out of the buffer, and sending it or
giving up. When the task gives up, its channel ends, the buffer and the chunks
in them are dropped; that is part of the action. `Writer` writes a chunk,
possibly only some of its records, sees the end-of-stream or its absence, and
ends. `MainExit` is the end of `geocode_stdio`.

The futures progress only while the task polls them, that is, while `hand` is
empty. The blocking sleep of a retry is a delay like any other.

### Positions: the elements that pass a test

Three loops of the program keep the elements of a list that pass a test, and
remember or forget where they were: the skipper's and the cache's lists of
indices, and `remove_columns`. `Positions` is the list of indices in increasing
order, and `Selected` the list of what is there. Rows, Stores and Geocoders share
them.

### Rows: what becomes of a row

Begins with the file of `--spec`: members of the JSON object, in their order,
each with fields that are a column's name, a list of names, or null. `FromPath`
checks them as serde and `try_from` do, with the aliases of the fields, and
`FromPathFails` is every error; a member that comes twice replaces the first.
That serde also accepts an array in place of the object of an address is left
out.

Then it follows one table from its header to its last row, with cells that say
where they come from. `ReadHeader` finds duplicate columns, computes
`remove_column_flags`, removes columns and then converts names to indices;
`AddHeaderColumns` is the loop over the prefixes for the header, `AddColumns` the
loop over the slices of answers for the rows; `ReadRow`, `EndOfFile`, `Geocode`
and `WriteChunk` are the rest of a chunk's way. Texts are sequences of words,
which is what `extract_from_record` joins and compares (its `ends_with` on
characters is a comparison of words). `FullName` is `prefix_column_name`. Chunks are processed one by one here, as
order among them is Pipeline's subject. The prefix order is a constant: the order
of `sort_unstable`.

### KeyValueStore: what a store promises the cache

A get reads each of its positions once, at some time while it is under way (any
number of them at one moment), and returns what it read in the order of the keys.
A set writes each of its entries at some time after it started. When it succeeds
it has written all of them if the store is `reliable`, as Redis is and BigTable
(whose reports on the entries are not looked at) is not. What a call that failed
or was dropped has not written may be written later, or never. Nothing else
changes a row.

### Stores: Redis and BigTable

`NewRedis`, `NewBigTable` and `UnknownScheme` are `new_from_url`. A call builds its
pipeline (`NewPipelined`), and executes it.

| In the model | In the code |
|---|---|
| `request`, `phase`, `result` | the pipeline, where its `execute` is, what it returned |
| `via` | the connection that `self.redis.client()` took from the pool, or BigTable's stream |
| `server`, `replies` | per connection, what the server is still to execute, and what nobody has read |
| `late` | commands of connections that are closed |
| `CheckOut`, `Discard` | the pool (bb8, external): it pings a connection before it hands it out, and replaces it if the answer is not PONG |
| `ReturnRedis` | the replies in the order of the commands |
| `Unpack`, `ReturnBigTable` | the rows that were found, put back by key at every index in `row_key_indices` |
| `Fail`, `Drop` | an error, the future dropped: the connection goes back as it is |

A request to Redis is written whole or not at all. BigTable's checks of family
and qualifier are part of `Fail`; the assertion in debug builds that a response
has less than a megabyte is left out. `Contract` maps this to KeyValueStore.

### CacheKeys and Cache: concurrent calls over a shared store

CacheKeys is `cache_key` with the escaping of colons and the lower case,
`cache_prefix`, and `eq_ignore_ascii_case`, on texts that are sequences of
characters. Cache has `KeyOf`, a function on geocoders and addresses; its
instances compute it with CacheKeys, over pairs that are easily confused.

`Start`, one `Read` for each entry, then `ReadBad`, `HitsSuffice` or `CallInner`
and `Geocode`, one `SaveOne` for each command of the set request, and `Saved`. The
commands of a request are executed one by one and may interleave with another
call's; Redis keeps their order. `CallFail` is an error of the store or the inner
geocoder, also after everything was executed; the retry of `geocode_chunk` is
part of it. `Dropped` is a future that is dropped, or a process that is killed. A
call that no longer waits may leave commands behind, which `SaveLate` executes at
any time. `STORE` says which of the two stores it is: Redis applies the prefix,
BigTable does not, and reports on each entry it writes in a response that the
code does not look at. An entry has the id of its compression
(`compression.rs`): copying, or another one, which is an error; the values are an
answer, or old values with null bytes.

### NewRelic: reports of metrics

`InstallNewRelic` and `InstallPrometheus` are `opinionated_metrics`'s choice.
`Increment` and `RecordSample` are the program, at any time; a counter is
registered by its first increment. `Render` is the report of the Prometheus
exporter, which is logged. A report to NewRelic waits for the lock and takes the
handles of the counters registered by then (`Lock`), loads one counter after the
other (`Load`), takes the samples (`ClearBucket`), and its request is delivered or
not (`Deliver`) and confirmed or not (`Confirm`, `HttpError`,
`UnexpectedHttpStatus`). `Cancel` drops the future at one of its awaits. The
program itself reports once, at the end of `main`, and never in server mode; the
handle allows several reports at a time, which is what the comments in `report`
are about.

Samples have their numbers as values, so that a count and a sum show which ones
arrived. `previous_timestamp` is left out: the code sets it once and never again,
although its comment says that it is the time of the last report
(`crates/metrics-exporter-newrelic/src/lib.rs:111`).

### Libpostal: calls into the C library

`Lock` or `LockPoisoned`, then initialization of what is missing (`ProbeFails`,
`EnterSetup`, `SetupSucceeds`, `SetupFails`), then the call (`NulByte`, `EnterC`,
`ExitC`, `BadUtf8`). `Leave` drops the guard, and poisons the lock if the
function is panicking. C is assumed not to answer with a null pointer.

### GeocoderContract: what the trait `Geocoder` promises

A call ends once, with an error or with one result for each of its addresses, in
their order, each for that address and under the announced columns. This is what
Pipeline and Cache assume of the geocoder they call.

### Geocoders: a call through the stack

`main` from its arguments to its end, with one action for each geocoder it
stacks, and calls through the stack that share Smarty's rate limiter. `options`
is the command line, and says which layers there are; `boot` is where `main` is,
and `columns` the column names of what it has stacked so far.

| In the model | In the code |
|---|---|
| `ParseArguments`, `UsageError`, `ReadSpec`, `InstallMetrics`, `StartFails` | `main` up to the geocoders; its errors end it without a report |
| `NewSmarty`, `NoCredentials`, `NewLibPostal`, `NewCache`, `NewSkipper`, `NewNormalizer`, `NewPaired` | the stack, from the inside to the outside |
| `Prime`, `ListenFails`, `RunCommand`, `Finish`, `Report` | the command, and the report of metrics after it. A server never finishes |
| `Structure`, `ValueColumns` | `smarty/structure.rs`: paths from the table of keys, and what an answer has at them |
| `addresses`, `current` | the list the caller has, and the list the skipper gets, normalized or not |
| `Normalize`, `NormalizeFails` | `Normalizer`: libpostal parses each address, `normalized_to_address` puts it together again |
| `ValidAddresses`, `OriginalIndices`, `SkipAll`, `Restore` | `InvalidRecordSkipper`, before and after the inner call |
| `hits`, `MissOffsets`, `CacheResults` | the cache, by what it promises: any of the addresses may be known |
| `Send`, `Reply`, `BadReply`, `RequestFails` | `Smarty`: permits and request; `unpack_vec` and `value_columns_for` on the reply |
| `ParseValid`, `ParseFails` | `LibPostal` in Smarty's place |
| `Pair`, `PairFails`, `Combine` | `Paired`, whose second geocoder gets the addresses as they were at first |
| `tokens`, `Refill` | the rate limiter |
| `Arrive`, `BadRequest`, `Respond`, `RespondError`, `Body` | `handle_post_geocode`, and before it axum's checks of content type and body; without a server, the pipeline that calls |
| `Drop` | the future is dropped at one of its awaits that wait |

Everything between two awaits that may wait is one step. Texts are sequences of
words, as in Rows, and a value from Smarty is the pair of the address it is for
and its column, so that a value at a wrong place shows. What libpostal finds in a
text is the parameter `Parse`. A reply is any sequence of answers with any
indices. The limiter is taken to be as the comment in `main.rs` says: a list
waits until there are permits for all of it. In server mode, requests are assumed
to fit into the bucket.

### MC modules

`MCPipeline`, `MCRows`, `MCCache`, `MCStores`, `MCGeocoders`, `MCNewRelic` and
`MCLibpostal` give the instances of the runs, with the reasons for their bounds.

## The runs

| Run | Distinct states | What it shows |
|---|---|---|
| Pipeline | 82,714 | `OutputInOrder`, `EosMeansComplete`, `HeadersBeforeEos`, `Backpressure`, `CounterAccounts`, `CounterNeverPanics`; it implements CsvFilter (`ImplementsFilter`); it always ends (`Termination`) |
| Rows | 110,406 | `CellsUnderHeaders`, `HeaderKeepsNames`, `NoDuplicateColumns`, `BatchFits` |
| Stores | 38,151 | both stores implement KeyValueStore (`KeepsContract`); no call waits for ever for a connection (`CallsEnd`) |
| Cache | 130,779 | `StoreSound`, `ResultsSound`, `DoneIsSaved`, `NoNeedlessGeocoding`, `CallsEnd` |
| Geocoders | 168,819 | `SentHaveStreets`, `EveryAnswerKept`, `ResponseNamesValues`; it keeps the contract of the trait (`HonoursContract`); `CallsEnd` |
| NewRelic | 58,761 | `NoUnderflow`, `NothingLost`, `SamplesSentOnce`, `ReportsReturn` |
| Libpostal | 29,318 | `OneThreadInC`, `SetUpOnce`, `ReadyInC`, `PoisonedForGood`, `CallsReturn` |

Each also checks its module's `TypeOK`. Five more runs each show that what the
repository says of the program is not so:

| Run | Property that fails | Why |
|---|---|---|
| PipelineHeaderOnly | `HeaderOnlyInput` | An input with a header and no rows gets its final chunk, with no rows, and `geocoded.chunks(0)` panics (`src/pipeline.rs:468`) |
| PipelineCounter | `CounterCountsChunks` | The final chunk is not made with `Chunk::new` (`src/pipeline.rs:320`), but its drop is counted: the counter is one too low from then on |
| PipelineStdout | `SuccessReachesStdout` | The `csv::Writer` is dropped without a flush (`src/pipeline.rs:385`), so an error in writing the last records goes unnoticed |
| CachePrefix | `PrefixIsolates` | The BigTable store ignores `--cache-key-prefix` (`src/key_value_stores/bigtable.rs:170` and `297`) |
| NewRelicCounts | `NeverOverCounted` | What is remembered for the next report is the difference that was reported, not the counter (`crates/metrics-exporter-newrelic/src/lib.rs:191`): counts of 1, 1, 1 are reported as 1, 0, 1 |

### Bounds

- **Pipeline**: one slot per channel, two workers, chunks of two rows, up to 13
  rows, one retry. Every queue can be full at once and more chunks than they
  hold are left, two futures finish in either order, the last chunk is full,
  partial or missing, and a chunk can fail, be retried and fail again. SLACK is 0:
  the allowance of 10 chunks that the code makes is not needed.
- **Rows**: up to three rows in chunks of two or four, six headers (output
  columns before, between and after the others, repeated ones), ten files (none
  to two prefixes, one prefix twice, prefixes whose announced names collide, a
  specification of a column that may be removed, and five that are refused, each
  for another reason), the three policies.
- **Stores**: two calls on a pool of one connection (`POOL_SIZE`), so that one
  finds what the other left in it; two keys, requests in another order than that
  of the keys and with a key twice; two values, so that an old one shows.
- **Cache**: two calls, three addresses with two keys and two configurations, so
  that there are keys of others to take by mistake; batches with two keys and with
  one key twice; one retry; a row that may have an old entry of either kind
  (`OldSlots`); one address is found, one is not and one may be (`Found`); at most
  one command that is executed late at any time (`MAX_LATE`). Interactions are
  between two calls over one key or two.
- **Geocoders**: two calls, so that one can take permits the other waits for;
  lists of up to three addresses, among them one that normalization gives a
  street, one that it takes it from, one that stays invalid and one that libpostal
  rejects; replies of up to two answers, which is less than, as many as or more
  than were asked for (`MaxReply`), with every index up to one too large; five
  command lines, in which every layer is there and is not. `GEOCODE_SIZE` is 2 and
  the rate 1, so that a chunk may need all permits of a bucket as it starts, and
  two chunks more than there are.
- **NewRelic**: two reporters, three reports, the least in which what is
  remembered can go wrong and show; two counters, so that one can be registered
  during a report, of which only one is counted up: what is said of a counter does
  not depend on the others. The counters and reports are bounded, so the
  system stops at the bounds and deadlock is not checked in this run.
- **Libpostal**: three threads, so that two wait while one fails.

### Fairness

Safety properties need none. The liveness properties assume:

- Pipeline: weak fairness of reader thread, geocode task, writer thread and main.
  The operating system schedules threads, tokio polls a task that was woken, a
  call to a geocoder returns an answer or an error, stdin and stdout do not block
  for ever. Nothing is assumed about which outcome a call has. The code sets no
  timeout on HTTP requests, so that calls return rests on the network stack.
- Stores: weak fairness of each call and of each connection's server. That the
  pool gives up after some time is not used.
- Geocoders: weak fairness of `main`, of the limiter's refilling and of each call. A call
  that waits for permits needs no more than that: permits accumulate while nobody
  else takes them, and the calls are finite in number.
- Cache, NewRelic: weak fairness of each call or report that is under way, with
  either outcome.
- Libpostal: strong fairness of each thread in a call, as other threads take the
  lock in between: a `std::sync::Mutex` is not fair, but a thread that waits for
  it is not passed over for ever by threads that each hold it for a short while.

## The proofs

Each component's proofs are in a module of their own. No theorem has a hypothesis
that the system does not always fulfil, but for two that say so (`ResultsAreSound`,
`PrefixesIsolateInRedis`). They rest on the assumptions about the constants in the
modules, which the runs' instances fulfil too:

| Module | Assumptions | Why the code justifies them |
|---|---|---|
| Pipeline | positive sizes, any number of rows, retries and prefixes | they are positive constants in `pipeline.rs` |
| Rows | `TableAssumption`: lines as long as the headers | the csv reader is not flexible, and refuses a record of another length (`ReadError`) |
| | `ColumnAssumption`: `PrefixOrder` lists each prefix once; for one prefix, other columns have other full names | `prefixes` are the keys of a map; a full name is the prefix, an underscore and the column |
| | `FileAssumption`, `SizeAssumption`: a file is a list of members with fields; `GEOCODE_SIZE` is positive | the JSON syntax; a constant of `pipeline.rs` |
| Stores | `KeyAssumption`: `Keys` lists each key once | it is the order in which BigTable returns rows |
| | `RequestAssumption`: a value for each key that is set | `add_set` takes both |
| | `UrlAssumption`, `PoolAssumption`, `ValueAssumption`: a URL has these parts; the pool is not empty; values can be told from their absence | types |
| Geocoders | `CompleteAssumption`: a table of columns that are nested once | `traverse` refuses any other, and `complete.json` is compiled in |
| | `ColumnAssumption`: Smarty's columns differ, also from the cache's key column | a column is named by its last key in `complete.json`; these all differ, and none is `cache_key` |
| | `RequestAssumption`: requests fit into the bucket | the pipeline's do (`BatchFits`); for server mode it is an assumption, see below |
| | `AnswerAssumption`, `OptionAssumption`, `SizeAssumption` | types, and a positive constant |
| Cache, Libpostal, NewRelic | of what kind constants are, and that `None` or `Nobody` is none of the others | types |

### The pipeline

`PipelineProofs` has the proofs about Pipeline, for
every number of slots, workers, rows, prefixes and retries. They rest on the
assumptions in Pipeline (`CapacityAssumption`, `SizeAssumption`,
`BoundAssumption`): the constants are natural numbers, positive where the code's
are. `MaxRows` may be any natural number, so it is no restriction.

| Theorem | Property | |
|---|---|---|
| `ChunkSizeAsserted` | | the assertion on `chunk_size` in `read_csv_from_stdin` |
| `TypeCorrect` | `TypeOK` | |
| `OutputAlwaysInOrder` | `OutputInOrder` | |
| `WriterSuccessIsComplete` | `EosMeansComplete` | |
| `HeadersAsserted` | `HeadersBeforeEos` | |
| `PipelineImplementsFilter` | `ImplementsFilter` | the refinement of CsvFilter |
| `CounterIsAccountedFor` | `CounterAccounts` | |
| `BackpressureWorks` | `Backpressure` | |
| `CounterPanicsNever` | `CounterNeverPanics` | |

**Order.** That the output is in order does not follow from itself: whether the
next chunk to write is the right one depends on everything behind it in the
pipeline. `OrderInv` says that the messages from the writer back to the reader
form one chain. A message takes up the records `Before + 1` to `After` of the
output; `Chain` says that a queue starts where the one nearer the output ends
(`E1` to `E5`) and has no gap; and what the reader sends next continues the last
queue (`E5 = Sent`). An end-of-stream takes up no records and belongs after the
last one, which is why a writer that sees it has written everything. Each part is
claimed only while the process it concerns is running, because a process that
fails drops what it has. `StepOrder` shows that every action preserves it, one
lemma per process; Theorem `Ordered` follows, and the other four from it.

**The counter.** `CountInv` has the equation between `existing` and the chunks
that are held somewhere, and the sizes of the places that hold them. Moving a
message changes two terms of the sum; the lemmas `ChunksInAppend`,
`ChunksInTail`, `OwnedAppend`, `OwnedTail` and `OwnedReplace` say by how much, and
rest on facts on the cardinality of sets of indices. The buffer of futures and
the result being sent on are together at most CONCURRENCY, so that there are at
most `CHANNEL_BUFFER * 2 + CONCURRENCY + 2` chunks: the comment on
`MAX_EXPECTED_CHUNKS` is right, and without its allowance of 10. As the counter
is never more than the number of chunks, neither panic can happen.

### The cache

`CacheProofs` is about any number of calls, of either store, with any batches,
keys and options; it rests on the assumptions in Cache, which say of what kind the
constants are and that entries can be told from their absence.

| Theorem | Property | |
|---|---|---|
| `TypesOK` | `TypeOK` | |
| `EntriesAreSound` | `StoreSound` | |
| `ResultsAreSound` | `ResultsSound` | if no two configurations, and no two addresses that differ by more than case, share a key |
| `DoneMeansSaved` | `DoneIsSaved` | |
| `NothingIsPaidTwice` | `NoNeedlessGeocoding` | |
| `PrefixesIsolateInRedis` | `PrefixIsolates` | if the store is Redis; for BigTable the run CachePrefix has a counterexample |

Nothing that is written is ever unsound (`GoodSet`: an answer under its own key, in
the inner geocoder's columns), whoever writes it and however late, so that rows are
sound and a usable row stays usable (`WriteFacts`). That is all a call needs from
the others (`OtherCall`). What a call itself knows is in `CallOK`: what it read was
in the row and, if it was usable, still is (`Reading`); an address has an answer
that is saved or it is among the misses (`Geocoding`), then an answer that is saved
or about to be (`Saving`). With Redis nothing is left to be saved when a call
succeeds, which is `DoneIsSaved`; with BigTable something may be, and nothing is
claimed. That keys are not shared is a hypothesis of `ResultsAreSound`, since two
bytes of a hash cannot guarantee it. The run Cache checks the property with keys
computed as the code computes them.

### Libpostal

`LibpostalProofs` is about any number of threads, for both functions and all ways
to fail. Its five theorems are `TypesOK`, `Exclusion` (`OneThreadInC`),
`SetUpOnceOnly` (`SetUpOnce`), `SetUpBeforeUse` (`ReadyInC`) and `PoisonLasts`
(`PoisonedForGood`). Exclusion follows from who has the lock in which place of the
code; that components are set up before use from what a thread has passed on its
way with the lock held, during which nobody else changes the state.

### Lists and positions

`PositionsProofs` says what `Positions` and `Selected` are for lists of any length.
`PositionsListed`: the k-th position is the one up to which there are k
(`Rank`), and they increase. That there is a k-th for every k up to their number
is an induction over the list, and the prover cannot use the library's induction
theorems, which are about an operator. It can use their well-foundedness for a set,
which is enough: `LeastNatural` (a set of numbers has a least one) and `Induction`
(a set that has 0 and with each number the next has all) take a set in place of
the predicate. `PositionsUnique` is the reverse, a list with these properties is the
list of positions. `PositionsComposed` is about positions in a list of positions:
the misses of the cache among the valid addresses are at the ranks of the valid
addresses that were missed.

The module has also the facts about lists that the others need: that a list is
given by its length and elements (`ListIsRow`, `Joined`), and that the folds of the
community modules, which are recursive over sets of positions, are what the loop
over the list computes (`AllUpTo`).

### Rows

`RowsProofs` is about any files, headers, columns, lines and chunk sizes.

| Theorem | Property |
|---|---|
| `Typed` | `TypeOK` |
| `CellsPlaced` | `CellsUnderHeaders` |
| `NamesStay` | `HeaderKeepsNames` |
| `ColumnsDiffer` | `NoDuplicateColumns` |
| `ChunksFit` | `BatchFits` |

That a cell is under its column depends on three computations that know nothing of
each other: `remove_columns` on header and rows, the indices that names are
converted to, and two loops that append the columns of one prefix after the other,
one to the header and one to the rows, where the answers of a row are one in each
slice of a list. `HeaderIs(h, m)` says what the header is when the columns of m - 1
prefixes are there, and which positions are whose: no position is anyone else's.
`Filled(row, n, w)` says that the first w cells of a row belong under these
headers; `ChunkLaidOut` claims this for the rows of a chunk while the loop is at a
prefix, with `Answered`: the answer for the r-th row of k and the m-th prefix is at
(m - 1) * k + r, and about that row. An address is built from cells found by the
new indices in a row without the removed columns; `SamePlace` says that they are the
cells which the names of the specification had in the file, because removal spares
all columns of a name or none, and a name that is used twice in what is left is an
error. `JoinType` is an induction over the names of a key. `Invariance` has one lemma
for each action.

### The stores

`StoresProofs` is about any pool, any number of calls and all requests. `Typed` has
`TypeOK`, and `Kept` is `KeepsContract`: each step of either store is a step of
KeyValueStore or changes nothing of it.

The refinement mapping says of a get which positions it has read (`Got`), and the
trait promises them in the order of the keys. Neither store has them in one place: the
values are in the replies of a connection, or of a stream in any order and for each
key once, and what has not been read is to be found only in the commands at a
server. `IInv` therefore says where they are. With Redis the replies in the connection
of a call and the commands that are left are together its request, in order
(`Paired`), which is why a connection has to be clean before it is handed out: a
reply that another call left would shift all others. With BigTable, each key is asked
once and replied to at most once (`KeysApart`), and what is missing is None. A
command that is still somewhere after its call failed or was dropped is one the call
was asked for (`WellFormed`, `LateInv`), so that it may be executed late, but is
nothing that nobody asked for. The step proofs then go through the actions and show
for each what becomes of `Got` and of the writes that are left.

### The stack of geocoders

`GeocodersProofs` is about any command line, table of columns, size of the bucket,
number of calls and lists of addresses.

| Theorem | Property |
|---|---|
| `Typed` | `TypeOK` |
| `Sent` | `SentHaveStreets` |
| `AnswersKept` | `EveryAnswerKept` |
| `Named` | `ResponseNamesValues` |
| `Honoured` | `HonoursContract`, the refinement of GeocoderContract |

The layers hand on lists in which an address has a new position each time: among the
valid ones for the skipper, among the missed ones for the cache, and at some
`input_index` of the reply. `FinalRow(o, as, cu, h, g, i)` says what the stack
should return for the i-th address, by way of ranks and without lists, given the
hits h and the answers g that Smarty or libpostal gave; `PutBackRow`,
`CacheResultsAre` and `SentIs` say that what each layer does with its list of
indices agrees with it. The invariant says, for each stage a call can be in, that
its variables are what the layers before made of its addresses (`GoodCall`), for
some hits and answers, and what `main` has announced so far (`GoodBoot`). From it
the results of a call that ends are for the right addresses (`AnswerKept`), and have
as many cells as columns were announced (`FinalRowIs`), which is what
the contract of the trait asks for. The two parts of the announced columns differ, and
so a hash of a row, which is what a response of the server is, loses no value
(`Named`).

### Reports

`NewRelicProofs` is about any counters, any number of reporting tasks and any
number of reports. `NeverUnderflows` (`NoUnderflow`) says that the subtraction in
`report` is safe, although what is remembered is not what was loaded;
`NothingIsLost` (`NothingLost`) that NewRelic was told of at least what the last
confirmed report counted. The invariant: a task has loaded something only while it
has the lock (`Exclusive`), what is remembered is at most what is loaded, which is at
most what is counted (`Ordered`), and NewRelic was told at least what is
remembered and what is confirmed, and, once a request has arrived, what it has
loaded (`Told`). That there is no upper bound is the finding NewRelicCounts.

`SamplesOnce` (`SamplesSentOnce`) says that no sample is in two summaries; `Typed`
has `TypeOK`. There is at most one request that may still arrive (`Exclusive`), and
what is in the bucket, in that request (`Pending`) and in the summaries that
arrived is together no more than was recorded, in number and in sum (`SentOnce`).
Sums are folds: `TotalJoined`, the sum of two lists one after the other, is an
induction over the second.

### What is only model-checked

- Liveness (`Termination`, `CallsEnd`, `CallsReturn`, `ReportsReturn`), which is
  beyond the prover.
- That keys which `CacheKeys` computes are distinct: it is about texts character by
  character, and is checked for the pairs in MCCache.
- The abstract specifications' own meaning: CsvFilter, KeyValueStore and
  GeocoderContract are refined and not proved about.
- `PrefixIsolates` for BigTable and the four other properties of the table of
  findings are false.

## What is not covered

- What addresses, answers and columns say; how they are formatted, encoded or
  compressed (zstd in `compression.rs`, the bincode format, JSON).
- Server mode does not limit the number of addresses in a request, only the bytes
  of its body (`src/server.rs:53`): one with more addresses than the bucket has
  permits is outside of the model, as is a rate of 0.
- Real time: the waits between retries, the blocking sleep that stalls the other
  futures, timeouts of connections, the rate, the timestamps of reports.
- `cache_prefix` tells configurations apart by two bytes of a hash. Collisions are
  a matter of probability.
- The client libraries for Redis, BigTable and HTTP, tokio, axum, the csv crate and
  libpostal itself; the models take from them what `src/` relies on: ordered
  bounded channels whose ends wake each other, an ordered buffer of futures, a pool
  that tests its connections, commands executed one by one, a lock with poisoning.
- `memory_used.rs` and `errors.rs`, the reading of the environment and of options,
  generated bindings (half of the repository's lines), build scripts and tests.

## The plan

In order of importance; the first nine are done.

1. CsvFilter and Pipeline, with their proofs.
2. Cache over a shared store, with its proofs.
3. NewRelic and Libpostal, with their proofs.
4. Rows, with the specification file.
5. GeocoderContract and Geocoders: the stack, the start of the program, Server mode
   and the rate limiter.
6. KeyValueStore and Stores: the pool of connections, BigTable's replies by key.
7. CacheKeys: which addresses share an entry.
8. opinionated_metrics in NewRelic.
9. Proofs about Rows, Stores and Geocoders, and about the samples in NewRelic.
10. Proofs about the abstract specifications, so that each component's promise
    can be used without its model: that a KeyValueStore that is reliable has
    written all of a set that succeeded, unless somebody wrote later, and that an
    end of CsvFilter with success has every row.
11. Proofs about `CacheKeys`: that two addresses share a key only if they are equal
    but for case, by the escaping of colons, as an induction over texts.
