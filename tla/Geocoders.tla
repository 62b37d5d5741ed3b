------------------------------ MODULE Geocoders -------------------------------
(***************************************************************************)
(* Concurrent calls through the stack of geocoders that src/src/main.rs    *)
(* builds: Paired(Normalizer(InvalidRecordSkipper(Cache(Smarty))),         *)
(* LibPostal), or parts of it, with the rate limiter all calls share, and  *)
(* the request handler of src/src/server.rs.  Each layer has its own list  *)
(* of addresses, and results are matched to them by position.              *)
(*                                                                         *)
(* A text is a sequence of words, and a cell is a text or, for Smarty's    *)
(* columns and the cache key, a pair of the address that was asked for and *)
(* the column.  The cache answers any of the addresses, as module Cache    *)
(* shows it may.                                                           *)
(***************************************************************************)
EXTENDS Positions, FiniteSetsExt, SequencesExt

CONSTANTS
    Calls,
    Requests,     \* the lists of addresses of a call
    Options,      \* the command lines, see OptionAssumption
    Parse(_, _),  \* libpostal: a component of a text, itself a text
    NulWord,      \* the word that has a null byte in it
    COMPLETE,     \* the keys of Smarty's answers, see CompleteAssumption
    Answer,       \* the fields an answer may have, see AnswerAssumption
    MaxReply,     \* bound on the answers in a reply
    GEOCODE_SIZE  \* most addresses in a call

\* The options that say how the geocoders are stacked and run.
Opt ==
    [geocoder : {"smarty", "libpostal"}, cache : BOOLEAN,
     outputKeys : BOOLEAN, hitsOnly : BOOLEAN, normalize : BOOLEAN,
     includeLibpostal : BOOLEAN, limit : Nat, server : BOOLEAN]

ASSUME OptionAssumption == Options \subseteq Opt

\* A key is a column, is left out, or has keys of its own, none of them nested.
Leaf == [key : STRING, value : {"true", "false"}]

ASSUME CompleteAssumption ==
    COMPLETE \in Seq(Leaf \cup [key : STRING, value : {"object"}, keys : Seq(Leaf)])

\* The paths to the columns, in the order of the keys.
Traverse(fields) ==
    LET wanted(keys) == Selected(keys, {j \in DOMAIN keys : keys[j].value = "true"})
        paths(k) ==
            CASE k.value = "true" -> <<<<k.key>>>>
              [] k.value = "false" -> <<>>
              [] k.value = "object" ->
                     [j \in DOMAIN wanted(k.keys) |-> <<k.key, wanted(k.keys)[j].key>>]
    IN  FlattenSeq([i \in DOMAIN fields |-> paths(fields[i])])

Structure == Traverse(COMPLETE)

ASSUME AnswerAssumption ==
    Answer \subseteq
        [ToSet(Structure) -> {"text", "empty", "null byte", "nested"}]

\* A body of at most 16384 bytes may have more addresses than GEOCODE_SIZE.  It is
\* assumed that they fit into the bucket.
ASSUME RequestAssumption ==
    \A r \in Requests :
        /\ r \in Seq([street : Seq(STRING), city : Seq(STRING),
                     state : Seq(STRING), zipcode : Seq(STRING)])
        /\ Len(r) <= 2 * GEOCODE_SIZE

ASSUME SizeAssumption == GEOCODE_SIZE \in Nat \ {0} /\ MaxReply \in Nat

VARIABLES
    options,    \* the command line
    boot,       \* where main is
    columns,    \* `column_names` of the geocoders stacked so far
    tokens,     \* permits in the rate limiter's bucket
    stage,      \* per call: where it is
    addresses,  \* per call: what it is asked for
    current,    \* per call: the addresses that the skipper gets
    hits,       \* per call: for each valid address, what the cache has of it
    heard,      \* per call: Smarty's reply, when it was used
    results,    \* per call: the results, of the base or of the whole stack
    status      \* per call, in server mode: the status the client gets

perCall == <<stage, addresses, current, hits, heard, results, status>>
vars == <<options, boot, columns, tokens, perCall>>

-------------------------------------------------------------------------------
\* Columns and rows.

None == <<>>  \* as a result
Blank == <<>> \* as a cell

\* COLUMN_NAMES; "level" stands for all the ones that nothing else mentions.
Components ==
    <<"city", "house_number", "house", "postcode", "road", "state",
      "city_district", "level", "po_box", "suburb", "unit">>

\* The column of a path in Structure has the name of its last key.
SmartyColumns == [i \in DOMAIN Structure |-> <<Last(Structure[i])>>]
LibpostalColumns == [i \in DOMAIN Components |-> <<Components[i]>>]

KeyColumn == <<"cache_key">>

\* In complete.json no two keys have the same name, and none has this one.
ASSUME ColumnAssumption ==
    IsInjective(SmartyColumns) /\ KeyColumn \notin ToSet(SmartyColumns)

\* The columns of Smarty or libpostal, and of the cache in front of it.
InnerColumns ==
    [o \in Options |->
        IF o.geocoder = "smarty" THEN SmartyColumns ELSE LibpostalColumns]

BaseColumns ==
    [o \in Options |->
        InnerColumns[o] \o (IF o.cache /\ o.outputKeys THEN <<KeyColumn>> ELSE <<>>)]

Empty(names) == [i \in DOMAIN names |-> Blank]

-------------------------------------------------------------------------------
\* Addresses, libpostal and normalization.

IsValid(a) == a.street # <<>>

\* The text that is parsed.
Text(a) == a.street \o a.city \o a.state \o a.zipcode

\* Parsing one of these makes libpostal fail for the whole list.
Rejected(as) == \E i \in DOMAIN as : NulWord \in ToSet(Text(as[i]))

Parsed(a) ==
    [i \in DOMAIN Components |-> Parse(Text(a), Components[i])]

\* `append_component`: an empty component leaves no trace.
Component(row, name) ==
    row[CHOOSE i \in DOMAIN Components : Components[i] = name]

NormalizedToAddress(row) ==
    LET the(name) == Component(row, name)
    IN  [street |-> the("po_box") \o the("house_number") \o the("house")
                        \o the("road") \o the("unit"),
         city |-> the("suburb") \o the("city_district") \o the("city"),
         state |-> the("state"),
         zipcode |-> the("postcode")]

-------------------------------------------------------------------------------
\* The skipper.

Valid(as) == {i \in DOMAIN as : IsValid(as[i])}

OriginalIndices(as) == Positions(Valid(as))

ValidAddresses(as) == Selected(as, Valid(as))

\* Faulty: the results stay where they are.
FaultyPutBack(n, indices, geocoded) ==
    [i \in 1..n |-> IF i \in DOMAIN geocoded THEN geocoded[i] ELSE None]

\* The results of an inner geocoder, back at the positions of its addresses.
PutBack(n, indices, geocoded) ==
    LET at(i) == {k \in DOMAIN geocoded : indices[k] = i}
    IN  [i \in 1..n |->
            IF at(i) = {} THEN None ELSE geocoded[CHOOSE k \in at(i) : TRUE]]

Restore(as, geocoded) == PutBack(Len(as), OriginalIndices(as), geocoded)

-------------------------------------------------------------------------------
\* Smarty's replies: a sequence of answers, each with the position of its
\* address, counted from 0.

Replies ==
    [n \in 1..(2 * GEOCODE_SIZE) |->
        BoundedSeq([input_index : 0..n, fields : Answer], MaxReply)]

\* `unpack_vec` finds an index out of range or for the second time.
UnpackFails(reply, n) ==
    \E j \in DOMAIN reply :
        \/ reply[j].input_index >= n
        \/ \E k \in 1..(j - 1) : reply[k].input_index = reply[j].input_index

\* `value_columns_for` finds an array or object at a leaf, or a value has a
\* null byte.
ValuesFail(reply) ==
    \E j \in DOMAIN reply, p \in ToSet(Structure) :
        reply[j].fields[p] \in {"nested", "null byte"}

\* The replies that are not turned into an error.
Usable ==
    [n \in 1..(2 * GEOCODE_SIZE) |->
        {r \in Replies[n] : ~UnpackFails(r, n) /\ ~ValuesFail(r)}]

\* A value for each column, empty where the answer has none.
ValueColumns(fields, a) ==
    [i \in DOMAIN Structure |->
        IF fields[Structure[i]] = "text" THEN <<a, SmartyColumns[i]>> ELSE Blank]

\* Faulty: answers are taken in the order in which they come.
FaultySmartyResults(reply, as) ==
    [i \in DOMAIN as |->
        IF i \in DOMAIN reply
        THEN ValueColumns(reply[i].fields, as[reply[i].input_index + 1])
        ELSE None]

SmartyResults(reply, as) ==
    LET at(i) == {j \in DOMAIN reply : reply[j].input_index = i - 1}
    IN  [i \in DOMAIN as |->
            IF at(i) = {} THEN None
            ELSE LET j == CHOOSE j \in at(i) : \A k \in at(i) : k <= j
                 IN  ValueColumns(reply[j].fields, as[i])]

-------------------------------------------------------------------------------
\* The cache.  What call c knows of each valid address is the set of the result
\* that was found, if any.

\* A result for the address a may have been saved, a failure of Smarty too.
MayBeCached(a) ==
    IF options.geocoder = "libpostal" THEN {Parsed(a)}
    ELSE {None} \cup
         {ValueColumns(f, a) : f \in {g \in Answer : Range(g) \subseteq {"text", "empty"}}}

\* What may be found for each of as.
Lookups(as) ==
    LET found == {{row} : row \in UNION {MayBeCached(a) : a \in ToSet(as)}}
    IN  {h \in [DOMAIN as -> found \cup {{}}] :
            \A k \in DOMAIN as : h[k] \subseteq MayBeCached(as[k])}

Missed(c) == {k \in DOMAIN hits[c] : hits[c][k] = {}}

\* `cache_miss_offsets`
MissOffsets(c) == Positions(Missed(c))

\* `cache_misses`, what the geocoder behind the cache is asked for.
CacheMisses(c) == Selected(ValidAddresses(current[c]), Missed(c))

\* Hits and the answers for the misses, with the cache keys if they are wanted.
CacheResults(c, geocoded) ==
    LET as == ValidAddresses(current[c])
        answers == PutBack(Len(as), MissOffsets(c), geocoded)
        row(k) == IF hits[c][k] = {} THEN answers[k]
                  ELSE CHOOSE r \in hits[c][k] : TRUE
    IN  [k \in DOMAIN as |->
            IF options.cache /\ options.outputKeys /\ row(k) # None
            THEN Append(row(k), <<as[k], KeyColumn>>) ELSE row(k)]

-------------------------------------------------------------------------------
\* Pairing.

\* `combine_geocoder_results`; libpostal always has a result, and both lists are
\* as long as the list of addresses.
Combine(fst, snd) ==
    IF fst = None THEN Empty(BaseColumns[options]) \o snd ELSE fst \o snd

-------------------------------------------------------------------------------
\* The rate limiter.  A limit of 0 stands for none.  It is taken to be as main.rs
\* describes it: a list waits until there are permits for all of it.

Limited == options.geocoder = "smarty" /\ options.limit > 0

InitialTokens == Max({options.limit, GEOCODE_SIZE})

\* Faulty: the bucket holds what is refilled, which may be less than a chunk.
FaultyBucketSize == options.limit

BucketSize == 2 * InitialTokens

\* There is a bucket.
Started == boot \notin {"arguments", "spec", "metrics", "geocoder", "exited"}

\* Faulty: the bucket never is full.
FaultyRefill ==
    /\ Started /\ Limited /\ tokens <= BucketSize
    /\ tokens' = tokens + options.limit
    /\ UNCHANGED <<options, boot, columns, perCall>>

Refill ==
    /\ Started /\ Limited /\ tokens < BucketSize
    /\ tokens' = Min({tokens + options.limit, BucketSize})
    /\ UNCHANGED <<options, boot, columns, perCall>>

-------------------------------------------------------------------------------
\* main: the geocoders are stacked from the inside to the outside.

Boot(from, to) ==
    /\ boot = from /\ boot' = to
    /\ UNCHANGED <<options, perCall>>

ParseArguments == Boot("arguments", "spec") /\ UNCHANGED <<columns, tokens>>

\* An option has no such value, as a label without "=".
UsageError == Boot("arguments", "exited") /\ UNCHANGED <<columns, tokens>>

ReadSpec == Boot("spec", "metrics") /\ UNCHANGED <<columns, tokens>>

InstallMetrics == Boot("metrics", "geocoder") /\ UNCHANGED <<columns, tokens>>

\* The bucket is there before the geocoder.
InnermostStacked ==
    /\ Boot("geocoder", IF options.cache THEN "cache" ELSE "skipper")
    /\ tokens' = IF Limited THEN InitialTokens ELSE 0

NewSmarty ==
    /\ options.geocoder = "smarty" /\ InnermostStacked
    /\ columns' = SmartyColumns

\* The environment has no credentials.
NoCredentials ==
    /\ options.geocoder = "smarty" /\ Boot("geocoder", "exited")
    /\ UNCHANGED <<columns, tokens>>

NewLibPostal ==
    /\ options.geocoder = "libpostal" /\ InnermostStacked
    /\ columns' = LibpostalColumns

NewCache ==
    /\ Boot("cache", "skipper")
    /\ columns' = IF options.outputKeys THEN Append(columns, KeyColumn) ELSE columns
    /\ UNCHANGED tokens

\* Skipper and normalizer have the columns of what is behind them.
NewSkipper ==
    /\ Boot("skipper", IF options.normalize THEN "normalizer"
                       ELSE IF options.includeLibpostal THEN "paired" ELSE "command")
    /\ UNCHANGED <<columns, tokens>>

NewNormalizer ==
    /\ Boot("normalizer", IF options.includeLibpostal THEN "paired" ELSE "command")
    /\ UNCHANGED <<columns, tokens>>

\* Faulty: the second geocoder's columns are not given its label.
FaultyPaired ==
    /\ Boot("paired", "command")
    /\ columns' = columns \o LibpostalColumns
    /\ UNCHANGED tokens

NewPaired ==
    /\ Boot("paired", "command")
    /\ columns' = columns \o [i \in DOMAIN Components |-> <<"libpostal", Components[i]>>]
    /\ UNCHANGED tokens

\* The first call of libpostal, which loads its data; whether it succeeds is ignored.
Prime ==
    /\ options.server /\ Boot("command", "serve")
    /\ UNCHANGED <<columns, tokens>>

RunCommand ==
    /\ Boot(IF options.server THEN "serve" ELSE "command", "running")
    /\ UNCHANGED <<columns, tokens>>

\* An error of main, or the panic of a server that cannot bind its address: there
\* is no report of the metrics.
StartFails ==
    /\ boot \in {"spec", "metrics", "cache", "serve"}
    /\ Boot(boot, "exited") /\ UNCHANGED <<columns, tokens>>

\* The listen address is not one, which is an error of the command.
ListenFails ==
    /\ Boot("serve", "report") /\ UNCHANGED <<columns, tokens>>

Ended(c) ==
    stage[c] \in {"dropped", "responded"}
        \cup (IF options.server THEN {} ELSE {"done", "failed"})

\* The pipeline is at its end.  A server never is.
Finish ==
    /\ ~options.server /\ \A c \in Calls : stage[c] = "idle" \/ Ended(c)
    /\ Boot("running", "report") /\ UNCHANGED <<columns, tokens>>

\* The report is module NewRelic; one that fails is only logged.
Report == Boot("report", "exited") /\ UNCHANGED <<columns, tokens>>

Main ==
    \/ ParseArguments \/ UsageError \/ ReadSpec \/ InstallMetrics
    \/ NewSmarty \/ NoCredentials \/ NewLibPostal
    \/ NewCache \/ NewSkipper \/ NewNormalizer \/ NewPaired
    \/ Prime \/ RunCommand \/ StartFails \/ ListenFails \/ Finish \/ Report

-------------------------------------------------------------------------------
\* The steps of a call c.

program == <<options, boot, columns>>

Goto(c, s) == stage' = [stage EXCEPT ![c] = s]

Fail(c) ==
    /\ Goto(c, "failed")
    /\ UNCHANGED <<program, tokens, addresses, current, hits, heard, results, status>>

\* The base geocoder and the skipper are done.
Return(c) == Goto(c, IF options.includeLibpostal THEN "pair" ELSE "done")

\* A list of the pipeline, or the body of a request, which may be any list.
Arrive(c) ==
    /\ stage[c] = "idle" /\ boot = "running"
    /\ \E r \in Requests :
        /\ ~options.server => r # <<>> /\ Len(r) <= GEOCODE_SIZE
        /\ addresses' = [addresses EXCEPT ![c] = r]
        /\ current' = [current EXCEPT ![c] = r]
    /\ Goto(c, IF options.normalize THEN "normalize" ELSE "skip")
    /\ UNCHANGED <<program, tokens, hits, heard, results, status>>

\* A header with other parameters or in capitals names JSON, too.
ContentTypes == {"none", "other", "json", "json in other words"}
Bodies == {"request", "no request", "no JSON", "too large"}

ExpectHeaderValue(contentType) == contentType = "json"

\* `Json` and `DefaultBodyLimit` of axum, then the handler.
Refusal(contentType, body) ==
    CASE contentType \in {"none", "other"} -> 415
      [] body = "too large" -> 413
      [] body = "no JSON" -> 400
      [] body = "no request" -> 422
      [] OTHER -> 400

BadRequest(c) ==
    /\ stage[c] = "idle" /\ options.server /\ boot = "running"
    /\ \E contentType \in ContentTypes, body \in Bodies :
        /\ ~(ExpectHeaderValue(contentType) /\ body = "request")
        /\ status' = [status EXCEPT ![c] = Refusal(contentType, body)]
    /\ Goto(c, "responded")
    /\ UNCHANGED <<program, tokens, addresses, current, hits, heard, results>>

\* Faulty: invalid addresses are skipped before normalization, not after it.
FaultyNormalize(c) ==
    /\ stage[c] = "normalize" /\ ~Rejected(current[c])
    /\ current' = [current EXCEPT ![c] =
           [i \in DOMAIN @ |->
               IF IsValid(@[i]) THEN NormalizedToAddress(Parsed(@[i])) ELSE @[i]]]
    /\ Goto(c, "skip")
    /\ UNCHANGED <<program, tokens, addresses, hits, heard, results, status>>

Normalize(c) ==
    /\ stage[c] = "normalize" /\ ~Rejected(current[c])
    /\ Goto(c, "skip")
    /\ current' = [current EXCEPT ![c] =
           [i \in DOMAIN @ |-> NormalizedToAddress(Parsed(@[i]))]]
    /\ UNCHANGED <<program, tokens, addresses, hits, heard, results, status>>

NormalizeFails(c) ==
    /\ stage[c] = "normalize" /\ Rejected(current[c])
    /\ Fail(c)

\* No valid address is left: the inner geocoder is not called.
SkipAll(c) ==
    /\ stage[c] = "skip" /\ Valid(current[c]) = {}
    /\ Return(c)
    /\ results' = [results EXCEPT ![c] = Restore(current[c], <<>>)]
    /\ UNCHANGED <<program, tokens, addresses, current, hits, heard, status>>

\* The valid addresses are looked up in the cache, if there is one.
Lookup(c) ==
    LET as == ValidAddresses(current[c])
    IN  /\ stage[c] = "skip" /\ Valid(current[c]) # {}
        /\ Goto(c, "ask")
        /\ \E h \in IF options.cache THEN Lookups(as) ELSE {[k \in DOMAIN as |-> {}]} :
               hits' = [hits EXCEPT ![c] = h]
        /\ UNCHANGED <<program, tokens, addresses, current, heard, results, status>>

\* A request to the store fails.
CacheFails(c) ==
    /\ options.cache /\ stage[c] = "skip" /\ Valid(current[c]) # {}
    /\ Fail(c)

\* Nothing is missed, or nothing may be asked for.
AnswerFromCache(c) ==
    /\ stage[c] = "ask"
    /\ Missed(c) = {} \/ (options.cache /\ options.hitsOnly)
    /\ Return(c)
    /\ results' = [results EXCEPT ![c] =
           Restore(current[c], CacheResults(c, <<>>))]
    /\ UNCHANGED <<program, tokens, addresses, current, hits, heard, status>>

\* There are misses, and they are asked for.
Asks(c, geocoder) ==
    /\ stage[c] = "ask" /\ options.geocoder = geocoder
    /\ Missed(c) # {} /\ ~(options.cache /\ options.hitsOnly)

\* libpostal as the base geocoder.
ParseValid(c) ==
    LET as == CacheMisses(c)
    IN  /\ Asks(c, "libpostal") /\ ~Rejected(as)
        /\ Return(c)
        /\ results' = [results EXCEPT ![c] =
               Restore(current[c],
                       CacheResults(c, [k \in DOMAIN as |-> Parsed(as[k])]))]
        /\ UNCHANGED <<program, tokens, addresses, current, hits, heard, status>>

ParseFails(c) == Asks(c, "libpostal") /\ Rejected(CacheMisses(c)) /\ Fail(c)

\* A permit for each address, then the request.
Send(c) ==
    LET n == Cardinality(Missed(c))
    IN  /\ Asks(c, "smarty")
        /\ Limited => tokens >= n
        /\ tokens' = IF Limited THEN tokens - n ELSE tokens
        /\ Goto(c, "asked")
        /\ UNCHANGED <<program, addresses, current, hits, heard, results, status>>

\* The reply arrives, and is saved in the cache.
Reply(c) ==
    LET as == CacheMisses(c)
    IN  /\ stage[c] = "asked"
        /\ Return(c)
        /\ \E reply \in Usable[Cardinality(Missed(c))] :
            /\ heard' = [heard EXCEPT ![c] = reply]
            /\ results' = [results EXCEPT ![c] =
                   Restore(current[c], CacheResults(c, SmartyResults(reply, as)))]
        /\ UNCHANGED <<program, tokens, addresses, current, hits, status>>

BadReply(c) ==
    /\ stage[c] = "asked"
    /\ LET n == Cardinality(Missed(c)) IN Usable[n] # Replies[n]
    /\ Fail(c)

\* No connection, a status other than success, a body that is not JSON, or a reply
\* that cannot be saved in the cache.
RequestFails(c) == stage[c] = "asked" /\ Fail(c)

\* The second geocoder gets the addresses as they were at first.
Pair(c) ==
    /\ stage[c] = "pair" /\ ~Rejected(addresses[c])
    /\ Goto(c, "done")
    /\ results' = [results EXCEPT ![c] =
           [i \in DOMAIN @ |-> Combine(@[i], Parsed(addresses[c][i]))]]
    /\ UNCHANGED <<program, tokens, addresses, current, hits, heard, status>>

PairFails(c) ==
    /\ stage[c] = "pair" /\ Rejected(addresses[c])
    /\ Fail(c)

\* The future is dropped while it waits for the store, for permits or for Smarty:
\* the client of the server went away, or the pipeline has failed elsewhere.
Drop(c) ==
    /\ \/ stage[c] = "asked"
       \/ options.cache /\ stage[c] = "skip" /\ Valid(current[c]) # {}
       \/ Asks(c, "smarty") /\ Limited /\ tokens < Cardinality(Missed(c))
    /\ Goto(c, "dropped")
    /\ UNCHANGED <<program, tokens, addresses, current, hits, heard, results, status>>

\* The shorter of names and values decides, and the last of equal names.
HashFromGeocoded(row) ==
    LET both == DOMAIN row \cap DOMAIN columns
    IN  [name \in {columns[j] : j \in both} |->
            row[Max({j \in both : columns[j] = name})]]

\* The results in the body of a response.
Body(c) ==
    [i \in DOMAIN results[c] |->
        IF results[c][i] = None THEN {} ELSE {HashFromGeocoded(results[c][i])}]

Respond(c) ==
    /\ stage[c] = "done" /\ options.server
    /\ status' = [status EXCEPT ![c] = 200]
    /\ Goto(c, "responded")
    /\ UNCHANGED <<program, tokens, addresses, current, hits, heard, results>>

RespondError(c) ==
    /\ stage[c] = "failed" /\ options.server
    /\ status' = [status EXCEPT ![c] = 500]
    /\ Goto(c, "responded")
    /\ UNCHANGED <<program, tokens, addresses, current, hits, heard, results>>

-------------------------------------------------------------------------------

Init ==
    /\ options \in Options
    /\ boot = "arguments" /\ columns = <<>> /\ tokens = 0
    /\ stage = [c \in Calls |-> "idle"]
    /\ addresses = [c \in Calls |-> <<>>]
    /\ current = [c \in Calls |-> <<>>]
    /\ hits = [c \in Calls |-> <<>>]
    /\ heard = [c \in Calls |-> <<>>]
    /\ results = [c \in Calls |-> <<>>]
    /\ status = [c \in Calls |-> 0]

Proceed(c) ==
    \/ Normalize(c) \/ NormalizeFails(c)
    \/ SkipAll(c) \/ CacheFails(c) \/ Lookup(c) \/ AnswerFromCache(c)
    \/ ParseFails(c) \/ ParseValid(c)
    \/ Send(c) \/ RequestFails(c) \/ BadReply(c) \/ Reply(c)
    \/ Pair(c) \/ PairFails(c)
    \/ Respond(c) \/ RespondError(c)

\* Nothing is left to do.
AllEnded ==
    /\ \/ boot = "exited"
       \/ boot = "running" /\ options.server /\ \A c \in Calls : Ended(c)
    /\ UNCHANGED vars

Next ==
    \/ Main \/ Refill
    \/ \E c \in Calls : Arrive(c) \/ BadRequest(c) \/ Proceed(c) \/ Drop(c)
    \/ AllEnded

Spec == Init /\ [][Next]_vars

\* main goes on, the bucket is refilled in time, each call is polled, and each
\* request to Smarty or the store is answered or fails.
FairSpec ==
    /\ Spec /\ WF_vars(Main) /\ WF_vars(Refill)
    /\ \A c \in Calls : WF_vars(Proceed(c))

-------------------------------------------------------------------------------
\* Properties.

\* The columns the command line asks for, as the pipeline and the clients of the
\* server know them.
Announced ==
    [o \in Options |->
        BaseColumns[o]
            \o (IF o.includeLibpostal
                THEN [i \in DOMAIN Components |-> <<"libpostal", Components[i]>>]
                ELSE <<>>)]

\* The variables have the values the code gives them, and main has all columns.
TypeOK ==
    /\ options \in Options
    /\ boot \in {"arguments", "spec", "metrics", "geocoder", "cache", "skipper",
                 "normalizer", "paired", "command", "serve", "running", "report", "exited"}
    /\ boot \in {"command", "serve", "running", "report"} => columns = Announced[options]
    /\ tokens \in 0..BucketSize
    /\ stage \in [Calls -> {"idle", "normalize", "skip", "ask", "asked", "pair",
                             "done", "failed", "dropped", "responded"}]
    /\ \A c \in Calls :
        /\ addresses[c] \in Requests \cup {<<>>}
        /\ DOMAIN current[c] = DOMAIN addresses[c]
        /\ Len(hits[c]) \in {0, Cardinality(Valid(current[c]))}
        /\ Len(heard[c]) <= MaxReply
        /\ Len(results[c]) \in {0, Len(addresses[c])}
        /\ status[c] \in {0, 200, 400, 413, 415, 422, 500}

\* What is asked for address a, and whether it is asked at all.
Wanted(o, a) == IF o.normalize THEN NormalizedToAddress(Parsed(a)) ELSE a

HasStreet(c, i) == Wanted(options, addresses[c][i]).street # <<>>

\* What the cache had for the i-th address of c, one with a street.
HitFor(c, i) ==
    LET position == Cardinality({k \in 1..i : HasStreet(c, k)})
    IN  IF position \in DOMAIN hits[c] THEN hits[c][position] ELSE {}

ToBeSent(c, i) == HasStreet(c, i) /\ HitFor(c, i) = {}

\* main.rs puts the skipper behind the normalizer "because normalization might
\* move data between fields": what is sent to Smarty is, in order, the
\* normalized form of the addresses that then have a street and are not in the
\* cache; none that only lacked a street before is left out, and none without
\* one is sent.
SentHaveStreets ==
    \A c \in Calls : stage[c] = "asked" =>
        LET sent == Positions({i \in DOMAIN addresses[c] : ToBeSent(c, i)})
        IN  CacheMisses(c)
                = [k \in DOMAIN sent |-> Wanted(options, addresses[c][sent[k]])]

\* When a call succeeds, each address has what the cache or else Smarty's reply
\* says of it, and nothing else, under Smarty's columns: no answer is lost,
\* overwritten or given to another address between the list that was sent, the
\* reply in its own order, the hits, and the list the caller has.
EveryAnswerKept ==
    \A c \in Calls : stage[c] = "done" /\ options.geocoder = "smarty" =>
        \A i \in DOMAIN addresses[c] :
            LET a == Wanted(options, addresses[c][i])
                position == Cardinality({k \in 1..i : ToBeSent(c, k)}) - 1
                about == {j \in DOMAIN heard[c] :
                    ToBeSent(c, i) /\ heard[c][j].input_index = position}
                row == results[c][i]
                cells == [j \in DOMAIN SmartyColumns \cap DOMAIN row |-> row[j]]
                known == {ValueColumns(heard[c][j].fields, a) : j \in about} \cup
                         (IF HasStreet(c, i) THEN HitFor(c, i) \ {None} ELSE {})
            IN  /\ Cardinality(about) <= 1
                /\ known = {} => ToSet(cells) \subseteq {Blank}
                /\ \A k \in known : cells = k

\* A result of the inner geocoder, or of the cache, for the address a.
IsBaseRow(o, row, a) ==
    /\ DOMAIN row = DOMAIN BaseColumns[o]
    /\ \A i \in DOMAIN row :
        CASE BaseColumns[o][i] = KeyColumn -> row[i] = <<a, KeyColumn>>
          [] BaseColumns[o][i] # KeyColumn /\ o.geocoder = "smarty" ->
                 row[i] \in {Blank, <<a, SmartyColumns[i]>>}
          [] OTHER -> row[i] = Parsed(a)[i]

\* A result of the stack for address a, as wide as its columns: the values of
\* the base geocoder are for the normalized address, those of the second one
\* for the address as it was.
IsResultFor(o, row, a) ==
    LET n == Len(BaseColumns[o])
    IN  IF ~o.includeLibpostal
        THEN row = None \/ IsBaseRow(o, row, Wanted(o, a))
        ELSE /\ Len(row) = Len(Announced[o])
             /\ \/ IsBaseRow(o, SubSeq(row, 1, n), Wanted(o, a))
                \/ SubSeq(row, 1, n) = Empty(BaseColumns[o])
             /\ SubSeq(row, n + 1, Len(row)) = Parsed(a)

Outcome(c) ==
    CASE stage[c] = "done" \/ status[c] = 200 ->
            [kind |-> "ok", results |-> results[c]]
      [] stage[c] = "failed" \/ status[c] >= 400 ->
            [kind |-> "error", results |-> <<>>]
      [] stage[c] = "dropped" -> [kind |-> "dropped", results |-> <<>>]
      [] OTHER -> [kind |-> "pending", results |-> <<>>]

Contract == INSTANCE GeocoderContract WITH
    configuration <- options, Configurations <- Options,
    asked <- addresses, outcome <- [c \in Calls |-> Outcome(c)],
    IsResult <- IsResultFor

\* The stack of geocoders keeps the promise of the trait Geocoder, whatever its
\* layers: an error, or a result for each address in its place, and once given
\* it stands.
HonoursContract == Contract!Spec

\* The response of the server has, for each address, a map from every column
\* that the command line asks for to the value the geocoders gave it, or
\* nothing: no column hides another of the same name, and names and values are
\* not shifted against each other.
ResponseNamesValues ==
    \A c \in Calls : status[c] = 200 =>
        /\ Len(Body(c)) = Len(addresses[c])
        /\ \A i \in DOMAIN addresses[c] : \A map \in Body(c)[i] :
            LET names == Announced[options]
            IN  /\ DOMAIN map = ToSet(names)
                /\ IsResultFor(options, [j \in DOMAIN names |-> map[names[j]]],
                               addresses[c][i])

\* Every call that has begun ends: no list of addresses is too large for the rate
\* limiter, "blocking it from ever being geocoded" (main.rs), and no other call
\* keeps it from its permits.  And so main ends, unless it serves for ever.
CallsEnd ==
    <>[](/\ \A c \in Calls : stage[c] = "idle" \/ Ended(c)
         /\ boot = "exited" \/ options.server)
==============================================================================
