-------------------------------- MODULE Cache --------------------------------
(***************************************************************************)
(* The cache of src/src/geocoders/cache/mod.rs over a key/value store, as  *)
(* concurrent calls of `geocode_addresses` use it: futures of one process  *)
(* and other processes that share the store.  Each call is retried by its  *)
(* caller (`geocode_chunk`) and may be dropped half-way, when the pipeline *)
(* gives up or the process dies.                                           *)
(*                                                                         *)
(* The store keeps the promise of KeyValueStore: the gets and sets of a    *)
(* request are executed one by one, those of two calls may interleave, and *)
(* a set that a call did not see executed may still be executed later.     *)
(* An answer is abstracted to whether it is a match and whether the        *)
(* cache_key column was added to its values; for the properties it also    *)
(* says which address it is about, which geocoder gave it, and under which *)
(* --cache-key-prefix it was asked for.                                    *)
(***************************************************************************)
EXTENDS Integers, Sequences, FiniteSets

CONSTANTS
    Calls,        \* the concurrent calls
    Addresses,
    Same(_, _),   \* whether two addresses are equal but for their case
    Geocoders,    \* configurations of the inner geocoder
    Found,        \* whether they may find each address, and may not
    Keys,
    KeyOf,        \* `cache_key` of a geocoder and an address
    Batches,      \* the slices of addresses a call may be given
    Options,      \* the options a process may run with
    Processes,    \* the options of each call's process
    OldSlots,     \* the rows where entries of earlier versions may be
    STORE,        \* the kind of store, "redis" or "bigtable"
    MAX_RETRIES,  \* the --max-retries option
    MAX_LATE,     \* bound on the commands that are executed late, at any time
    Absent,       \* no entry
    Nul           \* values that have null bytes: "old buggy data"

ASSUME KeyAssumption ==
    /\ KeyOf \in [Geocoders \X Addresses -> Keys]
    /\ Batches \subseteq Seq(Addresses)
    /\ Found \in [Addresses -> SUBSET BOOLEAN]
ASSUME OptionAssumption ==
    /\ Options \subseteq [prefix : STRING, inner : Geocoders,
                          hitsOnly : BOOLEAN, outputKeys : BOOLEAN]
    /\ Processes \subseteq [Calls -> Options]
    /\ STORE \in {"redis", "bigtable"}
ASSUME RetryAssumption == MAX_RETRIES \in Nat /\ MAX_LATE \in Nat

Answer ==
    [of : Addresses, from : Geocoders, by : STRING, found : BOOLEAN, keyed : BOOLEAN]
ASSUME EntryAssumption == Absent \notin Answer /\ Nul \notin Answer /\ Absent # Nul

Reply(o, a, found) ==
    [of |-> a, from |-> o.inner, by |-> o.prefix, found |-> found, keyed |-> FALSE]

\* An entry begins with the id of its compression; "N" is to copy the bytes.
Compressed(values) == [id |-> "N", values |-> values]
Entry == [id : {"N", "other"}, values : Answer \cup {Nul}]
ASSUME NoEntryAssumption == Absent \notin Entry

\* The rows of the store.  Only the Redis store applies `prefix_key` in `add_get`
\* and `add_set`; BigTable keeps every deployment's entries in the same rows.
Prefix(o) == IF STORE = "redis" THEN o.prefix ELSE ""
Slots == {Prefix(o) : o \in Options} \X Keys

VARIABLES
    store,       \* the key/value store
    opt,         \* the options of each call's process
    pc,          \* where the call is
    batch,       \* `addresses`
    keys,        \* their keys
    got,         \* what was read so far, by position
    result,      \* `geocoded`
    misses,      \* `cache_miss_offsets`
    unsaved,     \* the commands of `pipelined_set` not executed yet
    late,        \* such commands of calls that did not wait for them
    failures,    \* failed attempts of `geocode_chunk`
    known        \* history: the rows that were usable when the attempt began

vars ==
    <<store, opt, pc, batch, keys, got, result, misses, unsaved, late, failures, known>>

\* The row of the i-th address of a call.
Slot(c, i) == <<Prefix(opt[c]), keys[c][i]>>

OldEntry == {Compressed(Nul), [id |-> "other", values |-> Nul]}

Init ==
    /\ \E old \in [OldSlots -> OldEntry \cup {Absent}] :
           store = [s \in Slots |-> IF s \in OldSlots THEN old[s] ELSE Absent]
    /\ opt \in Processes
    /\ pc = [c \in Calls |-> "idle"]
    /\ batch = [c \in Calls |-> <<>>]
    /\ keys = [c \in Calls |-> <<>>]
    /\ got = [c \in Calls |-> <<>>]
    /\ result = [c \in Calls |-> <<>>]
    /\ misses = [c \in Calls |-> <<>>]
    /\ unsaved = [c \in Calls |-> {}]
    /\ late = {}
    /\ failures = [c \in Calls |-> 0]
    /\ known = [c \in Calls |-> {}]

-------------------------------------------------------------------------------
\* Entries.

\* A value that can be returned: one in the inner geocoder's columns.  A cached
\* failure is one too.
Fits(e) == e # Absent /\ e.id = "N" /\ e.values \in Answer /\ ~e.values.keyed

\* Faulty: a cached failure is a miss.
FaultyIsMiss(e) == e = Absent \/ (e.id = "N" /\ (e.values = Nul \/ ~e.values.found))

IsMiss(e) == e = Absent \/ (e.id = "N" /\ e.values = Nul)

\* Anything else is an error: another compression, or another width.
IsBad(e) == ~Fits(e) /\ ~IsMiss(e)

-------------------------------------------------------------------------------
\* One call.

Usable == {s \in Slots : Fits(store[s])}

\* What a call leaves in the store's hands when it no longer waits for it: some of
\* it may still be executed.
Abandon(c) ==
    /\ \E sent \in SUBSET unsaved[c] :
           /\ Cardinality(late \cup sent) <= MAX_LATE
           /\ late' = late \cup sent
    /\ unsaved' = [unsaved EXCEPT ![c] = {}]

\* An attempt starts: nothing is read and no place of the result is filled.
Begin(c, b) ==
    /\ got' = [got EXCEPT ![c] = <<>>]
    /\ result' = [result EXCEPT ![c] = [i \in DOMAIN b |-> Absent]]
    /\ misses' = [misses EXCEPT ![c] = <<>>]
    /\ known' = [known EXCEPT ![c] = Usable]
    /\ Abandon(c)

\* The call is over with the result r.
End(c, how, r) ==
    /\ pc' = [pc EXCEPT ![c] = how]
    /\ result' = [result EXCEPT ![c] = r]
    /\ got' = [got EXCEPT ![c] = <<>>]
    /\ misses' = [misses EXCEPT ![c] = <<>>]
    /\ known' = [known EXCEPT ![c] = {}]
    /\ Abandon(c)
    /\ UNCHANGED <<store, opt, batch, keys, failures>>

\* An empty slice never reaches the store.
Start(c) ==
    /\ pc[c] = "idle"
    /\ \E b \in Batches :
           /\ batch' = [batch EXCEPT ![c] = b]
           /\ keys' = [keys EXCEPT ![c] =
                  [i \in DOMAIN b |-> KeyOf[<<opt[c].inner, b[i]>>]]]
           /\ pc' = [pc EXCEPT ![c] = IF b = <<>> THEN "done" ELSE "read"]
           /\ Begin(c, b)
    /\ UNCHANGED <<store, opt, failures>>

Retry(c) ==
    /\ pc' = [pc EXCEPT ![c] = "read"]
    /\ Begin(c, batch[c])
    /\ UNCHANGED <<store, opt, batch, keys>>

\* Faulty: one retry too many.
FaultyRetryLimit(c) ==
    \/ /\ failures[c] <= MAX_RETRIES
       /\ failures' = [failures EXCEPT ![c] = @ + 1]
       /\ Retry(c)
    \/ failures[c] > MAX_RETRIES /\ End(c, "err", <<>>)

\* Faulty: failures are not counted.
FaultyUncounted(c) == Retry(c) /\ UNCHANGED failures

\* The call fails; `geocode_chunk` tries again or passes the error on.
Fail(c) ==
    \/ /\ failures[c] < MAX_RETRIES
       /\ failures' = [failures EXCEPT ![c] = @ + 1]
       /\ Retry(c)
    \/ failures[c] = MAX_RETRIES /\ End(c, "err", <<>>)

Active(c) == pc[c] \in {"read", "geocode", "save"}

\* The store or the geocoder returns an error, also after the last command of a
\* request was executed.
CallFail(c) == Active(c) /\ Fail(c)

\* The future is dropped, or its process dies.
Dropped(c) == Active(c) /\ End(c, "err", <<>>)

\* One get of the request is executed; Redis keeps their order.
Read(c) ==
    /\ pc[c] = "read"
    /\ \E i \in DOMAIN batch[c] \ DOMAIN got[c] :
           /\ STORE = "redis" => \A j \in DOMAIN batch[c] \ DOMAIN got[c] : i <= j
           /\ got' = [got EXCEPT ![c] = [j \in DOMAIN @ \cup {i} |->
               IF j = i THEN store[Slot(c, i)] ELSE @[j]]]
    /\ UNCHANGED <<store, opt, pc, batch, keys, result, misses, unsaved, late,
                   failures, known>>

HaveRead(c) == pc[c] = "read" /\ DOMAIN got[c] = DOMAIN batch[c]

\* The call's results from the cache, and the positions that it has not.
Hits(c) ==
    [i \in DOMAIN batch[c] |-> IF Fits(got[c][i]) THEN got[c][i].values ELSE Absent]
Misses(c) == {i \in DOMAIN batch[c] : IsMiss(got[c][i])}

\* One entry that is bad makes the attempt fail.
ReadBad(c) ==
    /\ HaveRead(c) /\ \E i \in DOMAIN batch[c] : IsBad(got[c][i])
    /\ Fail(c)

AllRead(c) == HaveRead(c) /\ \A i \in DOMAIN batch[c] : ~IsBad(got[c][i])
MustGeocode(c) == Misses(c) # {} /\ ~opt[c].hitsOnly

\* The cache_key column is added to the matches, after they were saved.
WithKey(e) == IF e \in Answer /\ e.found THEN [e EXCEPT !.keyed = TRUE] ELSE e
Output(c, r) == IF opt[c].outputKeys THEN [i \in DOMAIN r |-> WithKey(r[i])] ELSE r

HitsSuffice(c) == AllRead(c) /\ ~MustGeocode(c) /\ End(c, "done", Output(c, Hits(c)))

\* m lists the positions in S, in their order.
Lists(m, S) ==
    /\ S = {m[j] : j \in DOMAIN m}
    /\ \A j, k \in DOMAIN m : j < k => m[j] < m[k]

\* The inner geocoder is called for the misses.
CallInner(c) ==
    /\ AllRead(c) /\ MustGeocode(c)
    /\ result' = [result EXCEPT ![c] = Hits(c)]
    /\ \E m \in [1..Cardinality(Misses(c)) -> Misses(c)] :
           Lists(m, Misses(c)) /\ misses' = [misses EXCEPT ![c] = m]
    /\ got' = [got EXCEPT ![c] = <<>>]
    /\ pc' = [pc EXCEPT ![c] = "geocode"]
    /\ UNCHANGED <<store, opt, batch, keys, unsaved, late, failures, known>>

\* Faulty: they are saved under the keys of the first addresses.
FaultySets(c, r) ==
    {[at |-> j, slot |-> Slot(c, j), entry |-> Compressed(r[j])] :
        j \in DOMAIN misses[c]}

\* The answers r for the misses, under the misses' keys.
Sets(c, r) ==
    {[at |-> j, slot |-> Slot(c, misses[c][j]), entry |-> Compressed(r[j])] :
        j \in DOMAIN misses[c]}

\* It answers for the misses, in order; the answers go to the misses' places in
\* the result and, under the misses' keys, into a set request.
Geocode(c) ==
    /\ pc[c] = "geocode"
    /\ \E found \in [DOMAIN misses[c] -> BOOLEAN] :
           /\ \A j \in DOMAIN misses[c] : found[j] \in Found[batch[c][misses[c][j]]]
           /\ LET r == [j \in DOMAIN misses[c] |->
                           Reply(opt[c], batch[c][misses[c][j]], found[j])]
                  At(i) == {j \in DOMAIN misses[c] : misses[c][j] = i}
              IN  /\ result' = [result EXCEPT ![c] = [i \in DOMAIN @ |->
                         IF At(i) = {} THEN @[i] ELSE r[CHOOSE j \in At(i) : TRUE]]]
                  /\ unsaved' = [unsaved EXCEPT ![c] = Sets(c, r)]
    /\ pc' = [pc EXCEPT ![c] = "save"]
    /\ UNCHANGED <<store, opt, batch, keys, got, misses, late, failures, known>>

\* One command of the set request.
SaveOne(c) ==
    /\ pc[c] = "save"
    /\ \E set \in unsaved[c] :
           /\ STORE = "redis" => \A other \in unsaved[c] : set.at <= other.at
           /\ store' = [store EXCEPT ![set.slot] = set.entry]
           /\ unsaved' = [unsaved EXCEPT ![c] = @ \ {set}]
    /\ UNCHANGED <<opt, pc, batch, keys, got, result, misses, late, failures, known>>

\* A command that no call waits for is executed after all.
SaveLate ==
    /\ \E set \in late :
           /\ late' = late \ {set}
           /\ store' = [store EXCEPT ![set.slot] = set.entry]
    /\ UNCHANGED <<opt, pc, batch, keys, got, result, misses, unsaved, failures,
                   known>>

\* Faulty: the set request is not awaited.
FaultySaved(c) == pc[c] = "save" /\ End(c, "done", Output(c, result[c]))

\* The set request returns.  BigTable reports on each entry in a response that is
\* not looked at, so that some may not be saved, or only later.
Saved(c) ==
    /\ pc[c] = "save" /\ (unsaved[c] = {} \/ STORE = "bigtable")
    /\ End(c, "done", Output(c, result[c]))

\* What a call does on its own, once begun.
Proceed(c) ==
    \/ Read(c) \/ ReadBad(c) \/ HitsSuffice(c) \/ CallInner(c) \/ Geocode(c)
    \/ SaveOne(c) \/ Saved(c)

AllDone == \A c \in Calls : pc[c] \in {"done", "err"}
Terminated == AllDone /\ UNCHANGED vars

Next ==
    \/ \E c \in Calls : Start(c) \/ Proceed(c) \/ CallFail(c) \/ Dropped(c)
    \/ SaveLate
    \/ Terminated

Spec == Init /\ [][Next]_vars

\* The store and the inner geocoder return, with a result or an error, and the
\* future is polled: a call that can go on does.
Fairness == \A c \in Calls : WF_vars(Proceed(c) \/ CallFail(c))
FairSpec == Spec /\ Fairness

-------------------------------------------------------------------------------
\* Properties.

TypeOK ==
    /\ store \in [Slots -> Entry \cup {Absent}]
    /\ opt \in [Calls -> Options]
    /\ pc \in [Calls -> {"idle", "read", "geocode", "save", "done", "err"}]
    /\ batch \in [Calls -> Seq(Addresses)]
    /\ keys \in [Calls -> Seq(Keys)]
    /\ \A c \in Calls :
           /\ DOMAIN got[c] \subseteq DOMAIN batch[c]
           /\ \A i \in DOMAIN got[c] : got[c][i] \in Entry \cup {Absent}
    /\ result \in [Calls -> Seq(Answer \cup {Absent})]
    /\ misses \in [Calls -> Seq(Nat)]
    /\ \A set \in late \cup UNION {unsaved[c] : c \in Calls} :
           set.slot \in Slots /\ set.entry \in Entry
    /\ failures \in [Calls -> 0..MAX_RETRIES]
    /\ known \in [Calls -> SUBSET Slots]

\* What is saved under a key is an answer about an address, and of a geocoder,
\* with that key, in the inner geocoder's own columns: whatever is cached by one
\* call can be used by every other (`keys[i]` of line 224, the push of line 239).
StoreSound ==
    \A s \in Slots :
        LET e == store[s]
        IN  e # Absent /\ e.values \in Answer =>
                /\ KeyOf[<<e.values.from, e.values.of>>] = s[2]
                /\ ~e.values.keyed

\* The results of a call that succeeds are in the order of its addresses: each
\* is an answer about that address, but for the case of its letters, by a
\* geocoder of the same configuration, or nothing, and nothing only if the call
\* was to look at the cache alone.  A match has the columns that `column_names`
\* announces (lines 199-242, and the keys of 253-283).
ResultsSound ==
    \A c \in Calls : pc[c] = "done" =>
        /\ Len(result[c]) = Len(batch[c])
        /\ \A i \in DOMAIN batch[c] :
               LET r == result[c][i]
               IN  IF r \in Answer
                   THEN /\ Same(r.of, batch[c][i])
                        /\ r.from = opt[c].inner
                        /\ r.found => r.keyed = opt[c].outputKeys
                   ELSE opt[c].hitsOnly

\* With Redis, when a call that may geocode succeeds, every one of its addresses
\* has a usable entry in the store: nothing was lost on the way and "old buggy
\* data" has been replaced (lines 165-169 and 231).
DoneIsSaved ==
    \A c \in Calls : STORE = "redis" /\ pc[c] = "done" /\ ~opt[c].hitsOnly =>
        \A i \in DOMAIN batch[c] : Fits(store[Slot(c, i)])

\* What was in the cache when an attempt began is not geocoded by it, not even
\* when it is a cached failure; so a retry asks only for what the failed attempt,
\* or anyone else, has not saved (lines 149-153).
NoNeedlessGeocoding ==
    \A c \in Calls : pc[c] = "geocode" =>
        \A j \in DOMAIN misses[c] : Slot(c, misses[c][j]) \notin known[c]

\* "This should be the `key_prefix` parameter passed to new_from_url", "Get a
\* prefix to use for all our keys" (key_value_stores/mod.rs:27-28): deployments
\* with different prefixes do not see each other's entries.
PrefixIsolates ==
    \A c \in Calls : pc[c] = "done" =>
        \A i \in DOMAIN batch[c] : result[c][i] \in Answer =>
            result[c][i].by = opt[c].prefix

\* A call ends, however often the store and the geocoder fail.
CallsEnd == \A c \in Calls : Active(c) ~> pc[c] \in {"done", "err"}
==============================================================================
