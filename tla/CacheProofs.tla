------------------------------ MODULE CacheProofs ------------------------------
(***************************************************************************)
(* Proofs about Cache, for any calls, addresses, configurations, batches   *)
(* and keys, both stores and any number of retries.                        *)
(***************************************************************************)
EXTENDS Cache, FiniteSetTheorems, TLAPS

Values == Answer \cup {Absent}

Types ==
    /\ store \in [Slots -> Entry \cup {Absent}]
    /\ opt \in [Calls -> Options]
    /\ pc \in [Calls -> {"idle", "read", "geocode", "save", "done", "err"}]
    /\ batch \in [Calls -> Seq(Addresses)]
    /\ keys \in [Calls -> Seq(Keys)]
    /\ DOMAIN got = Calls
    /\ result \in [Calls -> Seq(Values)]
    /\ misses \in [Calls -> Seq(Nat)]
    /\ DOMAIN unsaved = Calls
    /\ failures \in [Calls -> 0..MAX_RETRIES]
    /\ known \in [Calls -> SUBSET Slots]

\* An entry that may be in the row s.
Sound(s, e) ==
    e # Absent /\ e.values \in Answer =>
        /\ KeyOf[<<e.values.from, e.values.of>>] = s[2]
        /\ ~e.values.keyed
        /\ STORE = "redis" => e.values.by = s[1]

RowsOK == \A s \in Slots : Sound(s, store[s])

\* A command that may be in a set request: executing it makes its row usable.
GoodSet(set) ==
    set.slot \in Slots /\ set.entry \in Entry /\ Fits(set.entry) /\ Sound(set.slot, set.entry)

\* An answer that may be the i-th result of a call.
Answers(c, i, r) ==
    /\ KeyOf[<<r.from, r.of>>] = keys[c][i]
    /\ STORE = "redis" => r.by = opt[c].prefix

Asked(c) ==
    /\ DOMAIN keys[c] = DOMAIN batch[c]
    /\ \A i \in DOMAIN batch[c] : keys[c][i] = KeyOf[<<opt[c].inner, batch[c][i]>>]

\* What was read is what a row had, a usable row stays usable, and a row that was
\* usable when the attempt began was read as such.
Reading(c) ==
    /\ DOMAIN got[c] \subseteq DOMAIN batch[c]
    /\ \A i \in DOMAIN got[c] :
        /\ got[c][i] \in Entry \cup {Absent}
        /\ Sound(Slot(c, i), got[c][i])
        /\ Fits(got[c][i]) => Fits(store[Slot(c, i)])
        /\ Slot(c, i) \in known[c] => Fits(got[c][i])
    /\ \A s \in known[c] : Fits(store[s])

Partial(c) ==
    pc[c] \in {"geocode", "save"} =>
        /\ DOMAIN result[c] = DOMAIN batch[c]
        /\ \A i \in DOMAIN batch[c] : result[c][i] \in Answer =>
               Answers(c, i, result[c][i]) /\ ~result[c][i].keyed

\* Each address has an answer that is saved, or it is a miss.
Geocoding(c) ==
    pc[c] = "geocode" =>
        /\ misses[c] \in Seq(DOMAIN batch[c])
        /\ \A j \in DOMAIN misses[c] : Slot(c, misses[c][j]) \notin known[c]
        /\ \A i \in DOMAIN batch[c] :
               \/ result[c][i] \in Answer /\ Fits(store[Slot(c, i)])
               \/ \E j \in DOMAIN misses[c] : misses[c][j] = i

\* Each address has an answer, which is saved or to be saved.
Saving(c) ==
    /\ \A set \in unsaved[c] : GoodSet(set)
    /\ pc[c] = "save" =>
           \A i \in DOMAIN batch[c] :
               /\ result[c][i] \in Answer
               /\ Fits(store[Slot(c, i)]) \/ \E set \in unsaved[c] : set.slot = Slot(c, i)

\* r may be what the call returns.
DoneOK(c, r) ==
    /\ DOMAIN r = DOMAIN batch[c]
    /\ \A i \in DOMAIN batch[c] :
           IF r[i] \in Answer
           THEN Answers(c, i, r[i]) /\ (r[i].found => r[i].keyed = opt[c].outputKeys)
           ELSE opt[c].hitsOnly
    /\ STORE = "redis" /\ ~opt[c].hitsOnly =>
           \A i \in DOMAIN batch[c] : Fits(store[Slot(c, i)])

Done(c) == pc[c] = "done" => DoneOK(c, result[c])

CallOK(c) ==
    Asked(c) /\ Reading(c) /\ Partial(c) /\ Geocoding(c) /\ Saving(c) /\ Done(c)

IInv ==
    /\ Types
    /\ RowsOK
    /\ \A set \in late : GoodSet(set)
    /\ \A c \in Calls : CallOK(c)

-------------------------------------------------------------------------------
\* RowsOK and entries.

LEMMA OptionFacts ==
    ASSUME NEW o \in Options
    PROVE  /\ o.inner \in Geocoders /\ o.prefix \in STRING
           /\ o.hitsOnly \in BOOLEAN /\ o.outputKeys \in BOOLEAN
BY OptionAssumption

LEMMA KeyFacts ==
    ASSUME NEW o \in Options, NEW a \in Addresses
    PROVE  KeyOf[<<o.inner, a>>] \in Keys
BY OptionFacts, KeyAssumption

LEMMA SlotFacts ==
    ASSUME Types, NEW c \in Calls, NEW i \in DOMAIN keys[c]
    PROVE  /\ Slot(c, i) \in Slots
           /\ Slot(c, i)[1] = Prefix(opt[c]) /\ Slot(c, i)[2] = keys[c][i]
<1>1. opt[c] \in Options /\ keys[c][i] \in Keys
  BY DEF Types
<1> QED
  BY <1>1 DEF Slot, Slots

\* An answer that is saved in a row with its key.
LEMMA SavedFacts ==
    ASSUME NEW v \in Answer, ~v.keyed
    PROVE  LET e == Compressed(v)
           IN  /\ e \in Entry /\ Fits(e)
               /\ \A s : /\ KeyOf[<<v.from, v.of>>] = s[2]
                         /\ STORE = "redis" => v.by = s[1]
                         => Sound(s, e)
<1>1. Compressed(v) \in Entry /\ Compressed(v).id = "N" /\ Compressed(v).values = v
  BY DEF Compressed, Entry
<1>2. Fits(Compressed(v))
  BY <1>1, NoEntryAssumption DEF Fits
<1> QED
  BY <1>1, <1>2 DEF Sound

\* Executing a command that is sound keeps the rows sound, and usable ones usable.
LEMMA WriteFacts ==
    ASSUME IInv, NEW set, GoodSet(set), store' = [store EXCEPT ![set.slot] = set.entry]
    PROVE  /\ store' \in [Slots -> Entry \cup {Absent}]
           /\ \A s \in Slots : Fits(store[s]) => Fits(store'[s])
           /\ Fits(store'[set.slot])
           /\ RowsOK'
<1>1. store \in [Slots -> Entry \cup {Absent}] /\ RowsOK
  BY DEF IInv, Types
<1>2. \A s \in Slots : store'[s] = IF s = set.slot THEN set.entry ELSE store[s]
  BY <1>1
<1>3. set.slot \in Slots /\ set.entry \in Entry /\ Fits(set.entry) /\ Sound(set.slot, set.entry)
  BY DEF GoodSet
<1>4. store' \in [Slots -> Entry \cup {Absent}]
  BY <1>1, <1>3
<1>5. RowsOK'
  BY <1>1, <1>2, <1>3 DEF RowsOK
<1> QED
  BY <1>2, <1>3, <1>4, <1>5

\* A call that does nothing is not disturbed by what others save.
LEMMA OtherCall ==
    ASSUME IInv, NEW d \in Calls,
           opt' = opt, pc'[d] = pc[d], batch'[d] = batch[d], keys'[d] = keys[d],
           got'[d] = got[d], result'[d] = result[d], misses'[d] = misses[d],
           unsaved'[d] = unsaved[d], known'[d] = known[d],
           \A s \in Slots : Fits(store[s]) => Fits(store'[s])
    PROVE  CallOK(d)'
<1>1. CallOK(d) /\ Types
  BY DEF IInv
<1>2. \A i : Slot(d, i)' = Slot(d, i)
  BY DEF Slot
<1>3. \A i \in DOMAIN batch[d] : Slot(d, i) \in Slots
  BY <1>1, SlotFacts DEF CallOK, Asked
<1>4. Asked(d)' /\ Partial(d)'
  BY <1>1 DEF CallOK, Asked, Partial, Answers
<1>5. Reading(d)'
  BY <1>1, <1>2, <1>3 DEF CallOK, Reading, Types
<1>6. Geocoding(d)'
  BY <1>1, <1>2, <1>3 DEF CallOK, Geocoding
<1>7. Saving(d)'
  BY <1>1, <1>2, <1>3 DEF CallOK, Saving
<1>8. Done(d)'
  BY <1>1, <1>2, <1>3 DEF CallOK, Done, DoneOK, Answers
<1> QED
  BY <1>4, <1>5, <1>6, <1>7, <1>8 DEF CallOK

-------------------------------------------------------------------------------
\* Initially.

LEMMA InitInv == Init => IInv
<1> SUFFICES ASSUME Init PROVE IInv
  OBVIOUS
<1> USE DEF Init
<1>1. PICK old \in [OldSlots -> OldEntry \cup {Absent}] :
          store = [s \in Slots |-> IF s \in OldSlots THEN old[s] ELSE Absent]
  OBVIOUS
<1>2. OldEntry \subseteq Entry /\ \A e \in OldEntry : e.values = Nul
  BY DEF OldEntry, Compressed, Entry
<1>3. \A s \in Slots :
          store[s] \in Entry \cup {Absent} /\ (store[s] # Absent => store[s].values = Nul)
  BY <1>1, <1>2
<1>4. RowsOK
  BY <1>3, EntryAssumption DEF RowsOK, Sound
<1>5. store \in [Slots -> Entry \cup {Absent}]
  BY <1>1, <1>3
<1>6. Types
  BY <1>5, OptionAssumption, RetryAssumption DEF Types
<1>7. ASSUME NEW c \in Calls PROVE CallOK(c)
  BY DEF CallOK, Asked, Reading, Partial, Geocoding, Saving, Done
<1> QED
  BY <1>4, <1>6, <1>7 DEF IInv

-------------------------------------------------------------------------------
\* The ends of a call, and of an attempt.

LEMMA EndInv ==
    ASSUME IInv, NEW c \in Calls, NEW how \in {"done", "err"}, NEW r \in Seq(Values),
           End(c, how, r), how = "done" => DoneOK(c, r)
    PROVE  IInv'
<1>1. /\ pc' = [pc EXCEPT ![c] = how] /\ result' = [result EXCEPT ![c] = r]
      /\ got' = [got EXCEPT ![c] = <<>>] /\ misses' = [misses EXCEPT ![c] = <<>>]
      /\ known' = [known EXCEPT ![c] = {}] /\ unsaved' = [unsaved EXCEPT ![c] = {}]
      /\ UNCHANGED <<store, opt, batch, keys, failures>>
  BY DEF End, Abandon
<1>2. late' \subseteq late \cup unsaved[c]
  BY DEF End, Abandon
<1>3. Types
  BY DEF IInv
<1>4. Types'
  BY <1>1, <1>3 DEF Types
<1>5. RowsOK' /\ \A set \in late' : GoodSet(set)
  BY <1>1, <1>2 DEF IInv, RowsOK, CallOK, Saving
<1>6. ASSUME NEW d \in Calls \ {c} PROVE CallOK(d)'
  BY <1>1, <1>3, OtherCall DEF Types
<1>7. CallOK(c)'
  <2>1. /\ pc'[c] = how /\ result'[c] = r /\ got'[c] = <<>> /\ known'[c] = {}
        /\ unsaved'[c] = {}
    BY <1>1, <1>3 DEF Types
  <2>2. Asked(c)'
    BY <1>1 DEF IInv, CallOK, Asked
  <2>3. Reading(c)' /\ Partial(c)' /\ Geocoding(c)' /\ Saving(c)'
    BY <2>1 DEF Reading, Partial, Geocoding, Saving
  <2>4. Done(c)'
    BY <1>1, <2>1 DEF Done, DoneOK, Answers, Slot
  <2> QED
    BY <2>2, <2>3, <2>4 DEF CallOK
<1> QED
  BY <1>4, <1>5, <1>6, <1>7 DEF IInv, GoodSet

LEMMA DropInv ==
    ASSUME IInv, NEW c \in Calls, End(c, "err", <<>>)
    PROVE  IInv'
<1> DEFINE how == "err"  r == <<>>
<1>1. how \in {"done", "err"} /\ how # "done" /\ r \in Seq(Values)
  OBVIOUS
<1>2. End(c, how, r)
  OBVIOUS
<1> HIDE DEF how, r
<1> QED
  BY <1>1, <1>2, EndInv

\* The call c begins with the addresses b.
LEMMA BeginInv ==
    ASSUME IInv, NEW c \in Calls, NEW b \in Seq(Addresses), Begin(c, b),
           NEW where \in {"read", "done"}, where = "done" => b = <<>>,
           UNCHANGED <<store, opt>>, failures' \in [Calls -> 0..MAX_RETRIES],
           pc' = [pc EXCEPT ![c] = where],
           batch' = [batch EXCEPT ![c] = b],
           keys' = [keys EXCEPT ![c] = [i \in DOMAIN b |-> KeyOf[<<opt[c].inner, b[i]>>]]]
    PROVE  IInv'
<1> DEFINE ks == [i \in DOMAIN b |-> KeyOf[<<opt[c].inner, b[i]>>]]
           nothing == [i \in DOMAIN b |-> Absent]
<1>1. /\ got' = [got EXCEPT ![c] = <<>>] /\ result' = [result EXCEPT ![c] = nothing]
      /\ misses' = [misses EXCEPT ![c] = <<>>]
      /\ known' = [known EXCEPT ![c] = Usable] /\ unsaved' = [unsaved EXCEPT ![c] = {}]
      /\ late' \subseteq late \cup unsaved[c]
  BY DEF Begin, Abandon
<1>2. Types
  BY DEF IInv
<1>3. opt[c] \in Options
  BY <1>2 DEF Types
<1>4. DOMAIN b = 1..Len(b) /\ Len(b) \in Nat /\ \A i \in DOMAIN b : b[i] \in Addresses
  OBVIOUS
<1>5. ks \in Seq(Keys) /\ nothing \in Seq(Values)
  <2>1. \A i \in 1..Len(b) : KeyOf[<<opt[c].inner, b[i]>>] \in Keys
    BY <1>3, <1>4, KeyFacts
  <2> QED
    BY <1>4, <2>1 DEF Values
<1>6. Usable \subseteq Slots /\ \A s \in Usable : Fits(store[s])
  BY DEF Usable
<1>7. Types'
  BY <1>1, <1>2, <1>5, <1>6 DEF Types
<1>8. RowsOK' /\ \A set \in late' : GoodSet(set)
  BY <1>1 DEF IInv, RowsOK, CallOK, Saving
<1>9. ASSUME NEW d \in Calls \ {c} PROVE CallOK(d)'
  BY <1>1, <1>2, OtherCall DEF Types
<1>10. CallOK(c)'
  <2>1. /\ pc'[c] = where /\ batch'[c] = b /\ keys'[c] = ks /\ got'[c] = <<>>
        /\ result'[c] = nothing /\ known'[c] = Usable /\ unsaved'[c] = {}
    BY <1>1, <1>2 DEF Types
  <2>2. Asked(c)'
    BY <2>1 DEF Asked
  <2>3. Reading(c)'
    BY <1>6, <2>1 DEF Reading
  <2>4. Partial(c)' /\ Geocoding(c)' /\ Saving(c)'
    BY <2>1 DEF Partial, Geocoding, Saving
  <2>5. Done(c)'
    BY <2>1 DEF Done, DoneOK
  <2> QED
    BY <2>2, <2>3, <2>4, <2>5 DEF CallOK
<1> QED
  BY <1>7, <1>8, <1>9, <1>10 DEF IInv, GoodSet

LEMMA StartInv ==
    ASSUME IInv, NEW c \in Calls, Start(c)
    PROVE  IInv'
<1>1. PICK b \in Batches :
          /\ batch' = [batch EXCEPT ![c] = b]
          /\ keys' = [keys EXCEPT ![c] = [i \in DOMAIN b |-> KeyOf[<<opt[c].inner, b[i]>>]]]
          /\ pc' = [pc EXCEPT ![c] = IF b = <<>> THEN "done" ELSE "read"]
          /\ Begin(c, b)
          /\ UNCHANGED <<store, opt, failures>>
  BY DEF Start
<1>2. b \in Seq(Addresses) /\ failures \in [Calls -> 0..MAX_RETRIES]
  BY KeyAssumption DEF IInv, Types
<1>3. CASE b = <<>>
  BY <1>1, <1>2, <1>3, BeginInv
<1>4. CASE b # <<>>
  BY <1>1, <1>2, <1>4, BeginInv
<1> QED
  BY <1>3, <1>4

LEMMA FailInv ==
    ASSUME IInv, NEW c \in Calls, Fail(c)
    PROVE  IInv'
<1>1. CASE End(c, "err", <<>>)
  BY <1>1, DropInv
<1>2. CASE /\ failures[c] < MAX_RETRIES /\ failures' = [failures EXCEPT ![c] = @ + 1]
           /\ Retry(c)
  <2>1. Types /\ Asked(c)
    BY DEF IInv, CallOK
  <2>2. failures' \in [Calls -> 0..MAX_RETRIES]
    BY <1>2, <2>1, RetryAssumption DEF Types
  <2>3. /\ batch[c] \in Seq(Addresses)
        /\ batch' = [batch EXCEPT ![c] = batch[c]]
        /\ pc' = [pc EXCEPT ![c] = "read"] /\ Begin(c, batch[c]) /\ UNCHANGED <<store, opt>>
    BY <1>2, <2>1 DEF Retry, Types
  <2>4. keys' = [keys EXCEPT ![c] =
                    [i \in DOMAIN batch[c] |-> KeyOf[<<opt[c].inner, batch[c][i]>>]]]
    <3>1. keys[c] = [i \in DOMAIN batch[c] |-> KeyOf[<<opt[c].inner, batch[c][i]>>]]
      BY <2>1 DEF Asked, Types
    <3> QED
      BY <1>2, <2>1, <3>1 DEF Retry, Types
  <2> QED
    BY <2>2, <2>3, <2>4, BeginInv
<1> QED
  BY <1>1, <1>2 DEF Fail

-------------------------------------------------------------------------------
\* An attempt.

LEMMA ReadInv ==
    ASSUME IInv, NEW c \in Calls, Read(c)
    PROVE  IInv'
<1>1. PICK i \in DOMAIN batch[c] \ DOMAIN got[c] :
          got' = [got EXCEPT ![c] = [j \in DOMAIN got[c] \cup {i} |->
                     IF j = i THEN store[Slot(c, i)] ELSE got[c][j]]]
  BY DEF Read
<1>2. UNCHANGED <<store, opt, pc, batch, keys, result, misses, unsaved, late,
                  failures, known>>
  BY DEF Read
<1>3. Types /\ CallOK(c)
  BY DEF IInv
<1>4. Types'
  BY <1>1, <1>2, <1>3 DEF Types
<1>5. RowsOK' /\ \A set \in late' : GoodSet(set)
  BY <1>2 DEF IInv, RowsOK
<1>6. ASSUME NEW d \in Calls \ {c} PROVE CallOK(d)'
  BY <1>1, <1>2, <1>3, OtherCall DEF Types
<1>7. CallOK(c)'
  <2>1. /\ DOMAIN got'[c] = DOMAIN got[c] \cup {i}
        /\ \A j \in DOMAIN got'[c] :
               got'[c][j] = IF j = i THEN store[Slot(c, i)] ELSE got[c][j]
    BY <1>1, <1>3 DEF Types
  <2>2. Slot(c, i) \in Slots
    BY <1>3, SlotFacts DEF CallOK, Asked
  <2>3. /\ store[Slot(c, i)] \in Entry \cup {Absent} /\ Sound(Slot(c, i), store[Slot(c, i)])
        /\ Slot(c, i) \in known[c] => Fits(store[Slot(c, i)])
    BY <1>3, <2>2 DEF IInv, RowsOK, Types, CallOK, Reading
  <2>4. \A j : Slot(c, j)' = Slot(c, j)
    BY <1>2 DEF Slot
  <2>5. Reading(c)'
    BY <1>1, <1>2, <1>3, <2>1, <2>3, <2>4 DEF CallOK, Reading
  <2>6. Asked(c)' /\ Partial(c)' /\ Geocoding(c)' /\ Saving(c)' /\ Done(c)'
    BY <1>2, <1>3, <2>4
       DEF CallOK, Asked, Partial, Geocoding, Saving, Done, DoneOK, Answers
  <2> QED
    BY <2>5, <2>6 DEF CallOK
<1> QED
  BY <1>4, <1>5, <1>6, <1>7 DEF IInv, GoodSet

\* What was read is a hit or a miss; a hit is an answer for its address.
LEMMA HitFacts ==
    ASSUME IInv, NEW c \in Calls, AllRead(c)
    PROVE  /\ Hits(c) \in Seq(Values) /\ DOMAIN Hits(c) = DOMAIN batch[c]
           /\ \A i \in DOMAIN batch[c] :
               IF i \in Misses(c)
               THEN Hits(c)[i] = Absent /\ Slot(c, i) \notin known[c]
               ELSE /\ Hits(c)[i] \in Answer /\ Answers(c, i, Hits(c)[i])
                    /\ ~Hits(c)[i].keyed /\ Fits(store[Slot(c, i)])
<1>1. Types /\ Asked(c) /\ Reading(c) /\ DOMAIN got[c] = DOMAIN batch[c]
  BY DEF IInv, CallOK, AllRead, HaveRead
<1>2. ASSUME NEW i \in DOMAIN batch[c]
      PROVE  IF i \in Misses(c)
             THEN Hits(c)[i] = Absent /\ Slot(c, i) \notin known[c]
             ELSE /\ Hits(c)[i] \in Answer /\ Answers(c, i, Hits(c)[i])
                  /\ ~Hits(c)[i].keyed /\ Fits(store[Slot(c, i)])
  <2>1. Hits(c)[i] = IF Fits(got[c][i]) THEN got[c][i].values ELSE Absent
    BY DEF Hits
  <2>2. CASE i \in Misses(c)
    <3>1. ~Fits(got[c][i])
      BY <2>2, EntryAssumption DEF Misses, IsMiss, Fits
    <3> QED
      BY <1>1, <2>1, <2>2, <3>1 DEF Reading
  <2>3. CASE i \notin Misses(c)
    <3>1. Fits(got[c][i])
      BY <2>3 DEF AllRead, IsBad, Misses
    <3>2. /\ got[c][i].values \in Answer /\ got[c][i] # Absent /\ ~got[c][i].values.keyed
          /\ Sound(Slot(c, i), got[c][i]) /\ Fits(store[Slot(c, i)])
      BY <1>1, <3>1 DEF Fits, Reading
    <3>3. Slot(c, i)[1] = Prefix(opt[c]) /\ Slot(c, i)[2] = keys[c][i]
      BY <1>1, SlotFacts DEF Asked
    <3>4. STORE = "redis" => Prefix(opt[c]) = opt[c].prefix
      BY DEF Prefix
    <3> QED
      BY <2>1, <2>3, <3>1, <3>2, <3>3, <3>4 DEF Sound, Answers
  <2> QED
    BY <2>2, <2>3
<1>3. Hits(c) \in Seq(Values)
  <2>1. batch[c] \in Seq(Addresses)
    BY <1>1 DEF Types
  <2>2. DOMAIN batch[c] = 1..Len(batch[c]) /\ Len(batch[c]) \in Nat
    BY <2>1
  <2>3. \A i \in 1..Len(batch[c]) :
            (IF Fits(got[c][i]) THEN got[c][i].values ELSE Absent) \in Values
    BY <1>2, <2>2 DEF Hits, Values
  <2> QED
    BY <2>2, <2>3 DEF Hits
<1> QED
  BY <1>2, <1>3 DEF Hits

\* The cache_key column is on the matches of an output if it is asked for.
LEMMA OutputFacts ==
    ASSUME Types, NEW c \in Calls, NEW r \in Seq(Values),
           \A i \in DOMAIN r : r[i] \in Answer => ~r[i].keyed
    PROVE  /\ Output(c, r) \in Seq(Values) /\ DOMAIN Output(c, r) = DOMAIN r
           /\ \A i \in DOMAIN r :
               LET e == Output(c, r)[i]
               IN  IF r[i] \in Answer
                   THEN /\ e \in Answer /\ e.of = r[i].of /\ e.from = r[i].from
                        /\ e.by = r[i].by
                        /\ e.found => e.keyed = opt[c].outputKeys
                   ELSE e \notin Answer
<1>1. opt[c].outputKeys \in BOOLEAN
  BY OptionFacts DEF Types
<1>2. ASSUME NEW e \in Answer
      PROVE  /\ WithKey(e) \in Answer /\ WithKey(e).of = e.of /\ WithKey(e).from = e.from
             /\ WithKey(e).by = e.by /\ WithKey(e).found = e.found
             /\ e.found => WithKey(e).keyed = TRUE
  BY DEF WithKey, Answer
<1>3. \A e : e \notin Answer => WithKey(e) = e
  BY DEF WithKey
<1>4. CASE opt[c].outputKeys
  <2>1. Output(c, r) = [i \in DOMAIN r |-> WithKey(r[i])]
    BY <1>4 DEF Output
  <2>2. DOMAIN r = 1..Len(r) /\ Len(r) \in Nat
    OBVIOUS
  <2>3. Output(c, r) \in Seq(Values)
    <3>1. \A e \in Values : WithKey(e) \in Values
      BY <1>2, <1>3 DEF Values
    <3>2. \A i \in 1..Len(r) : r[i] \in Values
      OBVIOUS
    <3> QED
      BY <2>1, <2>2, <3>1, <3>2
  <2>4. \A i \in DOMAIN r : Output(c, r)[i] = WithKey(r[i])
    BY <2>1
  <2>5. DOMAIN Output(c, r) = DOMAIN r
    BY <2>1
  <2>6. opt[c].outputKeys = TRUE
    BY <1>1, <1>4
  <2> QED
    BY <1>2, <1>3, <2>3, <2>4, <2>5, <2>6
<1>5. CASE ~opt[c].outputKeys
  <2>1. Output(c, r) = r
    BY <1>5 DEF Output
  <2>2. \A e \in Answer : e.keyed \in BOOLEAN
    BY DEF Answer
  <2> QED
    BY <1>1, <1>5, <2>1, <2>2
<1> QED
  BY <1>4, <1>5

LEMMA HitsSufficeInv ==
    ASSUME IInv, NEW c \in Calls, HitsSuffice(c)
    PROVE  IInv'
<1> DEFINE r == Output(c, Hits(c))
<1>1. Types /\ AllRead(c) /\ ~MustGeocode(c) /\ End(c, "done", r)
  BY DEF IInv, HitsSuffice
<1>2. \A i \in DOMAIN Hits(c) : Hits(c)[i] \in Answer => ~Hits(c)[i].keyed
  BY <1>1, HitFacts, EntryAssumption
<1>3. r \in Seq(Values)
  BY <1>1, <1>2, HitFacts, OutputFacts
<1>4. DoneOK(c, r)
  <2>1. DOMAIN r = DOMAIN batch[c]
    BY <1>1, <1>2, HitFacts, OutputFacts
  <2>2. ASSUME NEW i \in DOMAIN batch[c]
        PROVE  /\ IF r[i] \in Answer
                  THEN Answers(c, i, r[i]) /\ (r[i].found => r[i].keyed = opt[c].outputKeys)
                  ELSE opt[c].hitsOnly
               /\ ~opt[c].hitsOnly => Fits(store[Slot(c, i)])
    <3>1. i \in DOMAIN Hits(c)
      BY <1>1, HitFacts
    <3>2. /\ Hits(c)[i] \in Answer =>
                 /\ r[i] \in Answer /\ r[i].of = Hits(c)[i].of /\ r[i].from = Hits(c)[i].from
                 /\ r[i].by = Hits(c)[i].by /\ (r[i].found => r[i].keyed = opt[c].outputKeys)
          /\ Hits(c)[i] \notin Answer => r[i] \notin Answer
      BY <1>1, <1>2, <3>1, HitFacts, OutputFacts
    <3>3. CASE i \in Misses(c)
      <4>1. opt[c].hitsOnly
        BY <1>1, <3>3 DEF MustGeocode
      <4>2. r[i] \notin Answer
        BY <1>1, <3>2, <3>3, HitFacts, EntryAssumption
      <4> QED
        BY <4>1, <4>2
    <3>4. CASE i \notin Misses(c)
      <4>1. /\ Hits(c)[i] \in Answer /\ Answers(c, i, Hits(c)[i])
            /\ Fits(store[Slot(c, i)])
        BY <1>1, <3>4, HitFacts
      <4> QED
        BY <3>2, <4>1 DEF Answers
    <3> QED
      BY <3>3, <3>4
  <2> QED
    BY <2>1, <2>2 DEF DoneOK
<1> HIDE DEF r
<1> QED
  BY <1>1, <1>3, <1>4, EndInv

LEMMA CallInnerInv ==
    ASSUME IInv, NEW c \in Calls, CallInner(c)
    PROVE  IInv'
<1>1. PICK m \in [1..Cardinality(Misses(c)) -> Misses(c)] :
          Lists(m, Misses(c)) /\ misses' = [misses EXCEPT ![c] = m]
  BY DEF CallInner
<1>2. /\ AllRead(c) /\ result' = [result EXCEPT ![c] = Hits(c)]
      /\ got' = [got EXCEPT ![c] = <<>>] /\ pc' = [pc EXCEPT ![c] = "geocode"]
      /\ UNCHANGED <<store, opt, batch, keys, unsaved, late, failures, known>>
  BY DEF CallInner
<1>3. Types /\ CallOK(c)
  BY DEF IInv
<1>4. m \in Seq(DOMAIN batch[c]) /\ m \in Seq(Nat)
  <2>1. batch[c] \in Seq(Addresses)
    BY <1>3 DEF Types
  <2>2. DOMAIN batch[c] = 1..Len(batch[c]) /\ Len(batch[c]) \in Nat
    BY <2>1
  <2>3. Misses(c) \subseteq 1..Len(batch[c])
    BY <2>2 DEF Misses
  <2>4. IsFiniteSet(Misses(c))
    <3>1. IsFiniteSet(1..Len(batch[c]))
      BY <2>2, FS_Interval
    <3> QED
      BY <2>3, <3>1, FS_Subset
  <2>5. Cardinality(Misses(c)) \in Nat
    BY <2>4, FS_CardinalityType
  <2> QED
    BY <1>1, <2>2, <2>3, <2>5
<1>5. Types'
  BY <1>1, <1>2, <1>3, <1>4, HitFacts DEF Types
<1>6. RowsOK' /\ \A set \in late' : GoodSet(set)
  BY <1>2 DEF IInv, RowsOK
<1>7. ASSUME NEW d \in Calls \ {c} PROVE CallOK(d)'
  BY <1>1, <1>2, <1>3, OtherCall DEF Types
<1>8. CallOK(c)'
  <2>1. /\ pc'[c] = "geocode" /\ result'[c] = Hits(c) /\ misses'[c] = m /\ got'[c] = <<>>
    BY <1>1, <1>2, <1>3 DEF Types
  <2>2. \A j : Slot(c, j)' = Slot(c, j)
    BY <1>2 DEF Slot
  <2>3. Asked(c)' /\ Saving(c)' /\ Done(c)'
    BY <1>2, <1>3, <2>1 DEF CallOK, Asked, Saving, Done
  <2>4. Reading(c)'
    BY <1>2, <1>3, <2>1 DEF CallOK, Reading
  <2>5. Partial(c)'
    <3>1. \A i \in DOMAIN batch[c] : Hits(c)[i] \in Answer =>
              Answers(c, i, Hits(c)[i]) /\ ~Hits(c)[i].keyed
      BY <1>2, HitFacts, EntryAssumption
    <3>2. DOMAIN Hits(c) = DOMAIN batch[c]
      BY DEF Hits
    <3> QED
      BY <1>2, <2>1, <3>1, <3>2 DEF Partial, Answers
  <2>6. Geocoding(c)'
    <3>1. Misses(c) = {m[j] : j \in DOMAIN m} /\ Misses(c) \subseteq DOMAIN batch[c]
      BY <1>1 DEF Lists, Misses
    <3>2. \A j \in DOMAIN m : Slot(c, m[j]) \notin known[c]
      BY <1>2, <3>1, HitFacts
    <3>3. \A i \in DOMAIN batch[c] :
              \/ Hits(c)[i] \in Answer /\ Fits(store[Slot(c, i)])
              \/ \E j \in DOMAIN m : m[j] = i
      BY <1>2, <3>1, HitFacts
    <3> QED
      BY <1>2, <1>4, <2>1, <2>2, <3>2, <3>3 DEF Geocoding
  <2> QED
    BY <2>3, <2>4, <2>5, <2>6 DEF CallOK
<1> QED
  BY <1>5, <1>6, <1>7, <1>8 DEF IInv, GoodSet

LEMMA GeocodeInv ==
    ASSUME IInv, NEW c \in Calls, Geocode(c)
    PROVE  IInv'
<1>1. Types /\ CallOK(c) /\ pc[c] = "geocode"
  BY DEF IInv, Geocode
<1>2. PICK found \in [DOMAIN misses[c] -> BOOLEAN] :
          LET r == [j \in DOMAIN misses[c] |->
                       Reply(opt[c], batch[c][misses[c][j]], found[j])]
              At(i) == {j \in DOMAIN misses[c] : misses[c][j] = i}
          IN  /\ result' = [result EXCEPT ![c] = [i \in DOMAIN @ |->
                     IF At(i) = {} THEN @[i] ELSE r[CHOOSE j \in At(i) : TRUE]]]
              /\ unsaved' = [unsaved EXCEPT ![c] = Sets(c, r)]
  BY DEF Geocode
<1> DEFINE r == [j \in DOMAIN misses[c] |->
                    Reply(opt[c], batch[c][misses[c][j]], found[j])]
           At(i) == {j \in DOMAIN misses[c] : misses[c][j] = i}
           new == [i \in DOMAIN result[c] |->
                      IF At(i) = {} THEN result[c][i] ELSE r[CHOOSE j \in At(i) : TRUE]]
<1>3. /\ result' = [result EXCEPT ![c] = new]
      /\ unsaved' = [unsaved EXCEPT ![c] = Sets(c, r)]
      /\ pc' = [pc EXCEPT ![c] = "save"]
      /\ UNCHANGED <<store, opt, batch, keys, got, misses, late, failures, known>>
  BY <1>2 DEF Geocode
<1>4. /\ misses[c] \in Seq(DOMAIN batch[c]) /\ batch[c] \in Seq(Addresses)
      /\ opt[c] \in Options /\ DOMAIN result[c] = DOMAIN batch[c]
      /\ result[c] \in Seq(Values)
  BY <1>1 DEF Types, CallOK, Geocoding, Partial
<1>5. ASSUME NEW j \in DOMAIN misses[c]
      PROVE  /\ misses[c][j] \in DOMAIN batch[c]
             /\ r[j] \in Answer /\ ~r[j].keyed /\ Answers(c, misses[c][j], r[j])
  <2>1. misses[c][j] \in DOMAIN batch[c] /\ batch[c][misses[c][j]] \in Addresses
    BY <1>4
  <2>2. /\ r[j] = Reply(opt[c], batch[c][misses[c][j]], found[j])
        /\ found[j] \in BOOLEAN
    OBVIOUS
  <2>3. /\ r[j] \in Answer /\ ~r[j].keyed /\ r[j].of = batch[c][misses[c][j]]
        /\ r[j].from = opt[c].inner /\ r[j].by = opt[c].prefix
    BY <1>4, <2>1, <2>2, OptionFacts DEF Reply, Answer
  <2>4. keys[c][misses[c][j]] = KeyOf[<<opt[c].inner, batch[c][misses[c][j]]>>]
    BY <1>1, <2>1 DEF CallOK, Asked
  <2> QED
    BY <2>1, <2>3, <2>4 DEF Answers
<1>6. ASSUME NEW set \in Sets(c, r) PROVE GoodSet(set)
  <2>1. PICK j \in DOMAIN misses[c] :
            set = [at |-> j, slot |-> Slot(c, misses[c][j]), entry |-> Compressed(r[j])]
    BY DEF Sets
  <2>2. /\ misses[c][j] \in DOMAIN batch[c]
        /\ r[j] \in Answer /\ ~r[j].keyed /\ Answers(c, misses[c][j], r[j])
    BY <1>5
  <2>3. /\ Slot(c, misses[c][j]) \in Slots
        /\ Slot(c, misses[c][j])[1] = Prefix(opt[c])
        /\ Slot(c, misses[c][j])[2] = keys[c][misses[c][j]]
    BY <1>1, <2>2, SlotFacts DEF CallOK, Asked
  <2>4. set.slot = Slot(c, misses[c][j]) /\ set.entry = Compressed(r[j])
    BY <2>1
  <2>5. STORE = "redis" => Prefix(opt[c]) = opt[c].prefix
    BY DEF Prefix
  <2> HIDE DEF r
  <2> QED
    BY ONLY <2>2, <2>3, <2>4, <2>5, SavedFacts DEF GoodSet, Answers
<1>7. ASSUME NEW i \in DOMAIN batch[c]
      PROVE  IF At(i) = {}
             THEN new[i] = result[c][i]
             ELSE \E j \in DOMAIN misses[c] : misses[c][j] = i /\ new[i] = r[j]
  <2>1. new[i] = IF At(i) = {} THEN result[c][i] ELSE r[CHOOSE j \in At(i) : TRUE]
    BY <1>4
  <2>2. CASE At(i) # {}
    <3>1. (CHOOSE j \in At(i) : TRUE) \in At(i)
      BY <2>2
    <3> QED
      BY <2>1, <2>2, <3>1
  <2> QED
    BY <2>1, <2>2
<1>8. DOMAIN new = DOMAIN batch[c]
  BY <1>4
<1>9. new \in Seq(Values)
  <2>1. DOMAIN batch[c] = 1..Len(batch[c]) /\ Len(batch[c]) \in Nat
    BY <1>4
  <2> HIDE DEF r, At
  <2>2. ASSUME NEW i \in DOMAIN batch[c] PROVE new[i] \in Values
    <3>1. CASE At(i) = {}
      <4>1. result[c][i] \in Values
        BY <1>4
      <4> QED
        BY <1>7, <3>1, <4>1
    <3>2. CASE At(i) # {}
      <4>1. PICK j \in DOMAIN misses[c] : new[i] = r[j]
        BY <1>7, <3>2
      <4> QED
        BY <1>5, <4>1 DEF Values
    <3> QED
      BY <3>1, <3>2
  <2>3. new \in [1..Len(batch[c]) -> Values]
    BY <1>4, <2>1, <2>2
  <2> HIDE DEF new
  <2> QED
    BY <2>1, <2>3
<1>10. ASSUME NEW i \in DOMAIN batch[c]
       PROVE  /\ new[i] \in Answer /\ Answers(c, i, new[i]) /\ ~new[i].keyed
              /\ \/ Fits(store[Slot(c, i)])
                 \/ \E set \in Sets(c, r) : set.slot = Slot(c, i)
  <2>1. CASE At(i) = {}
    <3>1. result[c][i] \in Answer /\ Fits(store[Slot(c, i)])
      BY <1>1, <2>1 DEF CallOK, Geocoding
    <3>2. Answers(c, i, result[c][i]) /\ ~result[c][i].keyed
      BY <1>1, <3>1 DEF CallOK, Partial
    <3> QED
      BY <1>7, <2>1, <3>1, <3>2
  <2>2. CASE At(i) # {}
    <3>1. PICK j \in DOMAIN misses[c] : misses[c][j] = i /\ new[i] = r[j]
      BY <1>7, <2>2
    <3>2. new[i] \in Answer /\ Answers(c, i, new[i]) /\ ~new[i].keyed
      BY <1>5, <3>1
    <3> DEFINE set == [at |-> j, slot |-> Slot(c, misses[c][j]), entry |-> Compressed(r[j])]
    <3>3. set \in Sets(c, r) /\ set.slot = Slot(c, i)
      BY <3>1 DEF Sets
    <3> QED
      BY <3>2, <3>3
  <2> QED
    BY <2>1, <2>2
<1> HIDE DEF new, r, At
<1>11. Types'
  BY <1>1, <1>3, <1>9 DEF Types
<1>12. RowsOK' /\ \A set \in late' : GoodSet(set)
  BY <1>3 DEF IInv, RowsOK
<1>13. ASSUME NEW d \in Calls \ {c} PROVE CallOK(d)'
  BY <1>1, <1>3, OtherCall DEF Types
<1>14. CallOK(c)'
  <2>1. pc'[c] = "save" /\ result'[c] = new /\ unsaved'[c] = Sets(c, r)
    BY <1>1, <1>3 DEF Types
  <2>2. \A i : Slot(c, i)' = Slot(c, i)
    BY <1>3 DEF Slot
  <2>3. Asked(c)' /\ Reading(c)' /\ Geocoding(c)' /\ Done(c)'
    BY <1>1, <1>3, <2>1, <2>2 DEF CallOK, Asked, Reading, Geocoding, Done
  <2>4. Partial(c)'
    BY <1>3, <1>8, <1>10, <2>1 DEF Partial, Answers
  <2>5. Saving(c)'
    BY <1>3, <1>6, <1>10, <2>1, <2>2 DEF Saving, GoodSet
  <2> QED
    BY <2>3, <2>4, <2>5 DEF CallOK
<1> QED
  BY <1>11, <1>12, <1>13, <1>14 DEF IInv, GoodSet

LEMMA SaveOneInv ==
    ASSUME IInv, NEW c \in Calls, SaveOne(c)
    PROVE  IInv'
<1>1. PICK set \in unsaved[c] :
          /\ store' = [store EXCEPT ![set.slot] = set.entry]
          /\ unsaved' = [unsaved EXCEPT ![c] = @ \ {set}]
  BY DEF SaveOne
<1>2. UNCHANGED <<opt, pc, batch, keys, got, result, misses, late, failures, known>>
  BY DEF SaveOne
<1>3. Types /\ CallOK(c) /\ GoodSet(set)
  BY DEF IInv, CallOK, Saving
<1>4. /\ store' \in [Slots -> Entry \cup {Absent}] /\ RowsOK'
      /\ \A s \in Slots : Fits(store[s]) => Fits(store'[s])
      /\ Fits(store'[set.slot])
  BY <1>1, <1>3, WriteFacts
<1>5. Types' /\ \A s \in late' : GoodSet(s)
  BY <1>1, <1>2, <1>3, <1>4 DEF IInv, Types
<1>6. ASSUME NEW d \in Calls \ {c} PROVE CallOK(d)'
  BY <1>1, <1>2, <1>3, <1>4, OtherCall DEF Types
<1>7. CallOK(c)'
  <2>1. unsaved'[c] = unsaved[c] \ {set}
    BY <1>1, <1>3 DEF Types
  <2>2. \A i : Slot(c, i)' = Slot(c, i)
    BY <1>2 DEF Slot
  <2>3. \A i \in DOMAIN batch[c] : Slot(c, i) \in Slots
    BY <1>3, SlotFacts DEF CallOK, Asked
  <2>4. Asked(c)' /\ Partial(c)'
    BY <1>2, <1>3 DEF CallOK, Asked, Partial, Answers
  <2>5. Reading(c)'
    BY <1>2, <1>3, <1>4, <2>2, <2>3 DEF CallOK, Reading, Types
  <2>6. Geocoding(c)' /\ Done(c)'
    BY <1>1, <1>2, <1>3 DEF CallOK, Geocoding, Done, SaveOne
  <2>7. Saving(c)'
    BY <1>2, <1>3, <1>4, <2>1, <2>2, <2>3 DEF CallOK, Saving, GoodSet
  <2> QED
    BY <2>4, <2>5, <2>6, <2>7 DEF CallOK
<1> QED
  BY <1>4, <1>5, <1>6, <1>7 DEF IInv, GoodSet

LEMMA SaveLateInv ==
    ASSUME IInv, SaveLate
    PROVE  IInv'
<1>1. PICK set \in late :
          late' = late \ {set} /\ store' = [store EXCEPT ![set.slot] = set.entry]
  BY DEF SaveLate
<1>2. UNCHANGED <<opt, pc, batch, keys, got, result, misses, unsaved, failures, known>>
  BY DEF SaveLate
<1>3. Types /\ GoodSet(set)
  BY DEF IInv
<1>4. /\ store' \in [Slots -> Entry \cup {Absent}] /\ RowsOK'
      /\ \A s \in Slots : Fits(store[s]) => Fits(store'[s])
  BY <1>1, <1>3, WriteFacts
<1>5. Types' /\ \A s \in late' : GoodSet(s)
  BY <1>1, <1>2, <1>3, <1>4 DEF IInv, Types
<1>6. ASSUME NEW d \in Calls PROVE CallOK(d)'
  BY <1>2, <1>4, OtherCall
<1> QED
  BY <1>4, <1>5, <1>6 DEF IInv, GoodSet

LEMMA SavedInv ==
    ASSUME IInv, NEW c \in Calls, Saved(c)
    PROVE  IInv'
<1> DEFINE r == Output(c, result[c])
<1>1. /\ Types /\ CallOK(c) /\ pc[c] = "save" /\ End(c, "done", r)
      /\ unsaved[c] = {} \/ STORE = "bigtable"
  BY DEF IInv, Saved
<1>2. /\ result[c] \in Seq(Values) /\ DOMAIN result[c] = DOMAIN batch[c]
      /\ \A i \in DOMAIN batch[c] :
             /\ result[c][i] \in Answer /\ Answers(c, i, result[c][i])
             /\ ~result[c][i].keyed
  BY <1>1 DEF Types, CallOK, Partial, Saving
<1>3. /\ r \in Seq(Values) /\ DOMAIN r = DOMAIN batch[c]
      /\ \A i \in DOMAIN batch[c] :
             /\ r[i] \in Answer /\ r[i].of = result[c][i].of /\ r[i].from = result[c][i].from
             /\ r[i].by = result[c][i].by /\ (r[i].found => r[i].keyed = opt[c].outputKeys)
  BY <1>1, <1>2, OutputFacts
<1>4. STORE = "redis" => \A i \in DOMAIN batch[c] : Fits(store[Slot(c, i)])
  BY <1>1 DEF CallOK, Saving
<1> HIDE DEF r
<1>5. DoneOK(c, r)
  BY <1>2, <1>3, <1>4 DEF DoneOK, Answers
<1> QED
  BY <1>1, <1>3, <1>5, EndInv

-------------------------------------------------------------------------------

LEMMA NextInv == IInv /\ [Next]_vars => IInv'
<1> SUFFICES ASSUME IInv, [Next]_vars PROVE IInv'
  OBVIOUS
<1>1. CASE UNCHANGED vars
  <2>1. UNCHANGED <<store, opt, pc, batch, keys, got, result, misses, unsaved, late,
                    failures, known>>
    BY <1>1 DEF vars
  <2>2. \A d \in Calls : CallOK(d)'
    BY <2>1, OtherCall
  <2> QED
    BY <2>1, <2>2 DEF IInv, Types, RowsOK, GoodSet
<1>2. CASE SaveLate
  BY <1>2, SaveLateInv
<1>3. ASSUME NEW c \in Calls, Start(c) \/ Proceed(c) \/ CallFail(c) \/ Dropped(c)
      PROVE  IInv'
  <2>1. CASE CallFail(c) \/ ReadBad(c)
    BY <2>1, FailInv DEF CallFail, ReadBad
  <2>2. CASE Dropped(c)
    BY <2>2, DropInv DEF Dropped
  <2> QED
    BY <1>3, <2>1, <2>2, StartInv, ReadInv, HitsSufficeInv, CallInnerInv, GeocodeInv,
       SaveOneInv, SavedInv DEF Proceed
<1> QED
  BY <1>1, <1>2, <1>3 DEF Next, Terminated

LEMMA Invariance == Spec => []IInv
BY InitInv, NextInv, PTL DEF Spec

-------------------------------------------------------------------------------
\* Theorems.

\* The variables have the values the code gives them.
THEOREM TypesOK == Spec => []TypeOK
<1>1. IInv => TypeOK
  BY DEF IInv, TypeOK, Types, Values, CallOK, Reading, Saving, GoodSet
<1> QED
  BY <1>1, Invariance, PTL

\* Whatever calls interleave, fail, are dropped or save late, an entry is an answer
\* for its key, without the cache_key column: anyone who has the key may use it.
THEOREM EntriesAreSound == Spec => []StoreSound
<1>1. IInv => StoreSound
  BY DEF IInv, RowsOK, Sound, StoreSound
<1> QED
  BY <1>1, Invariance, PTL

\* A call that succeeds returns an answer for each address at its place.  That it
\* is about this address and from such a geocoder is up to the keys: no others
\* may have this one.
THEOREM ResultsAreSound ==
    ASSUME \A g, h \in Geocoders, a, b \in Addresses :
               KeyOf[<<g, a>>] = KeyOf[<<h, b>>] => g = h /\ Same(a, b)
    PROVE  Spec => []ResultsSound
<1>1. ASSUME IInv PROVE ResultsSound
  <2> SUFFICES ASSUME NEW c \in Calls, pc[c] = "done"
               PROVE  /\ Len(result[c]) = Len(batch[c])
                      /\ \A i \in DOMAIN batch[c] :
                             LET r == result[c][i]
                             IN  IF r \in Answer
                                 THEN /\ Same(r.of, batch[c][i])
                                      /\ r.from = opt[c].inner
                                      /\ r.found => r.keyed = opt[c].outputKeys
                                 ELSE opt[c].hitsOnly
    BY DEF ResultsSound
  <2>1. Types /\ Asked(c) /\ DoneOK(c, result[c])
    BY <1>1 DEF IInv, CallOK, Done
  <2>2. Len(result[c]) = Len(batch[c])
    <3>1. result[c] \in Seq(Values) /\ batch[c] \in Seq(Addresses)
      BY <2>1 DEF Types
    <3>2. DOMAIN result[c] = DOMAIN batch[c]
      BY <2>1 DEF DoneOK
    <3> DEFINE m == Len(result[c])  n == Len(batch[c])
    <3>3. m \in Nat /\ n \in Nat /\ 1..m = 1..n
      BY <3>1, <3>2
    <3> HIDE DEF m, n
    <3>4. m = n
      BY <3>3
    <3> QED
      BY <3>4 DEF m, n
  <2>3. ASSUME NEW i \in DOMAIN batch[c], result[c][i] \in Answer
        PROVE  Same(result[c][i].of, batch[c][i]) /\ result[c][i].from = opt[c].inner
    <3>1. KeyOf[<<result[c][i].from, result[c][i].of>>] = KeyOf[<<opt[c].inner, batch[c][i]>>]
      BY <2>1, <2>3 DEF DoneOK, Answers, Asked
    <3>2. /\ result[c][i].from \in Geocoders /\ result[c][i].of \in Addresses
          /\ opt[c].inner \in Geocoders /\ batch[c][i] \in Addresses
      BY <2>1, <2>3, OptionFacts DEF Types, Answer
    <3> QED
      BY <3>1, <3>2
  <2> QED
    BY <2>1, <2>2, <2>3 DEF DoneOK
<1> QED
  BY <1>1, Invariance, PTL

\* With Redis, a call that may geocode leaves a usable entry for each address.
THEOREM DoneMeansSaved == Spec => []DoneIsSaved
<1>1. IInv => DoneIsSaved
  BY DEF IInv, CallOK, Done, DoneOK, DoneIsSaved
<1> QED
  BY <1>1, Invariance, PTL

\* An attempt never pays for what was in the cache when it began: what others save
\* meanwhile, and what is saved late, keeps usable rows usable.
THEOREM NothingIsPaidTwice == Spec => []NoNeedlessGeocoding
<1>1. IInv => NoNeedlessGeocoding
  BY DEF IInv, CallOK, Geocoding, NoNeedlessGeocoding
<1> QED
  BY <1>1, Invariance, PTL

\* What the prefix promises holds of Redis (and not of BigTable): deployments with
\* different prefixes do not see each other's entries.
THEOREM PrefixesIsolateInRedis ==
    ASSUME STORE = "redis"
    PROVE  Spec => []PrefixIsolates
<1>1. IInv => PrefixIsolates
  BY DEF IInv, CallOK, Done, DoneOK, Answers, PrefixIsolates
<1> QED
  BY <1>1, Invariance, PTL
===============================================================================
