---------------------------- MODULE NewRelicProofs -----------------------------
(***************************************************************************)
(* Proofs about NewRelic, for any counters, any number of reporting tasks  *)
(* and any number of reports: what is subtracted is never more than what   *)
(* it is subtracted from, no failure loses a count, and no sample is in    *)
(* two summaries.                                                          *)
(***************************************************************************)
EXTENDS NewRelic, PositionsProofs

Types ==
    /\ backend \in {"none", "newrelic", "prometheus"}
    /\ Counts(count, Nat) /\ Counts(previously, Nat)
    /\ Counts(received, Nat) /\ Counts(confirmed, Nat)
    /\ metadata \in Reporters \cup {Nobody}
    /\ pc \in [Reporters -> {"idle", "waiting", "reading", "sending", "delivered"}]
    /\ handles \in [Reporters -> SUBSET DOMAIN count]
    /\ DOMAIN current = Reporters
    /\ \A r \in Reporters :
        /\ Loaded(r) \subseteq handles[r]
        /\ Counts(current[r], Nat)

\* The reporter with the lock is the one that reads or sends; the others have
\* nothing loaded; and only NewRelic's recorder has a lock.
Exclusive ==
    /\ \A r \in Reporters :
        /\ pc[r] \in {"reading", "sending", "delivered"} <=> metadata = r
        /\ metadata # r => Loaded(r) = {}
    /\ metadata # Nobody => backend = "newrelic"

\* What is remembered, what is loaded and what is counted.
Ordered ==
    /\ \A k \in Counters : Value(previously, k) <= Value(count, k)
    /\ \A r \in Reporters : \A k \in Loaded(r) :
        Value(previously, k) <= current[r][k] /\ current[r][k] <= Value(count, k)

\* What NewRelic was told, and what is remembered of it.
Told ==
    /\ \A k \in Counters :
        /\ Value(received, k) >= Value(previously, k)
        /\ Value(received, k) >= Value(confirmed, k)
    /\ \A r \in Reporters : \A k \in Loaded(r) :
        pc[r] = "delivered" => Value(received, k) >= current[r][k]

IInv == Types /\ Exclusive /\ Ordered /\ Told

-------------------------------------------------------------------------------
\* Counts.

LEMMA InsertFacts ==
    ASSUME NEW f, NEW g, Counts(f, Nat), Counts(g, Nat)
    PROVE  /\ Counts(Insert(f, g), Nat)
           /\ DOMAIN Insert(f, g) = DOMAIN f \cup DOMAIN g
           /\ \A k : Value(Insert(f, g), k) = IF k \in DOMAIN g THEN g[k] ELSE Value(f, k)
BY DEF Counts, Insert, Value

LEMMA ValueNat ==
    ASSUME NEW f, Counts(f, Nat), NEW k
    PROVE  Value(f, k) \in Nat /\ (k \in DOMAIN f => Value(f, k) = f[k])
BY DEF Counts, Value

LEMMA EmptyCounts == Counts(<<>>, Nat) /\ DOMAIN <<>> = {} /\ \A k : Value(<<>>, k) = 0
BY DEF Counts, Value

LEMMA InitInv == Init => IInv
<1> SUFFICES ASSUME Init PROVE IInv
  OBVIOUS
<1> USE DEF Init, Built, Loaded
<1>1. Types
  BY EmptyCounts DEF Types
<1>2. Exclusive
  BY ReporterAssumption, EmptyCounts DEF Exclusive
<1>3. Ordered
  BY EmptyCounts DEF Ordered
<1>4. Told
  BY EmptyCounts DEF Told
<1> QED
  BY <1>1, <1>2, <1>3, <1>4 DEF IInv

-------------------------------------------------------------------------------
\* The program.

LEMMA IncrementInv ==
    ASSUME IInv, NEW k \in Counters, NEW n \in {0, 1}, Increment(k, n)
    PROVE  IInv'
<1> DEFINE more == [j \in {k} |-> Value(count, k) + n]
<1> USE DEF IInv, Increment, reporting
<1>1. Counts(count, Nat)
  BY DEF Types
<1>2. Counts(more, Nat) /\ DOMAIN more = {k} /\ more[k] = Value(count, k) + n
  BY <1>1, ValueNat DEF Counts
<1> HIDE DEF more
<1>3. count' = Insert(count, more)
  BY DEF more
<1>4. /\ Counts(count', Nat) /\ DOMAIN count \subseteq DOMAIN count'
      /\ \A j : Value(count', j) = IF j = k THEN Value(count, k) + n ELSE Value(count, j)
  <2>1. /\ Counts(count', Nat) /\ DOMAIN count' = DOMAIN count \cup DOMAIN more
        /\ \A j : Value(count', j) = IF j \in DOMAIN more THEN more[j] ELSE Value(count, j)
    BY ONLY <1>1, <1>2, <1>3, InsertFacts
  <2> QED
    BY ONLY <1>2, <2>1
<1>5. \A j \in Counters : Value(count, j) \in Nat /\ Value(count', j) >= Value(count, j)
  BY <1>1, <1>4, ValueNat
<1>6. Types'
  BY <1>4 DEF Types, Loaded
<1>7. Exclusive'
  BY DEF Exclusive, Loaded
<1>8. Ordered'
  <2>1. \A j \in Counters : Value(previously, j) \in Nat /\ Value(count', j) \in Nat
    BY <1>4, ValueNat DEF Types
  <2>2. \A r \in Reporters : \A j \in Loaded(r) : j \in Counters /\ current[r][j] \in Nat
    BY DEF Types, Counts, Loaded
  <2> QED
    BY <1>5, <2>1, <2>2 DEF Ordered, Loaded
<1>9. Told'
  BY DEF Told, Loaded
<1> QED
  BY <1>6, <1>7, <1>8, <1>9

\* A step after which the counts are as they were.
LEMMA QuietInv ==
    ASSUME IInv,
           UNCHANGED <<count, metadata, previously, pc, handles, current, received,
                       confirmed>>,
           backend' \in {"newrelic", "prometheus"},
           backend # "none" => backend' = backend
    PROVE  IInv'
<1> USE DEF IInv
<1>1. Types'
  BY DEF Types, Loaded
<1>2. Exclusive'
  BY DEF Exclusive, Loaded
<1>3. Ordered' /\ Told'
  BY DEF Ordered, Told, Loaded
<1> QED
  BY <1>1, <1>2, <1>3

-------------------------------------------------------------------------------
\* A report.

LEMMA CallInv ==
    ASSUME IInv, NEW r \in Reporters, Call(r)
    PROVE  IInv'
<1> USE DEF IInv, Call, Goto, program, atNewRelic
<1>1. Types'
  BY DEF Types, Loaded
<1>2. Exclusive'
  BY DEF Exclusive, Loaded, Types
<1>3. Ordered' /\ Told'
  BY DEF Ordered, Told, Loaded, Types
<1> QED
  BY <1>1, <1>2, <1>3

LEMMA RenderInv ==
    ASSUME IInv, NEW r \in Reporters, Render(r)
    PROVE  IInv'
<1> USE DEF IInv, Render, Goto, program
<1>1. /\ Counts(count, Nat) /\ Counts(received, Nat) /\ Counts(confirmed, Nat)
      /\ Counts(previously, Nat)
  BY DEF Types
<1>2. /\ Counts(received', Nat) /\ Counts(confirmed', Nat)
      /\ \A k : /\ Value(received', k) =
                        IF k \in DOMAIN count THEN count[k] ELSE Value(received, k)
                /\ Value(confirmed', k) =
                        IF k \in DOMAIN count THEN count[k] ELSE Value(confirmed, k)
  <2>1. received' = Insert(received, count) /\ confirmed' = Insert(confirmed, count)
    OBVIOUS
  <2>2. /\ Counts(Insert(received, count), Nat)
        /\ \A k : Value(Insert(received, count), k) =
                      IF k \in DOMAIN count THEN count[k] ELSE Value(received, k)
    BY ONLY <1>1, InsertFacts
  <2>3. /\ Counts(Insert(confirmed, count), Nat)
        /\ \A k : Value(Insert(confirmed, count), k) =
                      IF k \in DOMAIN count THEN count[k] ELSE Value(confirmed, k)
    BY ONLY <1>1, InsertFacts
  <2> QED
    BY ONLY <2>1, <2>2, <2>3
<1>3. metadata = Nobody
  BY DEF Exclusive
<1>4. \A q \in Reporters : Loaded(q) = {} /\ Loaded(q)' = {}
  BY <1>3, ReporterAssumption DEF Exclusive, Loaded
<1>5. Types'
  BY <1>2 DEF Types, Loaded
<1>6. Exclusive'
  BY <1>3, <1>4, ReporterAssumption DEF Exclusive, Types
<1>7. Ordered'
  BY <1>4 DEF Ordered
<1>8. Told'
  <2> SUFFICES ASSUME NEW k \in Counters
               PROVE  /\ Value(received', k) >= Value(previously, k)
                      /\ Value(received', k) >= Value(confirmed', k)
    BY <1>4 DEF Told
  <2>1. Value(count, k) \in Nat /\ (k \in DOMAIN count => Value(count, k) = count[k])
    BY <1>1, ValueNat
  <2>2. Value(previously, k) <= Value(count, k)
    BY DEF Ordered
  <2>3. CASE k \in DOMAIN count
    BY <1>2, <2>1, <2>2, <2>3
  <2>4. CASE k \notin DOMAIN count
    BY <1>2, <2>4 DEF Told
  <2> QED
    BY <2>3, <2>4
<1> QED
  BY <1>5, <1>6, <1>7, <1>8

LEMMA LockInv ==
    ASSUME IInv, NEW r \in Reporters, Lock(r)
    PROVE  IInv'
<1> USE DEF IInv, Lock, Goto, program, atNewRelic
<1>1. \A q \in Reporters : Loaded(q) = {} /\ Loaded(q)' = {}
  BY ReporterAssumption DEF Exclusive, Loaded
<1>2. Types'
  BY <1>1 DEF Types, Loaded
<1>3. Exclusive'
  BY <1>1, ReporterAssumption DEF Exclusive, Types
<1>4. Ordered' /\ Told'
  BY <1>1 DEF Ordered, Told
<1> QED
  BY <1>2, <1>3, <1>4

\* What is loaded is what was counted by then, and so no less than what is
\* remembered.
LEMMA LoadInv ==
    ASSUME IInv, NEW r \in Reporters, NEW k \in Counters, Load(r, k)
    PROVE  IInv'
<1> DEFINE more == [j \in {k} |-> count[k]]
<1> USE DEF IInv, Load, program, atNewRelic
<1>1. k \in DOMAIN count /\ Counts(count, Nat) /\ Counts(current[r], Nat)
  BY DEF Types
<1>2. Counts(more, Nat) /\ DOMAIN more = {k} /\ more[k] = count[k]
  BY <1>1 DEF Counts
<1> HIDE DEF more
<1>3. current' = [current EXCEPT ![r] = Insert(current[r], more)]
  BY DEF more
<1>4. /\ DOMAIN current' = Reporters
      /\ current'[r] = Insert(current[r], more)
      /\ \A q \in Reporters \ {r} : current'[q] = current[q]
  BY <1>3 DEF Types
<1>5. /\ Counts(current'[r], Nat)
      /\ DOMAIN current'[r] = DOMAIN current[r] \cup {k}
      /\ \A j : Value(current'[r], j) =
                    IF j = k THEN count[k] ELSE Value(current[r], j)
  <2> DEFINE new == Insert(current[r], more)
  <2>1. /\ Counts(new, Nat) /\ DOMAIN new = DOMAIN current[r] \cup DOMAIN more
        /\ \A j : Value(new, j) = IF j \in DOMAIN more THEN more[j] ELSE Value(current[r], j)
    BY ONLY <1>1, <1>2, InsertFacts
  <2>2. current'[r] = new
    BY <1>4
  <2> HIDE DEF new
  <2> QED
    BY ONLY <1>2, <2>1, <2>2
<1>6. \A j \in DOMAIN current'[r] : current'[r][j] = IF j = k THEN count[k] ELSE current[r][j]
  BY <1>5 DEF Value
<1>7. Types'
  BY <1>1, <1>4, <1>5 DEF Types, Loaded
<1>8. Exclusive'
  BY <1>4 DEF Exclusive, Loaded
<1>9. Ordered'
  <2>1. Value(previously, k) <= Value(count, k) /\ Value(count, k) = count[k]
    BY <1>1, ValueNat DEF Ordered
  <2>2. count[k] \in Nat
    BY <1>1 DEF Counts
  <2> QED
    BY <1>4, <1>5, <1>6, <2>1, <2>2 DEF Ordered, Loaded
<1>10. Told'
  BY <1>4 DEF Told, Loaded, Types
<1> QED
  BY <1>7, <1>8, <1>9, <1>10

LEMMA ClearBucketInv ==
    ASSUME IInv, NEW r \in Reporters, ClearBucket(r)
    PROVE  IInv'
<1> USE DEF IInv, ClearBucket, Goto, program, atNewRelic
<1>1. Types'
  BY DEF Types, Loaded
<1>2. Exclusive'
  BY DEF Exclusive, Loaded, Types
<1>3. Ordered' /\ Told'
  BY DEF Ordered, Told, Loaded, Types
<1> QED
  BY <1>1, <1>2, <1>3

\* The parts of a report, by the invariant.
LEMMA ReportFacts ==
    ASSUME IInv, NEW r \in Reporters, NEW k \in Loaded(r)
    PROVE  /\ k \in Counters /\ current[r][k] \in Nat /\ Value(previously, k) \in Nat
           /\ Value(received, k) \in Nat
           /\ ReportedCount(r, k) = current[r][k] - Value(previously, k)
           /\ ReportedCount(r, k) \in Nat
<1>1. k \in Counters /\ current[r][k] \in Nat
  BY DEF IInv, Types, Counts, Loaded
<1>2. Value(previously, k) \in Nat /\ Value(received, k) \in Nat
  BY ValueNat DEF IInv, Types
<1>3. Value(previously, k) <= current[r][k]
  BY DEF IInv, Ordered
<1> QED
  BY <1>1, <1>2, <1>3 DEF ReportedCount

\* What NewRelic adds is what was counted less what is remembered, and it was told
\* at least that.
LEMMA DeliverInv ==
    ASSUME IInv, NEW r \in Reporters, Deliver(r)
    PROVE  IInv'
<1> DEFINE more == [k \in Loaded(r) |-> Value(received, k) + ReportedCount(r, k)]
<1>1. /\ received' = Insert(received, more)
      /\ pc' = [pc EXCEPT ![r] = "delivered"] /\ pc[r] = "sending"
      /\ UNCHANGED <<backend, count, recorded, bucket, metadata, previously, handles,
                     current, samples, confirmed, lostReply, reports>>
  BY DEF Deliver, MetricsReport, Goto, program, Loaded
<1>2. Counts(more, Nat) /\ DOMAIN more = Loaded(r)
  BY ReportFacts DEF Counts, Loaded
<1>3. /\ Counts(received', Nat)
      /\ \A k : Value(received', k) = IF k \in Loaded(r) THEN more[k] ELSE Value(received, k)
  BY <1>1, <1>2, InsertFacts DEF IInv, Types
<1>4. \A k \in Loaded(r) :
        /\ Value(received', k) \in Nat
        /\ Value(received', k) >= Value(received, k)
        /\ Value(received', k) >= current[r][k]
  <2> SUFFICES ASSUME NEW k \in Loaded(r)
               PROVE  /\ Value(received', k) \in Nat
                      /\ Value(received', k) >= Value(received, k)
                      /\ Value(received', k) >= current[r][k]
    OBVIOUS
  <2>1. Value(received', k) = Value(received, k) + ReportedCount(r, k)
    BY <1>3
  <2>2. Value(received, k) >= Value(previously, k)
    BY ReportFacts DEF IInv, Told
  <2> QED
    BY <2>1, <2>2, ReportFacts
<1>5. \A q \in Reporters \ {r} : pc'[q] = pc[q] /\ pc[q] # "delivered"
  BY <1>1, ReporterAssumption DEF IInv, Exclusive, Types
<1>6. Types'
  BY <1>1, <1>3 DEF IInv, Types, Loaded
<1>7. Exclusive'
  BY <1>1 DEF IInv, Exclusive, Types, Loaded
<1>8. Ordered'
  BY <1>1 DEF IInv, Ordered, Loaded
<1>9. Told'
  <2>1. ASSUME NEW k \in Counters
        PROVE  Value(received', k) >= Value(previously, k) /\ Value(received', k) >= Value(confirmed, k)
    <3>1. /\ Value(received, k) \in Nat /\ Value(previously, k) \in Nat
          /\ Value(confirmed, k) \in Nat
      BY ValueNat DEF IInv, Types
    <3>2. Value(received, k) >= Value(previously, k) /\ Value(received, k) >= Value(confirmed, k)
      BY DEF IInv, Told
    <3>3. CASE k \in Loaded(r)
      BY <1>4, <3>1, <3>2, <3>3
    <3>4. CASE k \notin Loaded(r)
      BY <1>3, <3>2, <3>4
    <3> QED
      BY <3>3, <3>4
  <2> QED
    BY <1>1, <1>4, <1>5, <2>1 DEF Told, Loaded
<1> QED
  BY <1>6, <1>7, <1>8, <1>9 DEF IInv

\* What a returning future leaves behind.
LEMMA ReturnFacts ==
    ASSUME IInv, NEW r \in Reporters, Return(r)
    PROVE  /\ \A q \in Reporters \ {r} : pc'[q] = pc[q] /\ current'[q] = current[q]
           /\ pc'[r] = "idle" /\ Loaded(r)' = {}
           /\ metadata' = IF metadata = r THEN Nobody ELSE metadata
           /\ UNCHANGED <<backend, count, received>>
           /\ Exclusive'
           /\ Counts(previously', Nat) /\ Counts(confirmed', Nat) => Types'
<1> USE DEF IInv, Return, Goto, program
<1>1. /\ \A q \in Reporters \ {r} : pc'[q] = pc[q] /\ current'[q] = current[q]
      /\ DOMAIN current' = Reporters /\ current'[r] = <<>>
      /\ pc'[r] = "idle" /\ Loaded(r)' = {}
  BY EmptyCounts DEF Types, Loaded
<1>2. Exclusive'
  BY <1>1, ReporterAssumption DEF Exclusive, Loaded, Types
<1>3. ASSUME Counts(previously', Nat), Counts(confirmed', Nat) PROVE Types'
  BY <1>1, <1>3, EmptyCounts DEF Types, Loaded
<1> QED
  BY <1>1, <1>2, <1>3

LEMMA FailInv ==
    ASSUME IInv, NEW r \in Reporters, Fail(r)
    PROVE  IInv'
<1> USE DEF IInv
<1>1. Return(r) /\ UNCHANGED <<previously, confirmed>>
  BY DEF Fail
<1>2. Types' /\ Exclusive'
  BY <1>1, ReturnFacts DEF Types
<1>3. Ordered' /\ Told'
  BY <1>1, ReturnFacts DEF Ordered, Told, Loaded
<1> QED
  BY <1>2, <1>3

\* What is remembered is a part of what was loaded; no other reporter has loaded
\* anything.
LEMMA ConfirmInv ==
    ASSUME IInv, NEW r \in Reporters, Confirm(r)
    PROVE  IInv'
<1> DEFINE more == [k \in Loaded(r) |-> ReportedCount(r, k)]
<1>1. /\ Return(r) /\ pc[r] = "delivered"
      /\ previously' = Insert(previously, more)
      /\ confirmed' = Insert(confirmed, current[r])
  BY DEF Confirm
<1>2. Counts(more, Nat) /\ DOMAIN more = Loaded(r)
  BY ReportFacts DEF Counts, Loaded
<1>3. /\ Counts(previously', Nat)
      /\ \A k : Value(previously', k) =
                    IF k \in Loaded(r) THEN ReportedCount(r, k) ELSE Value(previously, k)
  <2>1. Counts(previously, Nat)
    BY DEF IInv, Types
  <2>2. /\ Counts(previously', Nat)
        /\ \A k : Value(previously', k) =
                      IF k \in DOMAIN more THEN more[k] ELSE Value(previously, k)
    BY ONLY <1>1, <1>2, <2>1, InsertFacts
  <2> QED
    BY <1>2, <2>2
<1>4. /\ Counts(confirmed', Nat)
      /\ \A k : Value(confirmed', k) =
                    IF k \in Loaded(r) THEN current[r][k] ELSE Value(confirmed, k)
  <2>1. Counts(confirmed, Nat) /\ Counts(current[r], Nat)
    BY DEF IInv, Types
  <2>2. /\ Counts(Insert(confirmed, current[r]), Nat)
        /\ \A k : Value(Insert(confirmed, current[r]), k) =
                      IF k \in DOMAIN current[r] THEN current[r][k] ELSE Value(confirmed, k)
    BY ONLY <2>1, InsertFacts
  <2> QED
    BY ONLY <1>1, <2>2 DEF Loaded
<1>5. Types' /\ Exclusive'
  BY <1>1, <1>3, <1>4, ReturnFacts
<1>6. \A q \in Reporters : Loaded(q)' = {}
  <2>1. metadata = r
    BY <1>1 DEF IInv, Exclusive
  <2>2. metadata' = Nobody
    BY <1>1, <2>1, ReturnFacts
  <2> QED
    BY <1>5, <2>2, ReporterAssumption DEF Exclusive, Loaded
<1>7. ASSUME NEW k \in Counters
      PROVE  /\ Value(previously', k) <= Value(count, k)
             /\ Value(received, k) >= Value(previously', k)
             /\ Value(received, k) >= Value(confirmed', k)
  <2>1. CASE k \in Loaded(r)
    <3>1. Value(previously', k) = ReportedCount(r, k) /\ Value(confirmed', k) = current[r][k]
      BY <1>3, <1>4, <2>1
    <3>2. ReportedCount(r, k) <= current[r][k] /\ ReportedCount(r, k) \in Nat
          /\ current[r][k] \in Nat /\ Value(received, k) \in Nat
      BY <2>1, ReportFacts
    <3>3. current[r][k] <= Value(count, k) /\ Value(count, k) \in Nat
      BY <2>1, ValueNat DEF IInv, Ordered, Types
    <3>4. Value(received, k) >= current[r][k]
      BY <1>1, <2>1 DEF IInv, Told
    <3> QED
      BY <3>1, <3>2, <3>3, <3>4
  <2>2. CASE k \notin Loaded(r)
    BY <1>3, <1>4, <2>2 DEF IInv, Ordered, Told
  <2> QED
    BY <2>1, <2>2
<1>8. Ordered' /\ Told'
  BY <1>1, <1>6, <1>7, ReturnFacts DEF Ordered, Told
<1> QED
  BY <1>5, <1>8 DEF IInv

-------------------------------------------------------------------------------

LEMMA NextInv == IInv /\ [Next]_vars => IInv'
<1> SUFFICES ASSUME IInv, [Next]_vars PROVE IInv'
  OBVIOUS
<1>1. CASE UNCHANGED vars
  BY <1>1 DEF vars, IInv, Types, Exclusive, Ordered, Told, Loaded
<1>2. CASE InstallNewRelic \/ InstallPrometheus
  BY <1>2, QuietInv DEF InstallNewRelic, InstallPrometheus, reporting
<1>3. ASSUME NEW k \in Counters, NEW n \in {0, 1}, Increment(k, n) PROVE IInv'
  BY <1>3, IncrementInv
<1>4. CASE RecordSample
  BY <1>4, QuietInv DEF RecordSample, reporting, IInv, Types
<1>5. ASSUME NEW r \in Reporters, Call(r) \/ Proceed(r) \/ Cancel(r) PROVE IInv'
  <2>1. ASSUME NEW k \in Counters, Load(r, k) PROVE IInv'
    BY <2>1, LoadInv
  <2>2. CASE HttpError(r) \/ UnexpectedHttpStatus(r) \/ Cancel(r)
    BY <2>2, FailInv DEF HttpError, UnexpectedHttpStatus, Cancel
  <2> QED
    BY <1>5, <2>1, <2>2, CallInv, RenderInv, LockInv, ClearBucketInv, DeliverInv,
       ConfirmInv DEF Proceed
<1> QED
  BY <1>1, <1>2, <1>3, <1>4, <1>5 DEF Next

LEMMA Invariance == Spec => []IInv
BY InitInv, NextInv, PTL DEF Spec

\* `current - previous` of `Inner::report` does not underflow, whenever counters are
\* registered and however reports fail: what is remembered is at most what was
\* loaded, although it is not what was loaded.
THEOREM NeverUnderflows == Spec => []NoUnderflow
<1>1. IInv => NoUnderflow
  <2> SUFFICES ASSUME IInv, NEW k \in Counters
               PROVE  /\ Value(previously, k) <= Value(count, k)
                      /\ \A r \in Reporters : k \in Loaded(r) => ReportedCount(r, k) >= 0
    BY DEF NoUnderflow
  <2>1. Value(previously, k) <= Value(count, k)
    BY DEF IInv, Ordered
  <2>2. ASSUME NEW r \in Reporters, k \in Loaded(r) PROVE ReportedCount(r, k) >= 0
    BY <2>2, ReportFacts
  <2> QED
    BY <2>1, <2>2
<1> QED
  BY <1>1, Invariance, PTL

\* Whatever fails, NewRelic was told of no less than what a confirmed report
\* counted: the metadata are updated after the request and not before.
THEOREM NothingIsLost == Spec => []NothingLost
<1>1. IInv => NothingLost
  BY DEF IInv, Told, NothingLost
<1> QED
  BY <1>1, Invariance, PTL

-------------------------------------------------------------------------------
\* Sums, of which `Summary` returns one.

Total(values) == FoldLeft(LAMBDA sum, v : sum + v, 0, values)

\* Adding the values up, over the sets in T.
Adds(values, T, f) ==
    f = [s \in T |-> IF s = {} THEN 0 ELSE f[Before(s)] + values[Max(s)]]

LEMMA AddsExist ==
    ASSUME NEW n \in Nat, NEW values
    PROVE  \E f : Adds(values, SUBSET (1..n), f)
<1> DEFINE S == 1..n
           T == {m \in Nat : \E f : Adds(values, UpTo(S, m), f)}
<1>1. \A m \in Nat : \A s \in UpTo(S, m) :
          /\ s \in UpTo(S, m + 1)
          /\ m = 0 => s = {}
          /\ s # {} => \A k \in Nat : m = k + 1 => Before(s) \in UpTo(S, k)
  BY UpToIs
<1>2. Cardinality(S) \in Nat /\ UpTo(S, Cardinality(S)) = SUBSET S
  BY AllUpTo
<1> HIDE DEF S
<1>3. 0 \in T
  <2>1. \A s \in UpTo(S, 0) : s = {}
    BY <1>1
  <2>2. Adds(values, UpTo(S, 0), [s \in UpTo(S, 0) |-> 0])
    BY <2>1 DEF Adds
  <2> QED
    BY <2>2
<1>4. ASSUME NEW m \in Nat, m \in T
      PROVE  m + 1 \in T
  <2>1. PICK f : Adds(values, UpTo(S, m), f)
    BY <1>4
  <2> DEFINE g == [s \in UpTo(S, m + 1) |->
                      IF s = {} THEN 0 ELSE f[Before(s)] + values[Max(s)]]
  <2>2. \A s \in UpTo(S, m) : g[s] = f[s]
    BY <1>1, <2>1 DEF Adds
  <2>3. \A s \in UpTo(S, m + 1) : s # {} => Before(s) \in UpTo(S, m)
    BY <1>1
  <2>4. g = [s \in UpTo(S, m + 1) |-> IF s = {} THEN 0 ELSE g[Before(s)] + values[Max(s)]]
    BY <2>2, <2>3
  <2> HIDE DEF g
  <2>5. Adds(values, UpTo(S, m + 1), g)
    BY <2>4 DEF Adds
  <2> QED
    BY <2>5
<1>5. Cardinality(S) \in T
  <2> HIDE DEF T
  <2> QED
    BY <1>2, <1>3, <1>4, Induction
<1> QED
  BY <1>2, <1>5 DEF S

\* The sums f of the first l of n values, for each l.
Partial(values, n, f) ==
    /\ f[0] = 0
    /\ \A l \in 0..(n - 1) : f[l + 1] = f[l] + values[l + 1]
    /\ Total(values) = f[n]

LEMMA PartialSums ==
    ASSUME NEW n \in Nat, NEW values, DOMAIN values = 1..n
    PROVE  \E f : Partial(values, n, f)
<1> DEFINE add == CHOOSE f : Adds(values, SUBSET (1..n), f)
           g == [l \in 0..n |-> add[1..l]]
<1>1. Total(values) = add[1..n]
  BY DEF Total, FoldLeft, MapThenFoldSet, Adds, Before
<1>2. Adds(values, SUBSET (1..n), add)
  BY AddsExist
<1> HIDE DEF add
<1>3. g[0] = 0
  <2>1. 1..0 = {} /\ 1..0 \in SUBSET (1..n)
    OBVIOUS
  <2>2. add[1..0] = 0
    BY <1>2, <2>1 DEF Adds
  <2> QED
    BY <2>2
<1>4. ASSUME NEW l \in 0..(n - 1)
      PROVE  g[l + 1] = g[l] + values[l + 1]
  <2>1. l \in 0..n /\ l + 1 \in 0..n /\ l \in Nat
    OBVIOUS
  <2>2. 1..(l + 1) \in SUBSET (1..n) /\ 1..(l + 1) # {}
    BY <2>1
  <2>3. Max(1..(l + 1)) = l + 1
    <3>1. Max(1..(l + 1)) \in 1..(l + 1) /\ \A k \in 1..(l + 1) : k <= Max(1..(l + 1))
      BY <2>1, <2>2, MaxPosition
    <3>2. l + 1 \in 1..(l + 1)
      BY <2>1
    <3> QED
      BY <2>1, <3>1, <3>2
  <2>4. Before(1..(l + 1)) = 1..l
    BY <2>1, <2>3 DEF Before
  <2>5. add[1..(l + 1)] = add[1..l] + values[l + 1]
    BY <1>2, <2>2, <2>3, <2>4 DEF Adds
  <2> QED
    BY <2>1, <2>5
<1>5. g[n] = add[1..n]
  OBVIOUS
<1> HIDE DEF g
<1> QED
  BY <1>1, <1>3, <1>4, <1>5 DEF Partial

LEMMA TotalIsNat ==
    ASSUME NEW values \in Seq(Nat)
    PROVE  Total(values) \in Nat
<1> DEFINE n == Len(values)
<1>1. n \in Nat /\ DOMAIN values = 1..n /\ \A l \in 1..n : values[l] \in Nat
  BY LenProperties
<1> HIDE DEF n
<1>2. PICK f : Partial(values, n, f)
  BY <1>1, PartialSums
<1> DEFINE T == {l \in Nat : l <= n => f[l] \in Nat}
<1>3. 0 \in T
  BY <1>2 DEF Partial
<1>4. ASSUME NEW l \in Nat, l \in T
      PROVE  l + 1 \in T
  <2>1. SUFFICES ASSUME l + 1 <= n PROVE f[l + 1] \in Nat
    OBVIOUS
  <2>2. l \in 0..(n - 1) /\ l + 1 \in 1..n /\ l <= n
    BY <1>1, <2>1
  <2>3. f[l + 1] = f[l] + values[l + 1] /\ values[l + 1] \in Nat /\ f[l] \in Nat
    BY <1>1, <1>2, <1>4, <2>2 DEF Partial
  <2> QED
    BY <2>3
<1>5. n \in T
  <2> HIDE DEF T
  <2> QED
    BY <1>1, <1>3, <1>4, Induction
<1> QED
  BY <1>1, <1>2, <1>5 DEF Partial

LEMMA TotalOfNone == Total(<<>>) = 0
<1>1. DOMAIN <<>> = 1..0
  OBVIOUS
<1>2. PICK f : Partial(<<>>, 0, f)
  BY <1>1, PartialSums
<1> QED
  BY <1>2 DEF Partial

LEMMA TotalJoined ==
    ASSUME NEW s \in Seq(Nat), NEW t \in Seq(Nat)
    PROVE  Total(s \o t) = Total(s) + Total(t)
<1> DEFINE r == s \o t
           n == Len(s)
           m == Len(t)
<1>1. /\ n \in Nat /\ DOMAIN s = 1..n /\ IsRow(s, n) /\ \A l \in 1..n : s[l] \in Nat
      /\ m \in Nat /\ DOMAIN t = 1..m /\ IsRow(t, m) /\ \A l \in 1..m : t[l] \in Nat
  BY LenProperties, ListIsRow
<1> HIDE DEF n, m
<1>2. IsJoin(r, s, n, t, m)
  BY <1>1, Joined
<1> HIDE DEF r
<1>3. /\ DOMAIN r = 1..(n + m)
      /\ \A l \in 1..n : r[l] = s[l]
      /\ \A l \in 1..m : r[n + l] = t[l]
  BY <1>2 DEF IsJoin, IsRow
<1>4. PICK f : Partial(s, n, f)
  BY <1>1, PartialSums
<1>5. PICK g : Partial(t, m, g)
  BY <1>1, PartialSums
<1>6. PICK h : Partial(r, n + m, h)
  <2>1. n + m \in Nat
    BY <1>1
  <2> QED
    BY <1>3, <2>1, PartialSums
<1> DEFINE T == {l \in Nat : l <= n => h[l] = f[l]}
           U == {l \in Nat : l <= m => h[n + l] = f[n] + g[l] /\ g[l] \in Nat}
<1>7. 0 \in T
  BY <1>4, <1>6 DEF Partial
<1>8. ASSUME NEW l \in Nat, l \in T
      PROVE  l + 1 \in T
  <2>1. SUFFICES ASSUME l + 1 <= n PROVE h[l + 1] = f[l + 1]
    OBVIOUS
  <2>2. l \in 0..(n - 1) /\ l \in 0..((n + m) - 1) /\ l + 1 \in 1..n /\ l <= n
    BY <1>1, <2>1
  <2>3. f[l + 1] = f[l] + s[l + 1]
    BY <1>4, <2>2 DEF Partial
  <2>4. h[l + 1] = h[l] + r[l + 1]
    BY <1>6, <2>2 DEF Partial
  <2> QED
    BY <1>3, <1>8, <2>2, <2>3, <2>4
<1>9. n \in T
  <2> HIDE DEF T
  <2> QED
    BY <1>1, <1>7, <1>8, Induction
<1>10. f[n] \in Nat
  <2>1. Total(s) \in Nat
    BY TotalIsNat
  <2> QED
    BY <1>4, <2>1 DEF Partial
<1>11. 0 \in U
  BY <1>1, <1>5, <1>9, <1>10 DEF Partial
<1>12. ASSUME NEW l \in Nat, l \in U
       PROVE  l + 1 \in U
  <2>1. SUFFICES ASSUME l + 1 <= m PROVE h[n + (l + 1)] = f[n] + g[l + 1] /\ g[l + 1] \in Nat
    OBVIOUS
  <2>2. l \in 0..(m - 1) /\ l + 1 \in 1..m /\ l <= m
    BY <1>1, <2>1
  <2>3. g[l + 1] = g[l] + t[l + 1] /\ t[l + 1] \in Nat
    BY <1>1, <1>5, <2>2 DEF Partial
  <2>4. h[(n + l) + 1] = h[n + l] + r[(n + l) + 1]
    <3>1. n + l \in 0..((n + m) - 1)
      BY <1>1, <2>2
    <3> QED
      BY <1>6, <3>1 DEF Partial
  <2>5. (n + l) + 1 = n + (l + 1)
    BY <1>1
  <2>6. h[n + l] = f[n] + g[l] /\ g[l] \in Nat
    BY <1>12, <2>2
  <2>7. r[n + (l + 1)] = t[l + 1]
    BY <1>3, <2>2
  <2>8. PICK k : k = n + (l + 1)
    OBVIOUS
  <2>9. h[k] = h[n + l] + r[k] /\ r[k] = t[l + 1]
    BY <2>4, <2>5, <2>7, <2>8
  <2>10. PICK a, b, c, d, e : a = h[n + l] /\ b = f[n] /\ c = g[l] /\ d = t[l + 1] /\ e = g[l + 1]
    OBVIOUS
  <2>11. a = b + c /\ e = c + d /\ h[k] = a + d
    BY <2>3, <2>6, <2>9, <2>10
  <2>12. b \in Nat /\ c \in Nat /\ d \in Nat
    BY <1>10, <2>3, <2>6, <2>10
  <2>13. h[k] = b + e /\ e \in Nat
    BY <2>11, <2>12
  <2> QED
    BY <2>8, <2>10, <2>13
<1>13. m \in U
  <2> HIDE DEF U
  <2> QED
    BY <1>1, <1>11, <1>12, Induction
<1> QED
  BY <1>1, <1>4, <1>5, <1>6, <1>13 DEF Partial, r

LEMMA TotalAppended ==
    ASSUME NEW s \in Seq(Nat), NEW x \in Nat
    PROVE  Total(Append(s, x)) = Total(s) + x
<1>1. <<x>> \in Seq(Nat) /\ Append(s, x) = s \o <<x>>
  BY AppendIsConcat
<1>2. Total(<<x>>) = x
  <2>1. DOMAIN <<x>> = 1..1
    OBVIOUS
  <2>2. PICK f : Partial(<<x>>, 1, f)
    BY <2>1, PartialSums
  <2>3. f[0] = 0 /\ f[0 + 1] = f[0] + <<x>>[0 + 1] /\ Total(<<x>>) = f[1]
    BY <2>2 DEF Partial
  <2> QED
    BY <2>3
<1> QED
  BY <1>1, <1>2, TotalJoined

-------------------------------------------------------------------------------
\* Samples.  They are in the bucket, in the request that is under way, or in what
\* NewRelic has; the invariant above says that there is but one request.

Pending ==
    IF metadata \in Reporters /\ pc[metadata] = "sending" THEN samples[metadata] ELSE <<>>

SampleTypes ==
    /\ bucket \in Seq(1..MaxSamples)
    /\ samples \in [Reporters -> Seq(1..MaxSamples)]
    /\ summarised \in [count : Nat, sum : Nat] /\ recorded \in 0..MaxSamples
    /\ lostReply \in BOOLEAN /\ reports \in 0..MaxReports
Ever == [n \in 1..recorded |-> n]
SentOnce ==
    /\ Len(bucket) + Len(Pending) + summarised.count <= recorded
    /\ Total(bucket) + Total(Pending) + summarised.sum <= Total(Ever)

SInv == SampleTypes /\ SentOnce

\* A list of samples has a length and a sum.
Sized(s) == Len(s) \in Nat /\ Total(s) \in Nat

LEMMA SampleFacts ==
    ASSUME NEW s \in Seq(1..MaxSamples)
    PROVE  s \in Seq(Nat) /\ Sized(s)
<1>1. Len(s) \in Nat /\ IsRow(s, Len(s)) /\ \A j \in 1..Len(s) : s[j] \in 1..MaxSamples
  BY ListIsRow
<1>2. s \in Seq(Nat)
  <2>1. \A j \in 1..Len(s) : s[j] \in Nat
    BY <1>1
  <2> QED
    BY <1>1, <2>1, RowType
<1> QED
  BY <1>1, <1>2, TotalIsNat DEF Sized

LEMMA NoSample == <<>> \in Seq(1..MaxSamples) /\ Len(<<>>) = 0 /\ Total(<<>>) = 0
BY TotalOfNone, EmptySeq

\* What is known of the samples before a step.
LEMMA Known ==
    ASSUME SInv
    PROVE  /\ bucket \in Seq(1..MaxSamples) /\ Pending \in Seq(1..MaxSamples)
           /\ \A r \in Reporters : samples[r] \in Seq(1..MaxSamples) /\ Sized(samples[r])
           /\ Sized(bucket) /\ Sized(Pending)
           /\ summarised.count \in Nat /\ summarised.sum \in Nat /\ recorded \in Nat
           /\ Total(Ever) \in Nat
<1>1. /\ bucket \in Seq(1..MaxSamples) /\ recorded \in Nat
      /\ \A r \in Reporters : samples[r] \in Seq(1..MaxSamples)
      /\ summarised.count \in Nat /\ summarised.sum \in Nat
  BY BoundAssumption DEF SInv, SampleTypes
<1>2. Pending \in Seq(1..MaxSamples)
  <2>1. <<>> \in Seq(1..MaxSamples)
    BY NoSample
  <2> QED
    BY <1>1, <2>1 DEF Pending
<1>3. Ever \in Seq(Nat)
  <2>1. \A j \in 1..recorded : Ever[j] \in Nat
    BY <1>1 DEF Ever
  <2>2. IsRow(Ever, recorded)
    BY DEF Ever, IsRow
  <2> QED
    BY <1>1, <2>1, <2>2, RowType
<1>4. Total(Ever) \in Nat
  BY <1>3, TotalIsNat
<1>5. \A s \in Seq(1..MaxSamples) : Sized(s)
  BY SampleFacts
<1> QED
  BY <1>1, <1>2, <1>4, <1>5

\* The requests, the bucket and what NewRelic has stay as they are, or a request is
\* given up.
LEMMA SamplesStay ==
    ASSUME SInv, UNCHANGED <<bucket, summarised, recorded>>,
           samples' \in [Reporters -> Seq(1..MaxSamples)],
           lostReply' \in BOOLEAN, reports' \in 0..MaxReports,
           Pending' = Pending \/ Pending' = <<>>
    PROVE  SInv'
<1>1. /\ Sized(bucket) /\ Sized(Pending)
      /\ summarised.count \in Nat /\ summarised.sum \in Nat
  BY Known
<1>2. bucket' = bucket /\ summarised' = summarised /\ recorded' = recorded /\ Ever' = Ever
  BY DEF Ever
<1>3. Len(Pending)' <= Len(Pending) /\ Total(Pending)' <= Total(Pending)
      /\ Len(Pending)' \in Nat /\ Total(Pending)' \in Nat
  <2>1. CASE Pending' = Pending
    <3>1. Len(Pending)' = Len(Pending) /\ Total(Pending)' = Total(Pending)
      BY <2>1
    <3> QED
      BY <1>1, <3>1 DEF Sized
  <2>2. CASE Pending' = <<>>
    <3>1. Len(Pending)' = 0 /\ Total(Pending)' = 0
      BY <2>2, NoSample
    <3> QED
      BY <1>1, <3>1 DEF Sized
  <2> QED
    BY <2>1, <2>2
<1>4. SentOnce'
  <2>1. /\ Len(bucket)' = Len(bucket) /\ Total(bucket)' = Total(bucket)
        /\ Total(Ever)' = Total(Ever)
    BY <1>2
  <2>2. /\ Len(bucket) + Len(Pending)' + summarised.count <= recorded
        /\ Total(bucket) + Total(Pending)' + summarised.sum <= Total(Ever)
    <3>1. PICK a, b, c, d : /\ a = Len(bucket) /\ b = Len(Pending)
                            /\ c = Len(Pending)' /\ d = summarised.count
      OBVIOUS
    <3>2. PICK e, f, g, h : /\ e = Total(bucket) /\ f = Total(Pending)
                            /\ g = Total(Pending)' /\ h = summarised.sum
      OBVIOUS
    <3>3. PICK n, m : n = recorded /\ m = Total(Ever)
      OBVIOUS
    <3>4. a + b + d <= n /\ e + f + h <= m
      BY <3>1, <3>2, <3>3 DEF SInv, SentOnce
    <3>5. a \in Nat /\ b \in Nat /\ d \in Nat /\ e \in Nat /\ f \in Nat /\ h \in Nat
      BY <1>1, <3>1, <3>2 DEF Sized
    <3>6. c <= b /\ g <= f /\ c \in Nat /\ g \in Nat
      BY <1>3, <3>1, <3>2
    <3>7. n \in Nat /\ m \in Nat
      BY <3>3, Known
    <3>8. a + c + d <= n /\ e + g + h <= m
      BY <3>4, <3>5, <3>6, <3>7
    <3> QED
      BY <3>1, <3>2, <3>3, <3>8
  <2> QED
    BY <1>2, <2>1, <2>2 DEF SentOnce
<1>5. SampleTypes'
  BY <1>2 DEF SInv, SampleTypes
<1> QED
  BY <1>4, <1>5 DEF SInv

LEMMA SInit == Init => SInv
<1> SUFFICES ASSUME Init PROVE SInv
  OBVIOUS
<1>1. /\ bucket = <<>> /\ summarised = Nothing /\ recorded = 0 /\ reports = 0
      /\ samples = [r \in Reporters |-> <<>>] /\ metadata = Nobody /\ lostReply = FALSE
  BY DEF Init, Built
<1>2. SampleTypes
  <2>1. bucket \in Seq(1..MaxSamples) /\ samples \in [Reporters -> Seq(1..MaxSamples)]
    BY <1>1, NoSample
  <2>2. summarised \in [count : Nat, sum : Nat] /\ recorded \in 0..MaxSamples
        /\ reports \in 0..MaxReports
    BY <1>1, BoundAssumption DEF Nothing
  <2>3. lostReply \in BOOLEAN
    BY <1>1, Zenon
  <2> QED
    BY <2>1, <2>2, <2>3 DEF SampleTypes
<1>3. SentOnce
  <2>1. Pending = <<>>
    BY <1>1, ReporterAssumption DEF Pending
  <2>2. Len(bucket) = 0 /\ Len(Pending) = 0 /\ Total(bucket) = 0 /\ Total(Pending) = 0
    BY <1>1, <2>1, NoSample
  <2>3. Total(Ever) = 0
    <3>1. DOMAIN Ever = 1..0
      BY <1>1 DEF Ever
    <3>2. PICK f : Partial(Ever, 0, f)
      BY <3>1, PartialSums
    <3> QED
      BY <3>2 DEF Partial
  <2> QED
    BY <1>1, <2>2, <2>3 DEF SentOnce, Nothing
<1> QED
  BY <1>2, <1>3 DEF SInv

LEMMA RecordSampleKeeps == ASSUME SInv, RecordSample PROVE SInv'
<1>1. /\ recorded < MaxSamples /\ bucket' = Append(bucket, recorded + 1)
      /\ recorded' = recorded + 1
      /\ metadata' = metadata /\ pc' = pc /\ samples' = samples /\ summarised' = summarised
      /\ lostReply' = lostReply /\ reports' = reports
  BY DEF RecordSample, reporting
<1>2. /\ bucket \in Seq(1..MaxSamples) /\ Sized(bucket) /\ Sized(Pending)
      /\ summarised.count \in Nat /\ summarised.sum \in Nat /\ recorded \in Nat
      /\ Total(Ever) \in Nat
  BY Known
<1>3. recorded + 1 \in 1..MaxSamples /\ recorded' \in 0..MaxSamples
  BY <1>1, <1>2, BoundAssumption
<1>4. /\ bucket' \in Seq(1..MaxSamples) /\ Len(bucket') = Len(bucket) + 1
      /\ Total(bucket') = Total(bucket) + (recorded + 1)
  <2>1. bucket' \in Seq(1..MaxSamples) /\ Len(bucket') = Len(bucket) + 1
    BY <1>1, <1>2, <1>3, AppendProperties
  <2>2. bucket \in Seq(Nat)
    BY <1>2, SampleFacts
  <2>3. PICK s : s = bucket
    OBVIOUS
  <2>4. PICK x : x = recorded + 1
    OBVIOUS
  <2>5. Total(Append(s, x)) = Total(s) + x
    BY <1>2, <2>2, <2>3, <2>4, TotalAppended
  <2>6. bucket' = Append(s, x)
    BY <1>1, <2>3, <2>4
  <2> QED
    BY <2>1, <2>3, <2>4, <2>5, <2>6
<1>5. Total(Ever)' = Total(Ever) + (recorded + 1)
  <2>1. PICK m : m = recorded
    OBVIOUS
  <2>2. PICK e : e = [n \in 1..m |-> n]
    OBVIOUS
  <2>3. PICK g : g = [n \in 1..(m + 1) |-> n]
    OBVIOUS
  <2>4. m \in Nat /\ Ever = e /\ Ever' = g
    BY <1>1, <1>2, <2>1, <2>2, <2>3 DEF Ever
  <2>5. PICK x : x = m + 1
    OBVIOUS
  <2>6. e \in Seq(Nat) /\ Len(e) = m
    <3>1. IsRow(e, m) /\ \A j \in 1..m : e[j] \in Nat
      BY <2>2, <2>4 DEF IsRow
    <3> QED
      BY <2>4, <3>1, RowType, RowLength
  <2>7. Append(e, x) = g
    <3>1. IsRow(e, m) /\ IsRow(<<x>>, 1) /\ 1 \in Nat
      BY <2>2 DEF IsRow
    <3>2. IsJoin(e \o <<x>>, e, m, <<x>>, 1)
      BY <2>4, <3>1, Joined
    <3>3. PICK r : r = e \o <<x>>
      OBVIOUS
    <3>4. /\ IsRow(r, m + 1)
          /\ \A j \in 1..m : r[j] = e[j]
          /\ \A j \in 1..1 : r[m + j] = <<x>>[j]
      BY <3>2, <3>3 DEF IsJoin
    <3>5. r[m + 1] = x
      BY <3>4
    <3>6. ASSUME NEW j \in 1..(m + 1)
          PROVE  r[j] = j
      <4>1. CASE j \in 1..m
        BY <2>2, <3>4, <4>1
      <4>2. CASE j \notin 1..m
        <5>1. j = m + 1
          BY <2>4, <4>2
        <5> QED
          BY <2>5, <3>5, <5>1
      <4> QED
        BY <4>1, <4>2
    <3>7. r = g
      BY <2>3, <3>4, <3>6 DEF IsRow
    <3>8. Append(e, x) = e \o <<x>>
      BY <2>4, <2>5, <2>6, AppendIsConcat
    <3> QED
      BY <3>3, <3>7, <3>8
  <2>8. Total(Append(e, x)) = Total(e) + x
    <3>1. x \in Nat
      BY <2>4, <2>5
    <3> QED
      BY <2>6, <3>1, TotalAppended
  <2>9. Total(Ever)' = Total(g) /\ Total(Ever) = Total(e)
    BY <2>4
  <2> QED
    BY <2>1, <2>5, <2>7, <2>8, <2>9
<1>6. Pending' = Pending
  BY <1>1 DEF Pending
<1>7. SentOnce'
  <2>1. /\ Len(bucket)' = Len(bucket) + 1 /\ Len(Pending)' = Len(Pending)
        /\ Total(bucket)' = Total(bucket) + (recorded + 1) /\ Total(Pending)' = Total(Pending)
    BY <1>4, <1>6
  <2>2. /\ Len(bucket) + Len(Pending) + summarised.count <= recorded
        /\ Total(bucket) + Total(Pending) + summarised.sum <= Total(Ever)
    BY DEF SInv, SentOnce
  <2>3. PICK a, b, d, e, f, h : /\ a = Len(bucket) /\ b = Len(Pending) /\ d = summarised.count
                                /\ e = Total(bucket) /\ f = Total(Pending) /\ h = summarised.sum
    OBVIOUS
  <2>4. PICK n, m : n = recorded /\ m = Total(Ever)
    OBVIOUS
  <2>5. a + b + d <= n /\ e + f + h <= m
    BY <2>2, <2>3, <2>4
  <2>6. /\ a \in Nat /\ b \in Nat /\ d \in Nat /\ e \in Nat /\ f \in Nat /\ h \in Nat
        /\ n \in Nat /\ m \in Nat
    BY <1>2, <2>3, <2>4 DEF Sized
  <2>7. (a + 1) + b + d <= n + 1 /\ (e + (n + 1)) + f + h <= m + (n + 1)
    BY <2>5, <2>6
  <2>8. /\ Len(bucket)' = a + 1 /\ Len(Pending)' = b /\ (summarised.count)' = d
        /\ Total(bucket)' = e + (n + 1) /\ Total(Pending)' = f /\ (summarised.sum)' = h
    BY <1>1, <2>1, <2>3, <2>4
  <2>9. recorded' = n + 1 /\ Total(Ever)' = m + (n + 1)
    BY <1>1, <1>5, <2>4
  <2> QED
    BY <2>7, <2>8, <2>9 DEF SentOnce
<1>8. SampleTypes'
  BY <1>1, <1>3, <1>4 DEF SInv, SampleTypes
<1> QED
  BY <1>7, <1>8 DEF SInv

\* Steps that touch neither samples nor the request under way.
LEMMA PendingStays ==
    ASSUME metadata' = metadata, samples' = samples,
           \A q \in Reporters : pc'[q] = "sending" <=> pc[q] = "sending"
    PROVE  Pending' = Pending
BY DEF Pending

LEMMA CallKeeps == ASSUME IInv, SInv, NEW r \in Reporters, Call(r) PROVE SInv'
<1>1. /\ pc[r] = "idle" /\ reports < MaxReports /\ pc' = [pc EXCEPT ![r] = "waiting"]
      /\ reports' = reports + 1
      /\ UNCHANGED <<bucket, summarised, recorded>> /\ metadata' = metadata
      /\ samples' = samples /\ lostReply' = lostReply
  BY DEF Call, Goto, program, atNewRelic
<1>2. Pending' = Pending
  <2>1. \A q \in Reporters : pc'[q] = "sending" <=> pc[q] = "sending"
    BY <1>1 DEF IInv, Types
  <2> QED
    BY <1>1, <2>1, PendingStays
<1>3. reports' \in 0..MaxReports
  BY <1>1, BoundAssumption DEF SInv, SampleTypes
<1> QED
  BY <1>1, <1>2, <1>3, SamplesStay DEF SInv, SampleTypes

\* What `AddedUp` adds.
LEMMA SummaryIs ==
    ASSUME NEW s
    PROVE  Summary(s).count = Len(s) /\ Summary(s).sum = Total(s)
<1>1. PICK lo, hi : Summary(s) = [count |-> Len(s), sum |-> Total(s), min |-> lo, max |-> hi]
  BY Zenon DEF Summary, Total
<1> QED
  BY <1>1

LEMMA AddedUpIs ==
    ASSUME NEW s
    PROVE  AddedUp({Summary(s)}) = [count |-> summarised.count + Len(s),
                                    sum |-> summarised.sum + Total(s)]
<1>1. PICK m : m = Summary(s)
  OBVIOUS
<1>2. (CHOOSE x \in {m} : TRUE) = m /\ {m} # {}
  OBVIOUS
<1>3. m.count = Len(s) /\ m.sum = Total(s)
  BY <1>1, SummaryIs
<1> QED
  BY <1>1, <1>2, <1>3 DEF AddedUp

LEMMA RenderKeeps == ASSUME IInv, SInv, NEW r \in Reporters, Render(r) PROVE SInv'
<1>1. /\ backend = "prometheus" /\ bucket' = <<>>
      /\ summarised' = AddedUp({Summary(bucket)})
      /\ recorded' = recorded /\ metadata' = metadata /\ samples' = samples
      /\ lostReply' = lostReply /\ reports' = reports
  BY DEF Render, program
<1>2. /\ Sized(bucket) /\ Sized(Pending)
      /\ summarised.count \in Nat /\ summarised.sum \in Nat
  BY Known
<1>3. /\ summarised'.count = summarised.count + Len(bucket)
      /\ summarised'.sum = summarised.sum + Total(bucket)
      /\ summarised' \in [count : Nat, sum : Nat]
  <2>1. PICK s : s = bucket
    OBVIOUS
  <2>2. summarised' = [count |-> summarised.count + Len(s), sum |-> summarised.sum + Total(s)]
    BY <1>1, <2>1, AddedUpIs
  <2>3. Len(s) \in Nat /\ Total(s) \in Nat
    BY <1>2, <2>1 DEF Sized
  <2> QED
    BY <1>2, <2>1, <2>2, <2>3
<1>4. Pending = <<>> /\ Pending' = <<>>
  <2>1. metadata = Nobody
    BY <1>1 DEF IInv, Exclusive
  <2> QED
    BY <1>1, <2>1, ReporterAssumption DEF Pending
<1>5. SentOnce'
  <2>1. /\ Len(bucket)' = 0 /\ Total(bucket)' = 0 /\ Len(Pending)' = 0 /\ Total(Pending)' = 0
        /\ Len(Pending) = 0 /\ Total(Pending) = 0
    BY <1>1, <1>4, NoSample
  <2>2. Total(Ever)' = Total(Ever)
    BY <1>1 DEF Ever
  <2>3. /\ Len(bucket) + Len(Pending) + summarised.count <= recorded
        /\ Total(bucket) + Total(Pending) + summarised.sum <= Total(Ever)
    BY DEF SInv, SentOnce
  <2> QED
    BY <1>1, <1>2, <1>3, <2>1, <2>2, <2>3 DEF SentOnce, Sized
<1>6. SampleTypes'
  BY <1>1, <1>3, NoSample DEF SInv, SampleTypes
<1> QED
  BY <1>5, <1>6 DEF SInv

LEMMA LockKeeps == ASSUME IInv, SInv, NEW r \in Reporters, Lock(r) PROVE SInv'
<1>1. /\ metadata = Nobody /\ metadata' = r /\ pc' = [pc EXCEPT ![r] = "reading"]
      /\ UNCHANGED <<bucket, summarised, recorded>>
      /\ samples' = samples /\ lostReply' = lostReply /\ reports' = reports
  BY DEF Lock, Goto, program, atNewRelic
<1>2. Pending' = <<>>
  <2>1. pc'[r] = "reading"
    BY <1>1 DEF IInv, Types
  <2> QED
    BY <1>1, <2>1 DEF Pending
<1> QED
  BY <1>1, <1>2, SamplesStay DEF SInv, SampleTypes

LEMMA ClearBucketKeeps ==
    ASSUME IInv, SInv, NEW r \in Reporters, ClearBucket(r)
    PROVE  SInv'
<1>1. /\ pc[r] = "reading" /\ pc' = [pc EXCEPT ![r] = "sending"]
      /\ samples' = [samples EXCEPT ![r] = bucket] /\ bucket' = <<>>
      /\ metadata' = metadata /\ summarised' = summarised /\ recorded' = recorded
      /\ lostReply' = lostReply /\ reports' = reports
  BY DEF ClearBucket, Goto, program, atNewRelic
<1>2. metadata = r
  BY <1>1 DEF IInv, Exclusive
<1>3. Pending = <<>> /\ Pending' = bucket
  <2>1. pc'[r] = "sending" /\ samples'[r] = bucket
    BY <1>1 DEF IInv, Types, SInv, SampleTypes
  <2> QED
    BY <1>1, <1>2, <2>1 DEF Pending
<1>4. bucket \in Seq(1..MaxSamples)
  BY DEF SInv, SampleTypes
<1>5. SentOnce'
  <2>1. /\ Len(bucket)' = 0 /\ Total(bucket)' = 0 /\ Len(Pending) = 0 /\ Total(Pending) = 0
    BY <1>1, <1>3, NoSample
  <2>2. Len(Pending)' = Len(bucket) /\ Total(Pending)' = Total(bucket)
    BY <1>3
  <2>3. Total(Ever)' = Total(Ever)
    BY <1>1 DEF Ever
  <2>4. /\ Sized(bucket) /\ summarised.count \in Nat /\ summarised.sum \in Nat
    BY Known
  <2>5. /\ Len(bucket) + Len(Pending) + summarised.count <= recorded
        /\ Total(bucket) + Total(Pending) + summarised.sum <= Total(Ever)
    BY DEF SInv, SentOnce
  <2> QED
    BY <1>1, <2>1, <2>2, <2>3, <2>4, <2>5 DEF SentOnce, Sized
<1>6. SampleTypes'
  <2>1. samples' \in [Reporters -> Seq(1..MaxSamples)] /\ bucket' \in Seq(1..MaxSamples)
    BY <1>1, <1>4, NoSample DEF SInv, SampleTypes
  <2> QED
    BY <1>1, <2>1 DEF SInv, SampleTypes
<1> QED
  BY <1>5, <1>6 DEF SInv

LEMMA DeliverKeeps == ASSUME IInv, SInv, NEW r \in Reporters, Deliver(r) PROVE SInv'
<1>1. /\ pc[r] = "sending" /\ pc' = [pc EXCEPT ![r] = "delivered"]
      /\ summarised' = AddedUp(IF samples[r] = <<>> THEN {} ELSE {Summary(samples[r])})
      /\ bucket' = bucket /\ recorded' = recorded /\ metadata' = metadata /\ samples' = samples
      /\ lostReply' = lostReply /\ reports' = reports
  BY DEF Deliver, Goto, program, MetricsReport
<1>2. metadata = r
  BY <1>1 DEF IInv, Exclusive
<1>3. Pending = samples[r] /\ Pending' = <<>>
  <2>1. pc'[r] = "delivered"
    BY <1>1 DEF IInv, Types
  <2> QED
    BY <1>1, <1>2, <2>1 DEF Pending
<1>4. PICK s : s = samples[r]
  OBVIOUS
<1>5. /\ Sized(bucket) /\ Sized(s)
      /\ summarised.count \in Nat /\ summarised.sum \in Nat
  BY <1>4, Known
<1>6. /\ summarised'.count = summarised.count + Len(s)
      /\ summarised'.sum = summarised.sum + Total(s)
      /\ summarised' \in [count : Nat, sum : Nat]
  <2>1. CASE s = <<>>
    <3>1. summarised' = AddedUp({}) /\ Len(s) = 0 /\ Total(s) = 0
      BY <1>1, <1>4, <2>1, NoSample
    <3>2. AddedUp({}) = [count |-> summarised.count, sum |-> summarised.sum]
      BY DEF AddedUp
    <3> QED
      BY <1>5, <3>1, <3>2
  <2>2. CASE s # <<>>
    <3>1. summarised' = [count |-> summarised.count + Len(s), sum |-> summarised.sum + Total(s)]
      BY <1>1, <1>4, <2>2, AddedUpIs
    <3>2. Len(s) \in Nat /\ Total(s) \in Nat
      BY <1>5 DEF Sized
    <3> QED
      BY <1>5, <3>1, <3>2
  <2> QED
    BY <2>1, <2>2
<1>7. SentOnce'
  <2>1. /\ Len(bucket)' = Len(bucket) /\ Total(bucket)' = Total(bucket)
        /\ Len(Pending)' = 0 /\ Total(Pending)' = 0
        /\ Len(Pending) = Len(s) /\ Total(Pending) = Total(s)
    BY <1>1, <1>3, <1>4, NoSample
  <2>2. Total(Ever)' = Total(Ever)
    BY <1>1 DEF Ever
  <2>3. /\ Len(bucket) + Len(Pending) + summarised.count <= recorded
        /\ Total(bucket) + Total(Pending) + summarised.sum <= Total(Ever)
    BY DEF SInv, SentOnce
  <2>4. PICK a, b, d, e, f, h : /\ a = Len(bucket) /\ b = Len(s) /\ d = summarised.count
                                /\ e = Total(bucket) /\ f = Total(s) /\ h = summarised.sum
    OBVIOUS
  <2>5. PICK n, m : n = recorded /\ m = Total(Ever)
    OBVIOUS
  <2>6. a + b + d <= n /\ e + f + h <= m
    BY <2>1, <2>3, <2>4, <2>5
  <2>7. /\ a \in Nat /\ b \in Nat /\ d \in Nat /\ e \in Nat /\ f \in Nat /\ h \in Nat
        /\ n \in Nat /\ m \in Nat
    BY <1>5, <2>4, <2>5, Known DEF Sized
  <2>8. a + 0 + (d + b) <= n /\ e + 0 + (h + f) <= m
    BY <2>6, <2>7
  <2>9. /\ Len(bucket)' = a /\ Len(Pending)' = 0 /\ (summarised.count)' = d + b
        /\ Total(bucket)' = e /\ Total(Pending)' = 0 /\ (summarised.sum)' = h + f
    BY <1>6, <2>1, <2>4
  <2>10. recorded' = n /\ Total(Ever)' = m
    BY <1>1, <2>2, <2>5
  <2> QED
    BY <2>8, <2>9, <2>10 DEF SentOnce
<1>8. SampleTypes'
  BY <1>1, <1>6 DEF SInv, SampleTypes
<1> QED
  BY <1>7, <1>8 DEF SInv

\* The end of a report, however it ends.
LEMMA ReturnKeeps ==
    ASSUME IInv, SInv, NEW r \in Reporters, Return(r), lostReply' \in BOOLEAN,
           pc[r] \in {"waiting", "sending", "delivered"}
    PROVE  SInv'
<1>1. /\ pc' = [pc EXCEPT ![r] = "idle"]
      /\ metadata' = (IF metadata = r THEN Nobody ELSE metadata)
      /\ samples' = [samples EXCEPT ![r] = <<>>]
      /\ UNCHANGED <<bucket, summarised, recorded>> /\ reports' = reports
  BY DEF Return, Goto, program
<1>2. samples' \in [Reporters -> Seq(1..MaxSamples)]
  BY <1>1, NoSample DEF SInv, SampleTypes
<1>3. Pending' = Pending \/ Pending' = <<>>
  <2>1. CASE metadata = r
    BY <1>1, <2>1, ReporterAssumption DEF Pending
  <2>2. CASE metadata # r
    <3>1. \A q \in Reporters : q # r => pc'[q] = pc[q] /\ samples'[q] = samples[q]
      BY <1>1 DEF IInv, Types, SInv, SampleTypes
    <3> QED
      BY <1>1, <2>2, <3>1 DEF Pending
  <2> QED
    BY <2>1, <2>2
<1>4. reports' \in 0..MaxReports
  BY <1>1 DEF SInv, SampleTypes
<1> QED
  BY <1>1, <1>2, <1>3, <1>4, SamplesStay

LEMMA FailKeeps ==
    ASSUME IInv, SInv, NEW r \in Reporters, Fail(r),
           pc[r] \in {"waiting", "sending", "delivered"}
    PROVE  SInv'
<1>1. Return(r) /\ lostReply' = (lostReply \/ pc[r] = "delivered")
  BY DEF Fail
<1>2. lostReply' \in BOOLEAN
  BY <1>1, Zenon
<1> QED
  BY <1>1, <1>2, ReturnKeeps

LEMMA SNext == ASSUME IInv, SInv, [Next]_vars PROVE SInv'
<1>1. CASE UNCHANGED vars
  <2>1. /\ UNCHANGED <<bucket, summarised, recorded>> /\ metadata' = metadata
        /\ samples' = samples /\ lostReply' = lostReply /\ reports' = reports /\ pc' = pc
    BY <1>1 DEF vars
  <2>2. Pending' = Pending
    BY <2>1 DEF Pending
  <2> QED
    BY <2>1, <2>2, SamplesStay DEF SInv, SampleTypes
<1>2. ASSUME NEW k \in Counters, NEW n \in {0, 1}, Increment(k, n)
      PROVE  SInv'
  <2>1. /\ UNCHANGED <<bucket, summarised, recorded>> /\ metadata' = metadata
        /\ samples' = samples /\ lostReply' = lostReply /\ reports' = reports /\ pc' = pc
    BY <1>2 DEF Increment, reporting
  <2>2. Pending' = Pending
    BY <2>1 DEF Pending
  <2> QED
    BY <2>1, <2>2, SamplesStay DEF SInv, SampleTypes
<1>3. CASE InstallNewRelic \/ InstallPrometheus
  <2>1. /\ UNCHANGED <<bucket, summarised, recorded>> /\ metadata' = metadata
        /\ samples' = samples /\ lostReply' = lostReply /\ reports' = reports /\ pc' = pc
    BY <1>3 DEF InstallNewRelic, InstallPrometheus, reporting
  <2>2. Pending' = Pending
    BY <2>1 DEF Pending
  <2> QED
    BY <2>1, <2>2, SamplesStay DEF SInv, SampleTypes
<1>4. CASE RecordSample
  BY <1>4, RecordSampleKeeps
<1>5. ASSUME NEW r \in Reporters, NEW k \in Counters, Load(r, k)
      PROVE  SInv'
  <2>1. /\ UNCHANGED <<bucket, summarised, recorded>> /\ metadata' = metadata
        /\ samples' = samples /\ lostReply' = lostReply /\ reports' = reports /\ pc' = pc
    BY <1>5 DEF Load, program, atNewRelic
  <2>2. Pending' = Pending
    BY <2>1 DEF Pending
  <2> QED
    BY <2>1, <2>2, SamplesStay DEF SInv, SampleTypes
<1>6. ASSUME NEW r \in Reporters, HttpError(r) \/ UnexpectedHttpStatus(r) \/ Cancel(r)
      PROVE  SInv'
  <2>1. Fail(r) /\ pc[r] \in {"waiting", "sending", "delivered"}
    BY <1>6 DEF HttpError, UnexpectedHttpStatus, Cancel
  <2> QED
    BY <2>1, FailKeeps
<1>7. ASSUME NEW r \in Reporters, Confirm(r)
      PROVE  SInv'
  <2>1. Return(r) /\ pc[r] = "delivered" /\ lostReply' = lostReply
    BY <1>7 DEF Confirm
  <2> QED
    BY <2>1, ReturnKeeps DEF SInv, SampleTypes
<1>8. ASSUME NEW r \in Reporters, Call(r) \/ Proceed(r) \/ Cancel(r)
      PROVE  SInv'
  BY <1>5, <1>6, <1>7, <1>8, CallKeeps, RenderKeeps, LockKeeps, ClearBucketKeeps, DeliverKeeps
     DEF Proceed
<1> QED
  BY <1>1, <1>2, <1>3, <1>4, <1>8 DEF Next

LEMMA SamplesInvariance == Spec => [](IInv /\ SInv)
<1>1. Init => SInv
  BY SInit
<1>2. IInv /\ SInv /\ [Next]_vars => SInv'
  BY SNext
<1> QED
  BY <1>1, <1>2, InitInv, NextInv, PTL DEF Spec

\* The variables have the values the code gives them: what is loaded or remembered
\* is of counters that are registered, and samples are some that were recorded.
THEOREM Typed == Spec => []TypeOK
<1>1. IInv /\ SInv => TypeOK
  BY DEF IInv, SInv, Types, SampleTypes, TypeOK
<1> QED
  BY <1>1, SamplesInvariance, PTL

\* No sample is in two summaries, however reports overlap, fail or are abandoned:
\* the bucket is cleared with the samples that are taken from it.
THEOREM SamplesOnce == Spec => []SamplesSentOnce
<1>1. ASSUME IInv, SInv
      PROVE  SamplesSentOnce
  <2> DEFINE InRequest == {r \in Reporters : pc[r] = "sending"}
             Waiting == IF InRequest = {} THEN <<>>
                        ELSE samples[CHOOSE r \in InRequest : TRUE]
  <2>1. \A r \in InRequest : metadata = r
    BY <1>1 DEF IInv, Exclusive
  <2>2. Waiting = Pending
    <3>1. CASE InRequest = {}
      BY <3>1 DEF Pending
    <3>2. CASE InRequest # {}
      <4>1. PICK r \in InRequest : (CHOOSE q \in InRequest : TRUE) = r
        BY <3>2
      <4> QED
        BY <2>1, <3>2, <4>1 DEF Pending
    <3> QED
      BY <3>1, <3>2
  <2>3. /\ bucket \in Seq(1..MaxSamples) /\ Pending \in Seq(1..MaxSamples)
        /\ Sized(bucket) /\ Sized(Pending)
    BY <1>1, Known
  <2>4. PICK s : s = bucket
    OBVIOUS
  <2>5. PICK t : t = Pending
    OBVIOUS
  <2>6. s \in Seq(Nat) /\ t \in Seq(Nat)
    BY <2>3, <2>4, <2>5, SampleFacts
  <2>7. Len(s \o t) = Len(s) + Len(t) /\ Total(s \o t) = Total(s) + Total(t)
    BY <2>6, ConcatProperties, TotalJoined
  <2>8. Summary(s \o t).count = Len(s \o t) /\ Summary(s \o t).sum = Total(s \o t)
    BY SummaryIs
  <2>9. Summary([n \in 1..recorded |-> n]).sum = Total(Ever)
    BY SummaryIs DEF Ever
  <2>10. /\ Len(s) + Len(t) + summarised.count <= recorded
         /\ Total(s) + Total(t) + summarised.sum <= Total(Ever)
    BY <1>1, <2>4, <2>5 DEF SInv, SentOnce
  <2> HIDE DEF Waiting
  <2>11. bucket \o Waiting = s \o t
    BY <2>2, <2>4, <2>5
  <2>12. /\ Summary(bucket \o Waiting).count + summarised.count <= recorded
         /\ Summary(bucket \o Waiting).sum + summarised.sum
                <= Summary([n \in 1..recorded |-> n]).sum
    BY <2>7, <2>8, <2>9, <2>10, <2>11
  <2>13. \A r, q \in InRequest : r = q
    BY <2>1
  <2> QED
    BY <2>12, <2>13 DEF SamplesSentOnce, Waiting
<1> QED
  BY <1>1, SamplesInvariance, PTL
===============================================================================
