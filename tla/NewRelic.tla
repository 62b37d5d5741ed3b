------------------------------- MODULE NewRelic -------------------------------
(***************************************************************************)
(* Reporting metrics to NewRelic: `Inner::report` of                       *)
(* src/crates/metrics-exporter-newrelic/src/lib.rs, behind the handle of   *)
(* src/crates/opinionated_metrics/src/lib.rs, which logs the metrics when  *)
(* there is no key for NewRelic.                                           *)
(*                                                                         *)
(* Program threads count and record samples without a lock while reports   *)
(* are made.  A report holds the write lock on the metadata over the whole *)
(* HTTP request, which may not arrive, may arrive with its reply lost, or  *)
(* may be abandoned when the future is cancelled.                          *)
(*                                                                         *)
(* The n-th sample that is recorded has the value n: a sample is told from *)
(* any other.  No part of the program has a gauge.                         *)
(***************************************************************************)
EXTENDS Integers, Sequences, SequencesExt

CONSTANTS
    Counters,    \* keys of the registry's counters
    Reporters,   \* tasks that call `report`
    Nobody,      \* holder of a free lock
    MaxCount,    \* per counter: a bound, for TLC
    MaxSamples,  \* bound on the samples of the histogram, for TLC
    MaxReports   \* bound on the reports begun, for TLC

ASSUME ReporterAssumption == Nobody \notin Reporters
ASSUME BoundAssumption ==
    MaxCount \in [Counters -> Nat] /\ MaxSamples \in Nat /\ MaxReports \in Nat

VARIABLES
    backend,     \* `InnerHandle`, once it is installed
    count,       \* the counters of the registry, once they are registered
    bucket,      \* the samples in the histogram's bucket
    metadata,    \* holder of the lock on the metadata
    previously,  \* `previously_reported_counts`
    pc,          \* per reporter
    handles,     \* per reporter: the counters it reports
    current,     \* per reporter: the counters it has loaded so far
    samples,     \* per reporter: the samples in its request
    received,    \* what NewRelic has been told of each counter, added up, or what
                 \* the log says of it
    summarised,  \* the counts and sums NewRelic has received, added up
    recorded,    \* history: how many samples were recorded
    confirmed,   \* history: the counters as of the last confirmed report
    lostReply,   \* history: NewRelic has a report we do not know it has
    reports      \* reports begun, for the bound

vars == <<backend, count, bucket, metadata, previously, pc, handles, current,
          samples, received, summarised, recorded, confirmed, lostReply, reports>>

\* The recorder as it is built.
Built ==
    /\ count = <<>> /\ bucket = <<>>
    /\ metadata = Nobody /\ previously = <<>>

Nothing == [count |-> 0, sum |-> 0]

Init ==
    /\ backend = "none"
    /\ Built
    /\ pc = [r \in Reporters |-> "idle"]
    /\ handles = [r \in Reporters |-> {}]
    /\ current = [r \in Reporters |-> <<>>]
    /\ samples = [r \in Reporters |-> <<>>]
    /\ received = <<>> /\ confirmed = <<>>
    /\ summarised = Nothing /\ recorded = 0
    /\ lostReply = FALSE
    /\ reports = 0

\* 0 for the keys that are not there.
Value(counts, k) == IF k \in DOMAIN counts THEN counts[k] ELSE 0

\* counts with the values of some other keys, or the same.
Insert(counts, more) ==
    [k \in DOMAIN counts \cup DOMAIN more |->
        IF k \in DOMAIN more THEN more[k] ELSE counts[k]]

-------------------------------------------------------------------------------
\* The program.

reporting == <<metadata, previously, pc, handles, current, samples, received,
               summarised, confirmed, lostReply, reports>>

\* The recorder of NewRelic if there is a key for it, the Prometheus one if not.  An
\* error ends main, and what is counted before goes nowhere.
InstallNewRelic ==
    /\ backend = "none"
    /\ backend' = "newrelic"
    /\ UNCHANGED <<count, bucket, recorded, reporting>>

InstallPrometheus ==
    /\ backend = "none"
    /\ backend' = "prometheus"
    /\ UNCHANGED <<count, bucket, recorded, reporting>>

\* `counter!` registers the counter the first time, also when it adds nothing.
Increment(k, n) ==
    /\ backend # "none"
    /\ Value(count, k) + n <= MaxCount[k]
    /\ count' = Insert(count, [j \in {k} |-> Value(count, k) + n])
    /\ UNCHANGED <<backend, bucket, recorded, reporting>>

RecordSample ==
    /\ backend # "none" /\ recorded < MaxSamples
    /\ bucket' = Append(bucket, recorded + 1)
    /\ recorded' = recorded + 1
    /\ UNCHANGED <<backend, count, reporting>>

-------------------------------------------------------------------------------
\* The metrics of a report.

\* `reduce_discarding_nulls` with the smaller and with the larger of two values.  An
\* optional value is a set of at most one.
Smaller(v1, v2) == {v \in v1 \cup v2 : \A u \in v1 \cup v2 : v <= u}
Larger(v1, v2) == {v \in v1 \cup v2 : \A u \in v1 \cup v2 : v >= u}

Summary(values) ==
    [count |-> Len(values),
     sum |-> FoldLeft(LAMBDA sum, v : sum + v, 0, values),
     min |-> FoldLeft(LAMBDA m, v : Smaller(m, {v}), {}, values),
     max |-> FoldLeft(LAMBDA m, v : Larger(m, {v}), {}, values)]

\* `reported_count`, what a report says of the counter k.
ReportedCount(r, k) == current[r][k] - Value(previously, k)

\* The counts, and a summary unless it is of no sample.
MetricsReport(r) ==
    [counts |-> [k \in DOMAIN current[r] |-> ReportedCount(r, k)],
     summaries |-> IF samples[r] = <<>> THEN {} ELSE {Summary(samples[r])}]

\* What NewRelic adds up.
AddedUp(summaries) ==
    [count |-> IF summaries = {} THEN summarised.count
               ELSE summarised.count + (CHOOSE s \in summaries : TRUE).count,
     sum |-> IF summaries = {} THEN summarised.sum
             ELSE summarised.sum + (CHOOSE s \in summaries : TRUE).sum]

-------------------------------------------------------------------------------
\* A report.

program == <<backend, count, recorded>>
atNewRelic == <<received, summarised, confirmed, lostReply>>

Goto(r, where) == pc' = [pc EXCEPT ![r] = where]

Call(r) ==
    /\ pc[r] = "idle" /\ backend # "none" /\ reports < MaxReports
    /\ Goto(r, "waiting")
    /\ reports' = reports + 1
    /\ UNCHANGED <<program, bucket, metadata, previously, handles, current, samples,
                   atNewRelic>>

\* The Prometheus handle renders everything in one go: the counters as they are,
\* and all samples up to now.
Render(r) ==
    /\ pc[r] = "waiting" /\ backend = "prometheus"
    /\ Goto(r, "idle")
    /\ received' = Insert(received, count)
    /\ summarised' = AddedUp({Summary(bucket)})
    /\ bucket' = <<>>
    /\ confirmed' = Insert(confirmed, count)
    /\ UNCHANGED <<program, metadata, previously, handles, current, samples,
                   lostReply, reports>>

\* The lock, and the handles of the counters that are registered by then.
Lock(r) ==
    /\ pc[r] = "waiting" /\ metadata = Nobody /\ backend = "newrelic"
    /\ metadata' = r
    /\ handles' = [handles EXCEPT ![r] = DOMAIN count]
    /\ Goto(r, "reading")
    /\ UNCHANGED <<program, bucket, previously, current, samples, atNewRelic, reports>>

Loaded(r) == DOMAIN current[r]

\* Faulty: counters that are registered meanwhile are loaded too.
FaultyLoad(r, k) ==
    /\ pc[r] = "reading" /\ k \in DOMAIN count \ Loaded(r)
    /\ current' = [current EXCEPT ![r] = Insert(@, [j \in {k} |-> count[k]])]
    /\ UNCHANGED <<program, bucket, metadata, previously, pc, handles, samples,
                   atNewRelic, reports>>

\* The counters are loaded one after the other; the program does not wait.
Load(r, k) ==
    /\ pc[r] = "reading" /\ k \in handles[r] \ Loaded(r)
    /\ current' = [current EXCEPT ![r] = Insert(@, [j \in {k} |-> count[k]])]
    /\ UNCHANGED <<program, bucket, metadata, previously, pc, handles, samples,
                   atNewRelic, reports>>

\* Faulty: the samples are read and left in the bucket.
FaultyClearBucket(r) ==
    /\ pc[r] = "reading" /\ Loaded(r) = handles[r]
    /\ samples' = [samples EXCEPT ![r] = bucket]
    /\ Goto(r, "sending")
    /\ UNCHANGED <<program, bucket, metadata, previously, handles, current,
                   atNewRelic, reports>>

\* The samples are taken out of the bucket; the request is sent.
ClearBucket(r) ==
    /\ pc[r] = "reading" /\ Loaded(r) = handles[r]
    /\ samples' = [samples EXCEPT ![r] = bucket]
    /\ bucket' = <<>>
    /\ Goto(r, "sending")
    /\ UNCHANGED <<program, metadata, previously, handles, current, atNewRelic,
                   reports>>

\* The request reaches NewRelic, and it is accepted.
Deliver(r) ==
    /\ pc[r] = "sending"
    /\ LET report == MetricsReport(r) IN
        /\ received' = Insert(received,
               [k \in DOMAIN report.counts |-> Value(received, k) + report.counts[k]])
        /\ summarised' = AddedUp(report.summaries)
    /\ Goto(r, "delivered")
    /\ UNCHANGED <<program, bucket, metadata, previously, handles, current, samples,
                   confirmed, lostReply, reports>>

\* Faulty: the lock is kept.
FaultyReturn(r) ==
    /\ Goto(r, "idle")
    /\ handles' = [handles EXCEPT ![r] = {}]
    /\ current' = [current EXCEPT ![r] = <<>>]
    /\ samples' = [samples EXCEPT ![r] = <<>>]
    /\ UNCHANGED <<program, bucket, metadata, received, summarised, reports>>

\* The future is over: its guard unlocks the metadata, its locals are dropped.
Return(r) ==
    /\ Goto(r, "idle")
    /\ metadata' = IF metadata = r THEN Nobody ELSE metadata
    /\ handles' = [handles EXCEPT ![r] = {}]
    /\ current' = [current EXCEPT ![r] = <<>>]
    /\ samples' = [samples EXCEPT ![r] = <<>>]
    /\ UNCHANGED <<program, bucket, received, summarised, reports>>

\* Faulty: the metadata is updated whether or not the request succeeded.
FaultyFail(r) ==
    /\ previously' = Insert(previously, current[r])
    /\ confirmed' = Insert(confirmed, current[r])
    /\ lostReply' = (lostReply \/ pc[r] = "delivered")
    /\ Return(r)

\* The function returns early.
Fail(r) ==
    /\ lostReply' = (lostReply \/ pc[r] = "delivered")
    /\ Return(r)
    /\ UNCHANGED <<previously, confirmed>>

\* `ReportError::HttpError`: the request does not arrive, or its reply does not.
HttpError(r) == pc[r] \in {"sending", "delivered"} /\ Fail(r)

\* `ReportError::UnexpectedHttpStatus`: NewRelic does not accept the report.
UnexpectedHttpStatus(r) == pc[r] = "sending" /\ Fail(r)

\* The future is dropped while it waits for the lock or for NewRelic.
Cancel(r) == pc[r] \in {"waiting", "sending", "delivered"} /\ Fail(r)

\* Faulty: each report is added to what was remembered.
FaultyConfirm(r) ==
    /\ pc[r] = "delivered"
    /\ previously' = Insert(previously,
           [k \in Loaded(r) |-> Value(previously, k) + current[r][k]])
    /\ confirmed' = Insert(confirmed, current[r])
    /\ Return(r)
    /\ UNCHANGED lostReply

\* Success.  What is remembered is what was reported, not what was counted.
Confirm(r) ==
    /\ pc[r] = "delivered"
    /\ previously' = Insert(previously, [k \in Loaded(r) |-> ReportedCount(r, k)])
    /\ confirmed' = Insert(confirmed, current[r])
    /\ Return(r)
    /\ UNCHANGED lostReply

Proceed(r) ==
    \/ Render(r) \/ Lock(r)
    \/ (\E k \in Counters : Load(r, k)) \/ ClearBucket(r) \/ Deliver(r)
    \/ HttpError(r) \/ UnexpectedHttpStatus(r) \/ Confirm(r)

Next ==
    \/ InstallNewRelic \/ InstallPrometheus
    \/ \E k \in Counters, n \in {0, 1} : Increment(k, n)
    \/ RecordSample
    \/ \E r \in Reporters : Call(r) \/ Proceed(r) \/ Cancel(r)

Spec == Init /\ [][Next]_vars

\* The reporting futures are polled and their requests return.
Fairness == \A r \in Reporters : WF_vars(Proceed(r))
FairSpec == Spec /\ Fairness

-------------------------------------------------------------------------------
\* Properties.

\* Counts of some of the counters.
Counts(f, values) == DOMAIN f \subseteq Counters /\ f \in [DOMAIN f -> values]

\* The variables have the values the code gives them: what a report has loaded, or
\* remembers of those before, is of registered counters.
TypeOK ==
    /\ backend \in {"none", "newrelic", "prometheus"}
    /\ Counts(count, Nat)
    /\ bucket \in Seq(1..MaxSamples)
    /\ metadata \in Reporters \cup {Nobody}
    /\ Counts(previously, Nat)
    /\ pc \in [Reporters -> {"idle", "waiting", "reading", "sending", "delivered"}]
    /\ handles \in [Reporters -> SUBSET DOMAIN count]
    /\ \A r \in Reporters : Counts(current[r], Nat) /\ Loaded(r) \subseteq handles[r]
    /\ samples \in [Reporters -> Seq(1..MaxSamples)]
    /\ Counts(received, Nat)
    /\ summarised \in [count : Nat, sum : Nat] /\ recorded \in 0..MaxSamples
    /\ Counts(confirmed, Nat)
    /\ lostReply \in BOOLEAN
    /\ reports \in 0..MaxReports

\* `current - previous` (line 182) never underflows: what is remembered is at most
\* what a report has loaded or will load.
NoUnderflow ==
    \A k \in Counters :
        /\ Value(previously, k) <= Value(count, k)
        /\ \A r \in Reporters : k \in Loaded(r) => ReportedCount(r, k) >= 0

\* "We only do this _after_ reporting, so that we don't lose any metrics if we
\* can't contact NewRelic" (lines 250-251): whatever fails, and whenever a counter
\* is registered, what NewRelic was told of it adds up to no less than its value
\* at the last confirmed report.
NothingLost == \A k \in Counters : Value(received, k) >= Value(confirmed, k)

\* A sample is in the bucket, in one request or in one summary, or lost, but never
\* in two summaries (lines 213-220), whatever overlaps the report: what NewRelic
\* was told and may still be told is of no more samples than were recorded, and
\* adds up to no more than they do.
SamplesSentOnce ==
    LET InRequest == {r \in Reporters : pc[r] = "sending"}
        Waiting == IF InRequest = {} THEN <<>> ELSE samples[CHOOSE r \in InRequest : TRUE]
        left == Summary(bucket \o Waiting)
    IN  /\ \A r, q \in InRequest : r = q
        /\ left.count + summarised.count <= recorded
        /\ left.sum + summarised.sum <= Summary([n \in 1..recorded |-> n]).sum

\* A report returns: a failed or abandoned one does not keep the lock.
ReportsReturn == \A r \in Reporters : pc[r] # "idle" ~> pc[r] = "idle"

\* "NewRelic wants us to reset our counts to zero every time we report" (lines
\* 115-116): as long as no reply was lost, what it was told adds up to no more than
\* the counter's value.
NeverOverCounted ==
    ~lostReply => \A k \in Counters : Value(received, k) <= Value(count, k)
==============================================================================
