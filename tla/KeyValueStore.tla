---------------------------- MODULE KeyValueStore -----------------------------
(***************************************************************************)
(* What the traits of src/src/key_value_stores/mod.rs promise to those who *)
(* use a store concurrently.  A request is a list of keys to get, or of    *)
(* keys to set.  The gets and sets of a request are not one transaction:   *)
(* each happens at some moment during the call.  "Execute all our requests *)
(* and return the results in order": a call that succeeds has, for each    *)
(* position, what the row had at such a moment.  What a call did not get   *)
(* to set when it failed may be set later, or never.                       *)
(***************************************************************************)
EXTENDS Naturals, Sequences

CONSTANTS
    Calls, Keys, Values,
    Requests,  \* [op, keys, values] with op "get" or "set"
    None       \* no value, no request

VARIABLES
    reliable,  \* whether a set that succeeds has set everything
    rows,      \* the value of each key
    request,   \* per call: what it is for
    got,       \* per call: the positions of a get that were read, and the values
    left,      \* per call: the positions of a set that are not set
    outcome    \* per call: how it ended

vars == <<reliable, rows, request, got, left, outcome>>

Pending == [kind |-> "pending", values |-> <<>>]
Failed(kind) == [kind |-> kind, values |-> <<>>]
Nothing == <<>>

Init ==
    /\ reliable \in BOOLEAN
    /\ rows \in [Keys -> Values \cup {None}]
    /\ request = [c \in Calls |-> None]
    /\ got = [c \in Calls |-> Nothing]
    /\ left = [c \in Calls |-> {}]
    /\ outcome = [c \in Calls |-> Pending]

Ask(c) ==
    /\ request[c] = None
    /\ \E r \in Requests :
        /\ request' = [request EXCEPT ![c] = r]
        /\ left' = [left EXCEPT ![c] = IF r.op = "set" THEN DOMAIN r.keys ELSE {}]
    /\ UNCHANGED <<reliable, rows, got, outcome>>

Running(c, op) ==
    request[c] # None /\ outcome[c] = Pending /\ request[c].op = op

\* Some positions are read, all at once.
Read(c) ==
    /\ Running(c, "get")
    /\ \E new \in SUBSET (DOMAIN request[c].keys \ DOMAIN got[c]) :
        got' = [got EXCEPT ![c] =
            [i \in DOMAIN @ \cup new |->
                IF i \in new THEN rows[request[c].keys[i]] ELSE @[i]]]
    /\ UNCHANGED <<reliable, rows, request, left, outcome>>

\* Also after the call has ended.
Write(c) ==
    /\ \E i \in left[c] :
        /\ rows' = [rows EXCEPT ![request[c].keys[i]] = request[c].values[i]]
        /\ left' = [left EXCEPT ![c] = @ \ {i}]
    /\ UNCHANGED <<reliable, request, got, outcome>>

Lose(c) ==
    /\ ~reliable \/ outcome[c] # Pending
    /\ \E lost \in SUBSET left[c] : left' = [left EXCEPT ![c] = @ \ lost]
    /\ UNCHANGED <<reliable, rows, request, got, outcome>>

Succeed(c) ==
    /\ \/ Running(c, "get") /\ DOMAIN got[c] = DOMAIN request[c].keys
       \/ Running(c, "set") /\ (reliable => left[c] = {})
    /\ outcome' = [outcome EXCEPT ![c] = [kind |-> "ok", values |-> got[c]]]
    /\ got' = [got EXCEPT ![c] = Nothing]
    /\ UNCHANGED <<reliable, rows, request, left>>

Fail(c) ==
    /\ request[c] # None /\ outcome[c] = Pending
    /\ \E kind \in {"failed", "dropped"} :
        outcome' = [outcome EXCEPT ![c] = Failed(kind)]
    /\ \E kept \in SUBSET left[c] : left' = [left EXCEPT ![c] = kept]
    /\ got' = [got EXCEPT ![c] = Nothing]
    /\ UNCHANGED <<reliable, rows, request>>

Next ==
    \E c \in Calls :
        Ask(c) \/ Read(c) \/ Write(c) \/ Lose(c) \/ Succeed(c) \/ Fail(c)

Spec == Init /\ [][Next]_vars
==============================================================================
