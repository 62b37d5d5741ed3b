-------------------------------- MODULE Stores --------------------------------
(***************************************************************************)
(* The two stores of src/src/key_value_stores behind the traits of its     *)
(* mod.rs, used by concurrent calls of one process.                        *)
(*                                                                         *)
(* redis.rs takes a connection from a pool for each `execute`, sends the   *)
(* commands of its pipeline and reads as many replies, which come in the   *)
(* order of the commands.  A call that fails or is dropped half-way gives  *)
(* its connection back with commands that the server may still execute and *)
(* replies that nobody has read.  The pool (external) tests a connection   *)
(* with a PING before it hands it out, and opens a new one if the answer   *)
(* is not PONG.                                                            *)
(*                                                                         *)
(* bigtable.rs sends one request per `execute`.  The server (external)     *)
(* reads the keys of the request once each, in its own order of keys, and  *)
(* returns the rows that exist; it applies the entries of a write in any   *)
(* order, and reports on them in a response that is not looked at, so that *)
(* a write may count as done when some entries are not, or not yet.        *)
(***************************************************************************)
EXTENDS Positions, SequencesExt

CONSTANTS
    Calls, Values,
    Keys,          \* in the server's order
    Urls,          \* the --cache options, see UrlAssumption
    Requests,      \* [op, keys, values]
    POOL_SIZE,     \* connections in the Redis pool
    None,
    Ok             \* the reply to a SET

KeySet == ToSet(Keys)

ASSUME UrlAssumption ==
    Urls \subseteq [scheme : STRING, host : BOOLEAN, segments : Nat]
ASSUME RequestAssumption ==
    \A r \in Requests :
        /\ r.keys \in Seq(KeySet)
        /\ \/ r.op = "set" /\ r.values \in [DOMAIN r.keys -> Values]
           \/ r.op = "get" /\ r.values = <<>>
ASSUME KeyAssumption == Keys \in Seq(KeySet) /\ IsInjective(Keys)
ASSUME PoolAssumption == POOL_SIZE \in Nat \ {0}
ASSUME ValueAssumption ==
    /\ None \notin Values /\ Ok \notin Values /\ Ok # None
    /\ None \notin Requests /\ None \notin Calls /\ None \notin 1..POOL_SIZE

VARIABLES
    url,      \* what `new_from_url` is given
    open,     \* how that ended: "no", "yes" or "error"
    rows,     \* the server's data
    request,  \* per call: its pipeline
    phase,    \* per call: where `execute` is
    via,      \* per call: the connection, or None
    server,   \* per connection: commands to execute
    replies,  \* per connection: replies to read
    late,     \* commands of connections that are closed
    result    \* per call: what a get returned

call == <<request, phase, via, result>>
connection == <<server, replies>>
vars == <<url, open, rows, call, connection, late>>

Pool == 1..POOL_SIZE
IsRedis == url.scheme = "redis"

\* A stream of BigTable belongs to its call.
Connections == Pool \cup Calls

Init ==
    /\ url \in Urls
    /\ open = "no"
    /\ rows \in [KeySet -> Values \cup {None}]
    /\ request = [c \in Calls |-> None]
    /\ phase = [c \in Calls |-> "idle"]
    /\ via = [c \in Calls |-> None]
    /\ server = [i \in Connections |-> <<>>]
    /\ replies = [i \in Connections |-> <<>>]
    /\ late = {}
    /\ result = [c \in Calls |-> <<>>]

-------------------------------------------------------------------------------
\* `new_from_url`.

\* `BigTableConfig::from_url`: a project, an instance and a table.
IsConfig(u) == u.scheme = "bigtable" /\ u.host /\ u.segments = 2

\* A connection that cannot be made is an error.
NewRedis ==
    /\ open = "no" /\ IsRedis
    /\ open' \in {"yes", "error"}
    /\ UNCHANGED <<url, rows, call, connection, late>>

NewBigTable ==
    /\ open = "no" /\ url.scheme = "bigtable"
    /\ open' \in IF IsConfig(url) THEN {"yes", "error"} ELSE {"error"}
    /\ UNCHANGED <<url, rows, call, connection, late>>

UnknownScheme ==
    /\ open = "no" /\ url.scheme \notin {"redis", "bigtable"}
    /\ open' = "error"
    /\ UNCHANGED <<url, rows, call, connection, late>>

-------------------------------------------------------------------------------
\* The requests.

\* `new_pipelined_get` or `new_pipelined_set`, and `add_get` or `add_set` for
\* each position; nothing is sent.
NewPipelined(c) ==
    /\ phase[c] = "idle" /\ open = "yes"
    /\ \E r \in Requests : request' = [request EXCEPT ![c] = r]
    /\ phase' = [phase EXCEPT ![c] = "built"]
    /\ UNCHANGED <<url, open, rows, via, result, connection, late>>

Pipeline(c, r) ==
    [i \in DOMAIN r.keys |->
        [by |-> c, at |-> i, op |-> r.op, key |-> r.keys[i],
         value |-> IF r.op = "set" THEN r.values[i] ELSE None]]

\* A read asks for each key once.
KeysOnce(c, r) ==
    LET keys == Selected(Keys, {i \in DOMAIN Keys : Keys[i] \in ToSet(r.keys)})
    IN  [i \in DOMAIN keys |->
            [by |-> c, at |-> i, op |-> "get", key |-> keys[i], value |-> None]]

BigTableRequests(c, r) ==
    IF r.op = "get" THEN {KeysOnce(c, r)}
    ELSE SetToSeqs(ToSet(Pipeline(c, r)))

ExecuteBigTable(c) ==
    /\ phase[c] = "built" /\ ~IsRedis
    /\ \E sent \in BigTableRequests(c, request[c]) :
        server' = [server EXCEPT ![c] = sent]
    /\ via' = [via EXCEPT ![c] = c]
    /\ phase' = [phase EXCEPT ![c] = "sent"]
    /\ UNCHANGED <<url, open, rows, request, replies, late, result>>

\* `self.redis.client()`.
ExecuteRedis(c) ==
    /\ phase[c] = "built" /\ IsRedis
    /\ phase' = [phase EXCEPT ![c] = "wait"]
    /\ UNCHANGED <<url, open, rows, request, via, result, connection, late>>

IsIdle(i) == \A c \in Calls : via[c] # i
IsClean(i) == server[i] = <<>> /\ replies[i] = <<>>

\* The PING finds nothing before it, and the pipeline is sent.
CheckOut(c, i) ==
    /\ phase[c] = "wait" /\ IsIdle(i) /\ IsClean(i)
    /\ via' = [via EXCEPT ![c] = i]
    /\ phase' = [phase EXCEPT ![c] = "sent"]
    /\ server' = [server EXCEPT ![i] = Pipeline(c, request[c])]
    /\ UNCHANGED <<url, open, rows, request, result, replies, late>>

\* The PING finds another reply before its own: a new connection takes the
\* place of this one, and the server may still have commands of the old one.
Discard(c, i) ==
    /\ phase[c] = "wait" /\ IsIdle(i) /\ replies[i] # <<>>
    /\ late' = late \cup {m \in ToSet(server[i]) : m.op = "set"}
    /\ server' = [server EXCEPT ![i] = <<>>]
    /\ replies' = [replies EXCEPT ![i] = <<>>]
    /\ UNCHANGED <<url, open, rows, call>>

\* How a call gives back its connection, with what is left in it.  A stream of
\* BigTable is closed, and its server may still apply what it was sent.
Release(c) ==
    /\ via' = [via EXCEPT ![c] = None]
    /\ IF IsRedis \/ via[c] = None
       THEN UNCHANGED <<connection, late>>
       ELSE /\ late' = late \cup {m \in ToSet(server[c]) : m.op = "set"}
            /\ server' = [server EXCEPT ![c] = <<>>]
            /\ replies' = [replies EXCEPT ![c] = <<>>]

\* Faulty: a call that is not finished keeps it.
FaultyReleaseUnfinished(c) ==
    UNCHANGED <<via, connection, late>>

ReleaseUnfinished(c) == Release(c)

\* No connection of the pool in time, or an error while sending or receiving.
Fail(c) ==
    /\ phase[c] \in {"wait", "sent"}
    /\ ReleaseUnfinished(c)
    /\ phase' = [phase EXCEPT ![c] = "failed"]
    /\ UNCHANGED <<url, open, rows, request, result>>

\* The future is dropped.
Drop(c) ==
    /\ phase[c] \in {"wait", "sent"}
    /\ ReleaseUnfinished(c)
    /\ phase' = [phase EXCEPT ![c] = "dropped"]
    /\ UNCHANGED <<url, open, rows, request, result>>

-------------------------------------------------------------------------------
\* The servers.

Apply(m) == IF m.op = "set" THEN [rows EXCEPT ![m.key] = m.value] ELSE rows

ReplyTo(m) == [key |-> m.key, value |-> IF m.op = "set" THEN Ok ELSE rows[m.key]]

\* Redis replies to every command, BigTable returns the rows that exist.
RepliesTo(m) ==
    IF IsRedis \/ rows[m.key] # None THEN <<ReplyTo(m)>> ELSE <<>>

Serve(i) ==
    /\ server[i] # <<>>
    /\ LET m == Head(server[i])
       IN  /\ rows' = Apply(m)
           /\ replies' = [replies EXCEPT ![i] =
                  IF m.op = "get" \/ IsRedis THEN @ \o RepliesTo(m) ELSE @]
    /\ server' = [server EXCEPT ![i] = Tail(@)]
    /\ UNCHANGED <<url, open, call, late>>

\* BigTable does not write an entry.
EntryFails(i) ==
    /\ ~IsRedis /\ server[i] # <<>> /\ Head(server[i]).op = "set"
    /\ server' = [server EXCEPT ![i] = Tail(@)]
    /\ UNCHANGED <<url, open, rows, call, replies, late>>

\* A command of a closed connection is executed, or never is.
ServeLate ==
    \E m \in late :
        /\ rows' \in {Apply(m), rows}
        /\ late' = late \ {m}
        /\ UNCHANGED <<url, open, call, connection>>

-------------------------------------------------------------------------------
\* The results.

\* As many replies as there are commands, in their order.
QueryResult(c) ==
    [i \in DOMAIN request[c].keys |-> replies[via[c]][i].value]

ReturnRedis(c) ==
    /\ phase[c] = "sent" /\ IsRedis
    /\ Len(replies[via[c]]) >= Len(request[c].keys)
    /\ result' = [result EXCEPT ![c] =
           IF request[c].op = "get" THEN QueryResult(c) ELSE <<>>]
    /\ replies' = [replies EXCEPT ![via[c]] =
           SubSeq(@, Len(request[c].keys) + 1, Len(@))]
    /\ via' = [via EXCEPT ![c] = None]
    /\ phase' = [phase EXCEPT ![c] = "done"]
    /\ UNCHANGED <<url, open, rows, request, server, late>>

\* `row_key_indices`: where each key was asked for.
RowKeyIndices(r, key) == {i \in DOMAIN r.keys : r.keys[i] = key}

\* Faulty: one index for each key, the last.
FaultyUnpack(r, found) ==
    LET of(i) == {j \in DOMAIN found :
                      i \in RowKeyIndices(r, found[j].key)
                      /\ \A k \in RowKeyIndices(r, found[j].key) : k <= i}
    IN  [i \in DOMAIN r.keys |->
            IF of(i) = {} THEN None ELSE found[CHOOSE j \in of(i) : TRUE].value]

\* Faulty: the rows as they come.
FaultyUnpackInOrder(r, found) == [j \in DOMAIN found |-> found[j].value]

\* The rows that were found, at every position of their keys.
Unpack(r, found) ==
    LET of(i) == {j \in DOMAIN found : i \in RowKeyIndices(r, found[j].key)}
    IN  [i \in DOMAIN r.keys |->
            IF of(i) = {} THEN None ELSE found[CHOOSE j \in of(i) : TRUE].value]

ReturnBigTable(c) ==
    /\ phase[c] = "sent" /\ ~IsRedis
    /\ request[c].op = "get" => server[c] = <<>>
    /\ result' = [result EXCEPT ![c] =
           IF request[c].op = "get" THEN Unpack(request[c], replies[c]) ELSE <<>>]
    /\ Release(c)
    /\ phase' = [phase EXCEPT ![c] = "done"]
    /\ UNCHANGED <<url, open, rows, request>>

-------------------------------------------------------------------------------

Proceed(c) ==
    \/ NewPipelined(c) \/ ExecuteRedis(c) \/ ExecuteBigTable(c)
    \/ \E i \in Pool : CheckOut(c, i) \/ Discard(c, i)
    \/ ReturnRedis(c) \/ ReturnBigTable(c)

Ended(c) == phase[c] \in {"done", "failed", "dropped"}

\* Nothing is left to do.
AllEnded ==
    /\ open = "error" \/ \A c \in Calls : Ended(c)
    /\ UNCHANGED vars

Next ==
    \/ NewRedis \/ NewBigTable \/ UnknownScheme
    \/ \E c \in Calls : Proceed(c) \/ Fail(c) \/ Drop(c)
    \/ \E i \in Connections : Serve(i) \/ EntryFails(i)
    \/ ServeLate
    \/ AllEnded

Spec == Init /\ [][Next]_vars

\* Futures are polled, and a server that is sent commands executes them.  That
\* the pool gives up after some time is not used.
FairSpec ==
    /\ Spec
    /\ \A c \in Calls : WF_vars(Proceed(c))
    /\ \A i \in Connections : WF_vars(Serve(i))

-------------------------------------------------------------------------------
\* Properties.

\* The variables have the values the code gives them; a get that succeeds has
\* as many results as it has keys.
TypeOK ==
    /\ open \in {"no", "yes", "error"}
    /\ open = "yes" => IsRedis \/ IsConfig(url)
    /\ rows \in [KeySet -> Values \cup {None}]
    /\ phase \in [Calls -> {"idle", "built", "wait", "sent", "done", "failed", "dropped"}]
    /\ \A c \in Calls :
        /\ request[c] \in Requests \cup {None}
        /\ phase[c] = "sent" => via[c] # None
        /\ phase[c] = "done" /\ request[c].op = "get" =>
               result[c] \in [DOMAIN request[c].keys -> Values \cup {None}]
        /\ via[c] \in Pool => \A d \in Calls \ {c} : via[d] # via[c]

\* The positions of c that its server has executed.
Executed(c) ==
    LET waiting == ToSet(server[via[c]])
    IN  {i \in DOMAIN request[c].keys :
            ~\E m \in waiting : m.by = c /\ (IF IsRedis THEN m.at = i
                                             ELSE m.key = request[c].keys[i])}

Got(c) ==
    IF phase[c] # "sent" \/ request[c].op = "set" THEN <<>>
    ELSE [i \in Executed(c) |->
            LET key == request[c].keys[i]
                found == {m \in ToSet(replies[via[c]]) : m.key = key}
            IN  IF IsRedis THEN replies[via[c]][i].value
                ELSE IF found = {} THEN None ELSE (CHOOSE m \in found : TRUE).value]

\* The sets of c that are not executed, wherever they are.
Left(c) ==
    IF request[c] = None \/ request[c].op = "get" THEN {}
    ELSE IF phase[c] \in {"built", "wait"} THEN DOMAIN request[c].keys
    ELSE {m.at : m \in {n \in late \cup UNION {ToSet(server[i]) : i \in Connections} :
                            n.by = c}}

Outcome(c) ==
    CASE phase[c] = "done" -> [kind |-> "ok", values |-> result[c]]
      [] phase[c] \in {"failed", "dropped"} -> [kind |-> phase[c], values |-> <<>>]
      [] OTHER -> [kind |-> "pending", values |-> <<>>]

Contract == INSTANCE KeyValueStore WITH
    Keys <- KeySet,
    reliable <- IsRedis,
    got <- [c \in Calls |-> Got(c)],
    left <- [c \in Calls |-> Left(c)],
    outcome <- [c \in Calls |-> Outcome(c)]

\* Both stores keep the promise of the traits: a get returns, for each of its
\* positions, what the row of that very key had at some moment of the call,
\* never a reply that belongs to an earlier user of the connection, nor a row
\* of another key, also when a key was asked for twice ("We have to be careful
\* because keys might appear more than once", bigtable.rs:238); a set on Redis
\* that succeeds has set everything.
KeepsContract == Contract!Spec

\* A call that waits for a connection of the pool, or for its server, ends,
\* without the help of a timeout: every connection is given back.
CallsEnd == \A c \in Calls : phase[c] # "idle" ~> Ended(c)
==============================================================================
