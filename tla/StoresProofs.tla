---------------------------- MODULE StoresProofs -----------------------------
(***************************************************************************)
(* What is true of the stores for every number of calls and connections,   *)
(* every list of requests and all keys and values.  The invariant says     *)
(* where the commands and replies of each call are: Redis has executed as  *)
(* many of the commands of a call as there are replies in its connection,  *)
(* BigTable has yet to read the keys that are not executed, and what a     *)
(* call left behind is what it was asked to set.  From it follows, action  *)
(* by action, that each step of the stores is a step of KeyValueStore.     *)
(***************************************************************************)
EXTENDS Stores, PositionsProofs

\* The commands a server may have, and its replies.

Message ==
    [by : Calls, at : Nat, op : {"get", "set"}, key : KeySet, value : Values \cup {None}]
Replied == [key : KeySet, value : Values \cup {None, Ok}]
Phases == {"idle", "built", "wait", "sent", "done", "failed", "dropped"}

TypeInv ==
    /\ url \in Urls
    /\ open \in {"no", "yes", "error"} /\ (open = "yes" => IsRedis \/ IsConfig(url))
    /\ rows \in [KeySet -> Values \cup {None}]
    /\ request \in [Calls -> Requests \cup {None}]
    /\ phase \in [Calls -> Phases]
    /\ via \in [Calls -> Connections \cup {None}]
    /\ server \in [Connections -> Seq(Message)]
    /\ replies \in [Connections -> Seq(Replied)]
    /\ late \subseteq Message
    /\ result \in [Calls -> Seq(Values \cup {None})]

\* A call has a connection while its commands are sent, and no other call has it.
CallInv ==
    \A c \in Calls :
        /\ request[c] = None <=> phase[c] = "idle"
        /\ via[c] = None <=> phase[c] # "sent"
        /\ phase[c] = "sent" => IF IsRedis THEN via[c] \in Pool ELSE via[c] = c
        /\ phase[c] = "wait" => IsRedis
        /\ phase[c] = "done" /\ request[c].op = "get" =>
               DOMAIN result[c] = DOMAIN request[c].keys
        /\ \A d \in Calls : via[c] = via[d] /\ via[c] # None => c = d

\* A command, wherever it is, is what its call asked for.
WellFormed(m) ==
    /\ phase[m.by] \notin {"idle", "built", "wait"}
    /\ m.op = request[m.by].op
    /\ m.op = "set" => /\ m.at \in DOMAIN request[m.by].keys
                       /\ m.key = request[m.by].keys[m.at]
                       /\ m.value = request[m.by].values[m.at]

\* What waits at a server: nothing is left in a stream of BigTable without its
\* call, and a command of a call that is not finished is in its connection.
Queue(i) ==
    /\ ~IsRedis /\ ~IsClean(i) => i \in Calls /\ phase[i] = "sent"
    /\ \A k \in DOMAIN server[i] :
        /\ WellFormed(server[i][k])
        /\ phase[server[i][k].by] = "sent" => via[server[i][k].by] = i
        /\ ~IsRedis => server[i][k].by = i
    /\ \A j, k \in DOMAIN server[i] :
        j # k /\ server[i][j].op = "set" =>
            server[i][j].by # server[i][k].by \/ server[i][j].at # server[i][k].at

ServerInv == \A i \in Connections : Queue(i)

LateInv ==
    \A m \in late : WellFormed(m) /\ m.op = "set" /\ phase[m.by] # "sent"

\* The commands of a call are in one place.
PlaceInv ==
    \A i \in Connections : \A k \in DOMAIN server[i] :
        /\ \A j \in Connections : \A l \in DOMAIN server[j] :
               server[j][l].by = server[i][k].by => i = j
        /\ \A m \in late : m.by # server[i][k].by

\* Redis has executed the first of the commands of c, which it replied to.
Paired(c) ==
    phase[c] = "sent" /\ IsRedis =>
        /\ Len(replies[via[c]]) + Len(server[via[c]]) = Len(request[c].keys)
        /\ \A k \in DOMAIN server[via[c]] :
               LET m == server[via[c]][k]
               IN  m.by = c /\ m.at = Len(replies[via[c]]) + k /\ m.key = request[c].keys[m.at]
        /\ request[c].op = "get" =>
               \A k \in DOMAIN replies[via[c]] : replies[via[c]][k].value \in Values \cup {None}

RedisInv == \A c \in Calls : Paired(c)

\* BigTable has read some of the keys of c, and will read the others, each once.
KeysApart(c) ==
    phase[c] = "sent" /\ ~IsRedis /\ request[c].op = "get" =>
        /\ \A j, k \in DOMAIN server[c] : j # k => server[c][j].key # server[c][k].key
        /\ \A j, k \in DOMAIN replies[c] : j # k => replies[c][j].key # replies[c][k].key
        /\ \A j \in DOMAIN server[c], k \in DOMAIN replies[c] :
               server[c][j].key # replies[c][k].key
        /\ \A k \in DOMAIN replies[c] : replies[c][k].value \in Values

BigTableInv == \A c \in Calls : KeysApart(c)

IInv ==
    /\ TypeInv /\ CallInv /\ ServerInv /\ LateInv /\ PlaceInv /\ RedisInv /\ BigTableInv

-------------------------------------------------------------------------------
\* Requests and the lists of commands made from them.

LEMMA RequestType ==
    ASSUME NEW r \in Requests
    PROVE  /\ r.op \in {"get", "set"} /\ r # None
           /\ r.keys \in Seq(KeySet) /\ Len(r.keys) \in Nat
           /\ DOMAIN r.keys = 1..Len(r.keys)
           /\ \A i \in DOMAIN r.keys : r.keys[i] \in KeySet
           /\ r.op = "set" => \A i \in DOMAIN r.keys : r.values[i] \in Values
<1>1. r.keys \in Seq(KeySet)
  BY RequestAssumption
<1> QED
  BY <1>1, RequestAssumption, ValueAssumption, LenProperties, ElementOfSeq

LEMMA PipelineType ==
    ASSUME NEW c \in Calls, NEW r \in Requests
    PROVE  /\ Pipeline(c, r) \in Seq(Message)
           /\ DOMAIN Pipeline(c, r) = DOMAIN r.keys
           /\ Len(Pipeline(c, r)) = Len(r.keys)
           /\ \A i \in DOMAIN r.keys :
                  Pipeline(c, r)[i] = [by |-> c, at |-> i, op |-> r.op, key |-> r.keys[i],
                                       value |-> IF r.op = "set" THEN r.values[i] ELSE None]
<1>1. /\ DOMAIN r.keys = 1..Len(r.keys) /\ Len(r.keys) \in Nat /\ r.op \in {"get", "set"}
      /\ \A i \in DOMAIN r.keys : r.keys[i] \in KeySet
      /\ r.op = "set" => \A i \in DOMAIN r.keys : r.values[i] \in Values
  BY RequestType
<1> DEFINE e(i) == [by |-> c, at |-> i, op |-> r.op, key |-> r.keys[i],
                    value |-> IF r.op = "set" THEN r.values[i] ELSE None]
<1>2. Pipeline(c, r) = [i \in 1..Len(r.keys) |-> e(i)]
  BY <1>1 DEF Pipeline
<1>3. \A i \in 1..Len(r.keys) : e(i) \in Message
  BY <1>1 DEF Message
<1> HIDE DEF e
<1>4. Pipeline(c, r) \in Seq(Message)
  BY <1>1, <1>2, <1>3, IsASeq
<1>5. DOMAIN Pipeline(c, r) = 1..Len(r.keys)
  BY <1>2
<1>6. Len(Pipeline(c, r)) = Len(r.keys)
  BY <1>1, <1>4, <1>5, LenProperties
<1>8. \A i \in 1..Len(r.keys) : Pipeline(c, r)[i] = e(i)
  BY <1>2
<1> QED
  BY <1>1, <1>4, <1>5, <1>6, <1>8 DEF e

LEMMA PipelineFields ==
    ASSUME NEW c \in Calls, NEW r \in Requests
    PROVE  \A i \in DOMAIN r.keys :
               /\ Pipeline(c, r)[i].by = c /\ Pipeline(c, r)[i].at = i
               /\ Pipeline(c, r)[i].op = r.op /\ Pipeline(c, r)[i].key = r.keys[i]
               /\ r.op = "set" => Pipeline(c, r)[i].value = r.values[i]
<1> SUFFICES ASSUME NEW i \in DOMAIN r.keys
             PROVE  /\ Pipeline(c, r)[i].by = c /\ Pipeline(c, r)[i].at = i
                    /\ Pipeline(c, r)[i].op = r.op /\ Pipeline(c, r)[i].key = r.keys[i]
                    /\ r.op = "set" => Pipeline(c, r)[i].value = r.values[i]
  OBVIOUS
<1>1. Pipeline(c, r)[i] = [by |-> c, at |-> i, op |-> r.op, key |-> r.keys[i],
                           value |-> IF r.op = "set" THEN r.values[i] ELSE None]
  BY DEF Pipeline
<1> QED
  BY <1>1

\* A read of BigTable asks for each key of the request once.
LEMMA KeysOnceType ==
    ASSUME NEW c \in Calls, NEW r \in Requests
    PROVE  /\ KeysOnce(c, r) \in Seq(Message)
           /\ \A j \in DOMAIN KeysOnce(c, r) :
                  /\ KeysOnce(c, r)[j].by = c /\ KeysOnce(c, r)[j].op = "get"
                  /\ \A k \in DOMAIN KeysOnce(c, r) :
                         j # k => KeysOnce(c, r)[j].key # KeysOnce(c, r)[k].key
           /\ \A i \in DOMAIN r.keys : \E j \in DOMAIN KeysOnce(c, r) :
                  KeysOnce(c, r)[j].key = r.keys[i]
<1> DEFINE S == {i \in DOMAIN Keys : Keys[i] \in ToSet(r.keys)}
           keys == Selected(Keys, S)
           n == Cardinality(S)
<1>1. /\ Keys \in Seq(KeySet) /\ DOMAIN Keys = 1..Len(Keys) /\ Len(Keys) \in Nat
      /\ \A i, j \in DOMAIN Keys : Keys[i] = Keys[j] => i = j
  BY KeyAssumption, LenProperties DEF IsInjective
<1>2. S \subseteq DOMAIN Keys
  OBVIOUS
<1>3. \A i \in DOMAIN r.keys : r.keys[i] \in KeySet /\ r.keys[i] \in ToSet(r.keys)
  BY RequestType DEF ToSet
<1>4. \A i \in DOMAIN r.keys : \E j \in S : Keys[j] = r.keys[i]
  BY <1>3 DEF KeySet, ToSet
<1> HIDE DEF S
<1>5. /\ keys \in Seq(KeySet) /\ n \in Nat /\ DOMAIN keys = 1..n
      /\ \A k \in 1..n : Positions(S)[k] \in S /\ keys[k] = Keys[Positions(S)[k]]
  BY <1>1, <1>2, SelectedListed
<1>6. /\ \A i \in S : \E k \in 1..n : Positions(S)[k] = i
      /\ \A j, k \in 1..n : j < k => Positions(S)[j] < Positions(S)[k]
  BY <1>1, <1>2, PositionsListed
<1>7. \A k \in 1..n : keys[k] \in KeySet
  BY <1>5, LenProperties, ElementOfSeq
<1> DEFINE e(i) == [by |-> c, at |-> i, op |-> "get", key |-> keys[i], value |-> None]
<1>8. KeysOnce(c, r) = [i \in 1..n |-> e(i)]
  BY <1>5 DEF KeysOnce, S
<1>9. \A j, k \in 1..n : j # k => keys[j] # keys[k]
  <2> SUFFICES ASSUME NEW j \in 1..n, NEW k \in 1..n, j # k, keys[j] = keys[k]
               PROVE  FALSE
    OBVIOUS
  <2>1. Positions(S)[j] = Positions(S)[k]
    BY <1>1, <1>2, <1>5
  <2>2. Positions(S)[j] \in Nat
    BY <1>1, <1>2, <1>5
  <2> QED
    BY <1>5, <1>6, <2>1, <2>2
<1> HIDE DEF keys, n
<1>10. \A i \in 1..n : e(i) \in Message
  BY <1>5, <1>7 DEF Message
<1> HIDE DEF e
<1>11. KeysOnce(c, r) \in Seq(Message)
  BY <1>5, <1>8, <1>10, IsASeq
<1>12. DOMAIN KeysOnce(c, r) = 1..n
  BY <1>8
<1>13. \A i \in 1..n : KeysOnce(c, r)[i] = e(i) /\ e(i).by = c /\ e(i).op = "get" /\ e(i).key = keys[i]
  BY <1>8 DEF e
<1>14. ASSUME NEW i \in DOMAIN r.keys
       PROVE  \E j \in 1..n : keys[j] = r.keys[i]
  BY <1>4, <1>5, <1>6
<1> QED
  BY <1>9, <1>11, <1>12, <1>13, <1>14

\* A write sends commands of the pipeline, each once.
LEMMA WriteType ==
    ASSUME NEW c \in Calls, NEW r \in Requests,
           NEW s \in SetToSeqs(ToSet(Pipeline(c, r)))
    PROVE  /\ s \in Seq(Message)
           /\ \A j \in DOMAIN s : /\ \E i \in DOMAIN r.keys : s[j] = Pipeline(c, r)[i]
                                  /\ \A k \in DOMAIN s : j # k => s[j] # s[k]
<1> DEFINE P == Pipeline(c, r)
           S == ToSet(P)
           n == Cardinality(S)
<1>1. /\ P \in Seq(Message) /\ DOMAIN P = 1..Len(r.keys) /\ Len(r.keys) \in Nat
      /\ DOMAIN P = DOMAIN r.keys /\ \A i \in DOMAIN P : P[i] \in Message
  BY PipelineType, RequestType, LenProperties, ElementOfSeq
<1>2. P \in Surjection(1..Len(r.keys), S) /\ IsFiniteSet(1..Len(r.keys))
  <2>1. P = [i \in 1..Len(r.keys) |-> P[i]]
    BY <1>1
  <2>2. \A i \in 1..Len(r.keys) : P[i] \in S
    BY <1>1 DEF ToSet
  <2>3. \A m \in S : \E i \in 1..Len(r.keys) : P[i] = m
    BY <1>1 DEF ToSet
  <2> HIDE DEF P, S
  <2>4. P \in Surjection(1..Len(r.keys), S)
    BY <2>1, <2>2, <2>3 DEF Surjection
  <2> QED
    BY <1>1, <2>4, FS_Interval
<1>3. S \subseteq Message /\ \A m \in S : \E i \in DOMAIN P : m = P[i]
  BY <1>1 DEF ToSet
<1> HIDE DEF P, S
<1>4. n \in Nat
  BY <1>2, FS_Surjection, FS_CardinalityType
<1>5. s \in [1..n -> S] /\ \A j, k \in 1..n : j # k => s[j] # s[k]
  BY DEF SetToSeqs, S, P
<1> HIDE DEF n
<1>6. s \in Seq(S)
  BY <1>4, <1>5, IsASeq
<1>7. s \in Seq(Message)
  BY <1>3, <1>6, SeqMonotonic
<1>8. DOMAIN s = 1..n /\ \A j \in 1..n : s[j] \in S
  BY <1>5
<1> QED
  BY <1>1, <1>3, <1>5, <1>7, <1>8 DEF P

\* What BigTable is sent for a request.
LEMMA BigTableRequestsType ==
    ASSUME NEW c \in Calls, NEW r \in Requests, NEW s \in BigTableRequests(c, r)
    PROVE  /\ s \in Seq(Message)
           /\ \A j \in DOMAIN s :
                  /\ s[j].by = c /\ s[j].op = r.op
                  /\ r.op = "set" => /\ s[j].at \in DOMAIN r.keys
                                     /\ s[j].key = r.keys[s[j].at]
                                     /\ s[j].value = r.values[s[j].at]
                  /\ \A k \in DOMAIN s : j # k =>
                         IF r.op = "set" THEN s[j].at # s[k].at ELSE s[j].key # s[k].key
           /\ r.op = "get" => \A i \in DOMAIN r.keys : \E j \in DOMAIN s : s[j].key = r.keys[i]
<1>1. CASE r.op = "get"
  <2>1. s = KeysOnce(c, r)
    BY <1>1 DEF BigTableRequests
  <2> QED
    BY <1>1, <2>1, KeysOnceType
<1>2. CASE r.op = "set"
  <2>1. s \in SetToSeqs(ToSet(Pipeline(c, r)))
    BY <1>2 DEF BigTableRequests
  <2>2. \A i \in DOMAIN r.keys : Pipeline(c, r)[i] =
            [by |-> c, at |-> i, op |-> "set", key |-> r.keys[i], value |-> r.values[i]]
    BY <1>2, PipelineType
  <2>3. /\ s \in Seq(Message)
        /\ \A j \in DOMAIN s : /\ \E i \in DOMAIN r.keys : s[j] = Pipeline(c, r)[i]
                               /\ \A k \in DOMAIN s : j # k => s[j] # s[k]
    BY <2>1, WriteType
  <2>4. ASSUME NEW j \in DOMAIN s
        PROVE  /\ s[j].by = c /\ s[j].op = "set" /\ s[j].at \in DOMAIN r.keys
               /\ s[j] = Pipeline(c, r)[s[j].at]
               /\ s[j].key = r.keys[s[j].at] /\ s[j].value = r.values[s[j].at]
    <3>1. PICK i \in DOMAIN r.keys : s[j] = Pipeline(c, r)[i]
      BY <2>3
    <3>2. s[j] = [by |-> c, at |-> i, op |-> "set", key |-> r.keys[i], value |-> r.values[i]]
      BY <2>2, <3>1
    <3>3. s[j].at = i /\ s[j].by = c /\ s[j].op = "set" /\ s[j].key = r.keys[i]
          /\ s[j].value = r.values[i]
      BY <3>2
    <3> QED
      BY <3>1, <3>3
  <2> QED
    BY <1>2, <2>3, <2>4
<1> QED
  BY <1>1, <1>2, RequestType

\* The value of each position is that of the row of its key.
LEMMA Unpacked ==
    ASSUME NEW r \in Requests, NEW found \in Seq(Replied),
           \A j, k \in DOMAIN found : j # k => found[j].key # found[k].key
    PROVE  /\ DOMAIN Unpack(r, found) = DOMAIN r.keys
           /\ \A i \in DOMAIN r.keys :
                  /\ \A j \in DOMAIN found : found[j].key = r.keys[i] =>
                         Unpack(r, found)[i] = found[j].value
                  /\ (\A j \in DOMAIN found : found[j].key # r.keys[i]) =>
                         Unpack(r, found)[i] = None
<1> DEFINE of(i) == {j \in DOMAIN found : i \in RowKeyIndices(r, found[j].key)}
<1>1. Unpack(r, found) = [i \in DOMAIN r.keys |->
          IF of(i) = {} THEN None ELSE found[CHOOSE j \in of(i) : TRUE].value]
  BY DEF Unpack
<1>2. \A i \in DOMAIN r.keys : of(i) = {j \in DOMAIN found : found[j].key = r.keys[i]}
  BY DEF RowKeyIndices
<1> HIDE DEF of
<1>3. ASSUME NEW i \in DOMAIN r.keys, NEW j \in DOMAIN found, found[j].key = r.keys[i]
      PROVE  Unpack(r, found)[i] = found[j].value
  <2>1. of(i) = {j}
    BY <1>2, <1>3
  <2> QED
    BY <1>1, <2>1
<1>4. ASSUME NEW i \in DOMAIN r.keys, \A j \in DOMAIN found : found[j].key # r.keys[i]
      PROVE  Unpack(r, found)[i] = None
  <2>1. of(i) = {}
    BY <1>2, <1>4
  <2> QED
    BY <1>1, <2>1
<1> QED
  BY <1>1, <1>3, <1>4

-------------------------------------------------------------------------------
\* Lists of commands and replies.

LEMMA Sums ==
    ASSUME NEW x \in Nat, NEW y \in Nat, NEW z \in Nat, x + y = z
    PROVE  /\ x >= z => x = z /\ y = 0
           /\ (x + 1) + (y - 1) = z
OBVIOUS

LEMMA Shift ==
    ASSUME NEW x \in Nat, NEW y \in Nat
    PROVE  x + (y + 1) = (x + 1) + y
OBVIOUS

LEMMA Listed ==
    ASSUME NEW A, NEW s \in Seq(A)
    PROVE  Len(s) \in Nat /\ DOMAIN s = 1..Len(s) /\ \A k \in DOMAIN s : s[k] \in A
BY LenProperties, ElementOfSeq

LEMMA HeadTail ==
    ASSUME NEW A, NEW s \in Seq(A), s # <<>>
    PROVE  /\ 1 \in DOMAIN s /\ Head(s) = s[1] /\ s[1] \in A
           /\ Tail(s) \in Seq(A) /\ Len(Tail(s)) = Len(s) - 1 /\ Len(s) \in Nat \ {0}
           /\ \A k \in DOMAIN Tail(s) : k + 1 \in DOMAIN s /\ Tail(s)[k] = s[k + 1]
<1>1. Len(s) \in Nat \ {0} /\ DOMAIN s = 1..Len(s)
  BY EmptySeq, LenProperties
<1>2. Tail(s) \in Seq(A) /\ Len(Tail(s)) = Len(s) - 1
  BY HeadTailProperties
<1>3. DOMAIN Tail(s) = 1..(Len(s) - 1)
  BY <1>1, <1>2, LenProperties
<1>4. Head(s) = s[1]
  OBVIOUS
<1>5. \A k \in 1..Len(Tail(s)) : Tail(s)[k] = s[k + 1]
  BY HeadTailProperties
<1> QED
  BY <1>1, <1>2, <1>3, <1>4, <1>5, ElementOfSeq

LEMMA Extended ==
    ASSUME NEW A, NEW s \in Seq(A), NEW x \in A
    PROVE  /\ s \o <<x>> \in Seq(A) /\ Len(s \o <<x>>) = Len(s) + 1
           /\ DOMAIN (s \o <<x>>) = 1..(Len(s) + 1)
           /\ (s \o <<x>>)[Len(s) + 1] = x
           /\ \A k \in DOMAIN s : (s \o <<x>>)[k] = s[k]
OBVIOUS

\* The sorts of what is in the lists.
LEMMA Sorts ==
    ASSUME TypeInv
    PROVE  /\ \A i \in Connections :
                  /\ server[i] \in Seq(Message) /\ replies[i] \in Seq(Replied)
                  /\ Len(server[i]) \in Nat /\ DOMAIN server[i] = 1..Len(server[i])
                  /\ Len(replies[i]) \in Nat /\ DOMAIN replies[i] = 1..Len(replies[i])
                  /\ \A k \in DOMAIN server[i] :
                         /\ server[i][k] \in Message
                         /\ server[i][k].by \in Calls /\ server[i][k].op \in {"get", "set"}
                         /\ server[i][k].key \in KeySet
                         /\ server[i][k].at \in Nat
                         /\ server[i][k].value \in Values \cup {None}
                  /\ \A k \in DOMAIN replies[i] : replies[i][k] \in Replied
           /\ \A m \in late : /\ m.by \in Calls /\ m.op \in {"get", "set"}
                              /\ m.key \in KeySet /\ m.at \in Nat
                              /\ m.value \in Values \cup {None}
<1>1. \A m \in Message : /\ m.by \in Calls /\ m.op \in {"get", "set"}
                         /\ m.key \in KeySet /\ m.at \in Nat
                         /\ m.value \in Values \cup {None}
  BY DEF Message
<1>2. \A i \in Connections : server[i] \in Seq(Message) /\ replies[i] \in Seq(Replied)
  BY DEF TypeInv
<1>3. late \subseteq Message
  BY DEF TypeInv
<1> HIDE DEF Message, Replied
<1>4. ASSUME NEW i \in Connections
      PROVE  /\ Len(server[i]) \in Nat /\ DOMAIN server[i] = 1..Len(server[i])
             /\ Len(replies[i]) \in Nat /\ DOMAIN replies[i] = 1..Len(replies[i])
             /\ \A k \in DOMAIN server[i] : server[i][k] \in Message
             /\ \A k \in DOMAIN replies[i] : replies[i][k] \in Replied
  BY <1>2, Listed
<1> QED
  BY <1>1, <1>2, <1>3, <1>4

\* What waits at a server is not disturbed by what other calls do.
LEMMA QueueFrame ==
    ASSUME TypeInv, NEW i \in Connections, Queue(i),
           url' = url, server'[i] = server[i], replies'[i] = replies[i],
           ~IsRedis /\ i \in Calls => phase'[i] = phase[i],
           \A k \in DOMAIN server[i] :
               /\ phase'[server[i][k].by] = phase[server[i][k].by]
               /\ via'[server[i][k].by] = via[server[i][k].by]
               /\ request'[server[i][k].by] = request[server[i][k].by]
    PROVE  Queue(i)'
BY DEF Queue, WellFormed, IsClean, IsRedis

LEMMA CommandValue ==
    ASSUME TypeInv, CallInv, NEW m, m.by \in Calls, WellFormed(m)
    PROVE  request[m.by] \in Requests /\ (m.op = "set" => m.value \in Values)
<1>1. request[m.by] \in Requests
  BY DEF TypeInv, CallInv, WellFormed
<1> QED
  BY <1>1, RequestType DEF WellFormed

LEMMA PairedFrame ==
    ASSUME NEW c \in Calls, Paired(c), url' = url, phase'[c] = phase[c],
           via'[c] = via[c], request'[c] = request[c],
           phase[c] = "sent" => /\ server'[via[c]] = server[via[c]]
                                /\ replies'[via[c]] = replies[via[c]]
    PROVE  Paired(c)'
BY DEF Paired, IsRedis

LEMMA KeysApartFrame ==
    ASSUME NEW c \in Calls, KeysApart(c), url' = url, phase'[c] = phase[c],
           request'[c] = request[c],
           phase[c] = "sent" /\ ~IsRedis => server'[c] = server[c] /\ replies'[c] = replies[c]
    PROVE  KeysApart(c)'
BY DEF KeysApart, IsRedis

LEMMA Unsent ==
    ASSUME IInv, NEW c \in Calls, phase[c] \in {"idle", "built", "wait"}
    PROVE  /\ \A i \in Connections : \A k \in DOMAIN server[i] : server[i][k].by # c
           /\ \A m \in late : m.by # c
BY DEF IInv, ServerInv, Queue, LateInv, WellFormed

-------------------------------------------------------------------------------
\* Every step keeps the invariant, action by action.

LEMMA IdleInv ==
    ASSUME IInv, UNCHANGED vars
    PROVE  IInv'
<1> USE DEF vars, call, connection, IsRedis
<1>c1. TypeInv'
  BY DEF IInv, TypeInv, CallInv
<1>c2. CallInv'
  BY DEF IInv, TypeInv, CallInv
<1>c3. ServerInv'
  BY DEF IInv, TypeInv, CallInv, ServerInv, Queue, WellFormed, IsClean
<1>c4. LateInv'
  BY DEF IInv, TypeInv, CallInv, LateInv, WellFormed
<1>c5. PlaceInv'
  BY DEF IInv, TypeInv, CallInv, PlaceInv
<1>c6. RedisInv'
  BY DEF IInv, TypeInv, CallInv, RedisInv, Paired
<1>c7. BigTableInv'
  BY DEF IInv, TypeInv, CallInv, BigTableInv, KeysApart
<1> QED
  BY <1>c1, <1>c2, <1>c3, <1>c4, <1>c5, <1>c6, <1>c7 DEF IInv

LEMMA NewRedisInv ==
    ASSUME IInv, NewRedis
    PROVE  IInv'
<1> USE DEF NewRedis, call, connection, IsRedis
<1>c1. TypeInv'
  BY DEF IInv, TypeInv, CallInv
<1>c2. CallInv'
  BY DEF IInv, TypeInv, CallInv
<1>c3. ServerInv'
  BY DEF IInv, TypeInv, CallInv, ServerInv, Queue, WellFormed, IsClean
<1>c4. LateInv'
  BY DEF IInv, TypeInv, CallInv, LateInv, WellFormed
<1>c5. PlaceInv'
  BY DEF IInv, TypeInv, CallInv, PlaceInv
<1>c6. RedisInv'
  BY DEF IInv, TypeInv, CallInv, RedisInv, Paired
<1>c7. BigTableInv'
  BY DEF IInv, TypeInv, CallInv, BigTableInv, KeysApart
<1> QED
  BY <1>c1, <1>c2, <1>c3, <1>c4, <1>c5, <1>c6, <1>c7 DEF IInv

LEMMA NewBigTableInv ==
    ASSUME IInv, NewBigTable
    PROVE  IInv'
<1> USE DEF NewBigTable, call, connection, IsRedis
<1>c1. TypeInv'
  BY DEF IInv, TypeInv, CallInv
<1>c2. CallInv'
  BY DEF IInv, TypeInv, CallInv
<1>c3. ServerInv'
  BY DEF IInv, TypeInv, CallInv, ServerInv, Queue, WellFormed, IsClean
<1>c4. LateInv'
  BY DEF IInv, TypeInv, CallInv, LateInv, WellFormed
<1>c5. PlaceInv'
  BY DEF IInv, TypeInv, CallInv, PlaceInv
<1>c6. RedisInv'
  BY DEF IInv, TypeInv, CallInv, RedisInv, Paired
<1>c7. BigTableInv'
  BY DEF IInv, TypeInv, CallInv, BigTableInv, KeysApart
<1> QED
  BY <1>c1, <1>c2, <1>c3, <1>c4, <1>c5, <1>c6, <1>c7 DEF IInv

LEMMA UnknownSchemeInv ==
    ASSUME IInv, UnknownScheme
    PROVE  IInv'
<1> USE DEF UnknownScheme, call, connection, IsRedis
<1>c1. TypeInv'
  BY DEF IInv, TypeInv, CallInv
<1>c2. CallInv'
  BY DEF IInv, TypeInv, CallInv
<1>c3. ServerInv'
  BY DEF IInv, TypeInv, CallInv, ServerInv, Queue, WellFormed, IsClean
<1>c4. LateInv'
  BY DEF IInv, TypeInv, CallInv, LateInv, WellFormed
<1>c5. PlaceInv'
  BY DEF IInv, TypeInv, CallInv, PlaceInv
<1>c6. RedisInv'
  BY DEF IInv, TypeInv, CallInv, RedisInv, Paired
<1>c7. BigTableInv'
  BY DEF IInv, TypeInv, CallInv, BigTableInv, KeysApart
<1> QED
  BY <1>c1, <1>c2, <1>c3, <1>c4, <1>c5, <1>c6, <1>c7 DEF IInv

LEMMA NewPipelinedInv ==
    ASSUME IInv, NEW c \in Calls, NewPipelined(c)
    PROVE  IInv'
<1> USE DEF NewPipelined, call, connection, IsRedis, Phases
<1>c1. TypeInv'
  BY DEF IInv, TypeInv, CallInv
<1>c2. CallInv'
  BY ValueAssumption DEF IInv, TypeInv, CallInv
<1>c3. ServerInv'
  BY DEF IInv, TypeInv, CallInv, ServerInv, Queue, WellFormed, IsClean
<1>c4. LateInv'
  BY DEF IInv, TypeInv, CallInv, LateInv, WellFormed
<1>c5. PlaceInv'
  BY DEF IInv, TypeInv, CallInv, PlaceInv
<1>c6. RedisInv'
  BY DEF IInv, TypeInv, CallInv, RedisInv, Paired
<1>c7. BigTableInv'
  BY DEF IInv, TypeInv, CallInv, BigTableInv, KeysApart
<1> QED
  BY <1>c1, <1>c2, <1>c3, <1>c4, <1>c5, <1>c6, <1>c7 DEF IInv

LEMMA ExecuteRedisInv ==
    ASSUME IInv, NEW c \in Calls, ExecuteRedis(c)
    PROVE  IInv'
<1> USE DEF ExecuteRedis, call, connection, IsRedis, Phases
<1>c1. TypeInv'
  BY DEF IInv, TypeInv, CallInv
<1>c2. CallInv'
  BY DEF IInv, TypeInv, CallInv
<1>c3. ServerInv'
  BY DEF IInv, TypeInv, CallInv, ServerInv, Queue, WellFormed, IsClean
<1>c4. LateInv'
  BY DEF IInv, TypeInv, CallInv, LateInv, WellFormed
<1>c5. PlaceInv'
  BY DEF IInv, TypeInv, CallInv, PlaceInv
<1>c6. RedisInv'
  BY DEF IInv, TypeInv, CallInv, RedisInv, Paired
<1>c7. BigTableInv'
  BY DEF IInv, TypeInv, CallInv, BigTableInv, KeysApart
<1> QED
  BY <1>c1, <1>c2, <1>c3, <1>c4, <1>c5, <1>c6, <1>c7 DEF IInv

LEMMA ExecuteBigTableInv ==
    ASSUME IInv, NEW c \in Calls, ExecuteBigTable(c)
    PROVE  IInv'
<1> USE DEF ExecuteBigTable, call, connection, IsRedis, Phases, Connections
<1>1. /\ c \in Connections /\ ~IsRedis /\ request[c] \in Requests /\ phase[c] = "built"
      /\ server[c] = <<>> /\ replies[c] = <<>> /\ via[c] = None /\ c # None
  BY ValueAssumption DEF IInv, TypeInv, CallInv, ServerInv, Queue, IsClean
<1>2. PICK s \in BigTableRequests(c, request[c]) : server' = [server EXCEPT ![c] = s]
  OBVIOUS
<1> DEFINE r == request[c]
<1>3. /\ s \in Seq(Message)
      /\ \A j \in DOMAIN s :
             /\ s[j].by = c /\ s[j].op = r.op
             /\ r.op = "set" => /\ s[j].at \in DOMAIN r.keys
                                /\ s[j].key = r.keys[s[j].at]
                                /\ s[j].value = r.values[s[j].at]
             /\ \A k \in DOMAIN s : j # k =>
                    IF r.op = "set" THEN s[j].at # s[k].at ELSE s[j].key # s[k].key
  BY <1>1, BigTableRequestsType
<1>4. /\ \A i \in Connections : \A k \in DOMAIN server[i] : server[i][k].by # c
      /\ \A m \in late : m.by # c
  BY <1>1, Unsent
<1>c1. TypeInv'
  BY <1>1, <1>2, <1>3 DEF IInv, TypeInv, CallInv
<1>c2. CallInv'
  BY <1>1, <1>2, <1>3 DEF IInv, TypeInv, CallInv
<1>c3. ServerInv'
  <2> SUFFICES ASSUME NEW i \in Connections
               PROVE  Queue(i)'
    BY DEF ServerInv, IsRedis, Connections
  <2>1. CASE i = c
    <3>1. server'[i] = s /\ phase'[c] = "sent" /\ via'[c] = c /\ request' = request
      BY <1>1, <1>2, <2>1 DEF IInv, TypeInv
    <3> QED
      BY <1>1, <1>3, <2>1, <3>1 DEF Queue, WellFormed, IsClean
  <2>2. CASE i # c
    <3>1. server'[i] = server[i] /\ replies' = replies /\ Queue(i) /\ url' = url
      BY <1>1, <1>2, <2>2 DEF IInv, TypeInv, ServerInv
    <3>2. \A d \in Calls : d # c => phase'[d] = phase[d] /\ via'[d] = via[d] /\ request'[d] = request[d]
      BY DEF IInv, TypeInv
    <3>3. \A k \in DOMAIN server[i] : server[i][k].by \in Calls \ {c}
      BY <1>4, Sorts DEF IInv
    <3> QED
      BY <2>2, <3>1, <3>2, <3>3, QueueFrame DEF IInv
  <2> QED
    BY <2>1, <2>2
<1>c4. LateInv'
  BY <1>1, <1>2, <1>3 DEF IInv, TypeInv, CallInv, LateInv, WellFormed
<1>c5. PlaceInv'
  <2> SUFFICES ASSUME NEW i \in Connections, NEW k \in DOMAIN server'[i]
               PROVE  /\ \A j \in Connections : \A l \in DOMAIN server'[j] :
                            server'[j][l].by = server'[i][k].by => i = j
                      /\ \A m \in late' : m.by # server'[i][k].by
    BY DEF PlaceInv
  <2>1. \A j \in Connections : IF j = c THEN server'[j] = s ELSE server'[j] = server[j]
    BY <1>1, <1>2 DEF IInv, TypeInv
  <2> QED
    BY <1>1, <1>3, <1>4, <2>1 DEF IInv, PlaceInv
<1>c6. RedisInv'
  BY <1>1, <1>2, <1>3 DEF IInv, TypeInv, CallInv, RedisInv, Paired
<1>c7. BigTableInv'
  BY <1>1, <1>2, <1>3 DEF IInv, TypeInv, CallInv, BigTableInv, KeysApart
<1> QED
  BY <1>c1, <1>c2, <1>c3, <1>c4, <1>c5, <1>c6, <1>c7 DEF IInv

LEMMA CheckOutInv ==
    ASSUME IInv, NEW c \in Calls, NEW i \in Pool, CheckOut(c, i)
    PROVE  IInv'
<1> USE DEF CheckOut, call, IsRedis, Phases, Connections
<1> DEFINE r == request[c]
           s == Pipeline(c, r)
<1>1. /\ i \in Connections /\ IsRedis /\ r \in Requests /\ phase[c] = "wait"
      /\ server[i] = <<>> /\ replies[i] = <<>> /\ via[c] = None /\ i # None
      /\ \A d \in Calls : via[d] # i
  BY ValueAssumption DEF IInv, TypeInv, CallInv, IsClean, IsIdle, Pool
<1>2. server' = [server EXCEPT ![i] = s]
  OBVIOUS
<1>3. /\ s \in Seq(Message) /\ Len(s) = Len(r.keys) /\ DOMAIN s = DOMAIN r.keys
      /\ \A k \in DOMAIN s :
             /\ s[k].by = c /\ s[k].op = r.op /\ s[k].at = k /\ s[k].key = r.keys[k]
             /\ r.op = "set" => s[k].value = r.values[k]
  <2>1. r \in Requests
    BY <1>1
  <2> HIDE DEF r, s
  <2>2. /\ Pipeline(c, r) \in Seq(Message) /\ Len(Pipeline(c, r)) = Len(r.keys)
        /\ DOMAIN Pipeline(c, r) = DOMAIN r.keys
    BY <2>1, PipelineType
  <2>3. ASSUME NEW k \in DOMAIN r.keys
        PROVE  /\ Pipeline(c, r)[k].by = c /\ Pipeline(c, r)[k].op = r.op
               /\ Pipeline(c, r)[k].at = k /\ Pipeline(c, r)[k].key = r.keys[k]
               /\ r.op = "set" => Pipeline(c, r)[k].value = r.values[k]
    BY <2>1, PipelineFields
  <2> QED
    BY <2>2, <2>3 DEF s
<1>4. /\ \A j \in Connections : \A k \in DOMAIN server[j] : server[j][k].by # c
      /\ \A m \in late : m.by # c
  BY <1>1, Unsent
<1> HIDE DEF s
<1>c1. TypeInv'
  BY <1>1, <1>2, <1>3 DEF IInv, TypeInv, CallInv
<1>c2. CallInv'
  BY <1>1, <1>2, <1>3 DEF IInv, TypeInv, CallInv
<1>c3. ServerInv'
  <2> SUFFICES ASSUME NEW j \in Connections
               PROVE  Queue(j)'
    BY DEF ServerInv, IsRedis, Connections
  <2>1. CASE j = i
    <3>1. server'[j] = s /\ phase'[c] = "sent" /\ via'[c] = i /\ request' = request /\ url' = url
      BY <1>1, <1>2, <2>1 DEF IInv, TypeInv
    <3> QED
      BY <1>1, <1>3, <2>1, <3>1 DEF Queue, WellFormed, IsClean
  <2>2. CASE j # i
    <3>1. server'[j] = server[j] /\ replies' = replies /\ Queue(j) /\ url' = url
      BY <1>1, <1>2, <2>2 DEF IInv, TypeInv, ServerInv
    <3>2. \A d \in Calls : d # c => phase'[d] = phase[d] /\ via'[d] = via[d] /\ request'[d] = request[d]
      BY DEF IInv, TypeInv
    <3>3. \A k \in DOMAIN server[j] : server[j][k].by \in Calls \ {c}
      BY <1>4, Sorts DEF IInv
    <3> QED
      BY <1>1, <2>2, <3>1, <3>2, <3>3, QueueFrame DEF IInv
  <2> QED
    BY <2>1, <2>2
<1>c4. LateInv'
  BY <1>1, <1>2, <1>3 DEF IInv, TypeInv, CallInv, LateInv, WellFormed
<1>c5. PlaceInv'
  <2> SUFFICES ASSUME NEW h \in Connections, NEW k \in DOMAIN server'[h]
               PROVE  /\ \A j \in Connections : \A l \in DOMAIN server'[j] :
                            server'[j][l].by = server'[h][k].by => h = j
                      /\ \A m \in late' : m.by # server'[h][k].by
    BY DEF PlaceInv
  <2>1. \A j \in Connections : IF j = i THEN server'[j] = s ELSE server'[j] = server[j]
    BY <1>1, <1>2 DEF IInv, TypeInv
  <2> QED
    BY <1>1, <1>3, <1>4, <2>1 DEF IInv, PlaceInv
<1>c6. RedisInv'
  <2> SUFFICES ASSUME NEW d \in Calls
               PROVE  Paired(d)'
    BY DEF RedisInv
  <2>1. CASE d = c
    <3>1. via'[d] = i /\ server'[i] = s /\ replies'[i] = <<>> /\ request'[d] = r
      BY <1>1, <1>2, <2>1 DEF IInv, TypeInv
    <3>2. Len(r.keys) \in Nat /\ Len(s) \in Nat /\ DOMAIN s = 1..Len(s) /\ Len(<<>>) = 0
      BY <1>1, <1>3, RequestType, Listed
    <3>3. \A k \in DOMAIN s : s[k].by = c /\ s[k].at = 0 + k /\ s[k].key = r.keys[s[k].at]
      BY <1>3, <3>2
    <3>4. DOMAIN <<>> = {}
      OBVIOUS
    <3> HIDE DEF r
    <3>5. Len(replies'[i]) + Len(server'[i]) = Len(r.keys)
      BY <1>3, <3>1, <3>2
    <3>6. \A k \in DOMAIN server'[i] :
              /\ server'[i][k].by = c /\ server'[i][k].at = Len(replies'[i]) + k
              /\ server'[i][k].key = r.keys[server'[i][k].at]
      BY <3>1, <3>2, <3>3
    <3>7. DOMAIN replies'[i] = {}
      BY <3>1, <3>4
    <3>8. url' = url /\ (url.scheme = "redis")' = (url.scheme = "redis")
      OBVIOUS
    <3> HIDE DEF CheckOut
    <3> QED
      BY <2>1, <3>1, <3>5, <3>6, <3>7 DEF Paired
  <2>2. CASE d # c
    <3>1. phase'[d] = phase[d] /\ via'[d] = via[d] /\ via[d] # i /\ request'[d] = request[d]
      BY <1>1, <2>2 DEF IInv, TypeInv
    <3>2. phase[d] = "sent" => server'[via[d]] = server[via[d]] /\ replies' = replies
      BY <1>1, <1>2, <3>1 DEF IInv, TypeInv, CallInv
    <3> QED
      BY <1>1, <3>1, <3>2, PairedFrame DEF IInv, RedisInv
  <2> QED
    BY <2>1, <2>2
<1>c7. BigTableInv'
  BY <1>1, <1>2, <1>3 DEF IInv, TypeInv, CallInv, BigTableInv, KeysApart
<1> QED
  BY <1>c1, <1>c2, <1>c3, <1>c4, <1>c5, <1>c6, <1>c7 DEF IInv

LEMMA DiscardInv ==
    ASSUME IInv, NEW c \in Calls, NEW i \in Pool, Discard(c, i)
    PROVE  IInv'
<1>1. /\ i \in Connections /\ IsRedis /\ url' = url /\ open' = open /\ rows' = rows
      /\ request' = request /\ phase' = phase /\ via' = via /\ result' = result
      /\ server' = [server EXCEPT ![i] = <<>>]
      /\ replies' = [replies EXCEPT ![i] = <<>>]
      /\ late' = late \cup {m \in ToSet(server[i]) : m.op = "set"}
      /\ \A d \in Calls : via[d] # i
  BY DEF IInv, CallInv, Discard, Connections, call, IsIdle
<1>2. /\ server'[i] = <<>> /\ replies'[i] = <<>>
      /\ \A j \in Connections : j # i => server'[j] = server[j] /\ replies'[j] = replies[j]
  BY <1>1 DEF IInv, TypeInv
<1>3. \A m \in late' : m \in late \/ (m.op = "set" /\ \E k \in DOMAIN server[i] : m = server[i][k])
  BY <1>1 DEF ToSet
<1>4. \A k \in DOMAIN server[i] : /\ server[i][k] \in Message /\ phase[server[i][k].by] # "sent"
                                  /\ WellFormed(server[i][k])
  BY <1>1, Sorts DEF IInv, ServerInv, Queue
<1>c1. TypeInv'
  <2>1. late' \subseteq Message
    BY <1>3, <1>4 DEF IInv, TypeInv
  <2>2. server' \in [Connections -> Seq(Message)] /\ replies' \in [Connections -> Seq(Replied)]
    BY <1>1 DEF IInv, TypeInv
  <2> QED
    BY <1>1, <2>1, <2>2 DEF IInv, TypeInv, Connections, IsRedis, IsConfig
<1>c2. CallInv'
  BY <1>1 DEF IInv, CallInv, IsRedis
<1>c3. ServerInv'
  <2> SUFFICES ASSUME NEW j \in Connections
               PROVE  Queue(j)'
    BY DEF ServerInv, Connections
  <2>1. CASE j = i
    BY <1>2, <2>1 DEF Queue, IsClean
  <2>2. CASE j # i
    BY <1>1, <1>2, <2>2, QueueFrame DEF IInv, ServerInv
  <2> QED
    BY <2>1, <2>2
<1>c4. LateInv'
  BY <1>1, <1>3, <1>4 DEF IInv, LateInv, WellFormed
<1>c5. PlaceInv'
  <2> SUFFICES ASSUME NEW h \in Connections, NEW k \in DOMAIN server'[h]
               PROVE  /\ \A j \in Connections : \A l \in DOMAIN server'[j] :
                            server'[j][l].by = server'[h][k].by => h = j
                      /\ \A m \in late' : m.by # server'[h][k].by
    BY DEF PlaceInv, Connections
  <2>1. h # i /\ server'[h] = server[h]
    BY <1>2
  <2> QED
    BY <1>1, <1>2, <1>3, <2>1 DEF IInv, PlaceInv
<1>c6. RedisInv'
  <2> SUFFICES ASSUME NEW d \in Calls
               PROVE  Paired(d)'
    BY DEF RedisInv
  <2>1. phase[d] = "sent" => via[d] \in Connections /\ via[d] # i
    BY <1>1 DEF IInv, CallInv, Connections
  <2> QED
    BY <1>1, <1>2, <2>1, PairedFrame DEF IInv, RedisInv
<1>c7. BigTableInv'
  <2> SUFFICES ASSUME NEW d \in Calls
               PROVE  KeysApart(d)'
    BY DEF BigTableInv
  <2> QED
    BY <1>1, KeysApartFrame DEF IInv, BigTableInv
<1> QED
  BY <1>c1, <1>c2, <1>c3, <1>c4, <1>c5, <1>c6, <1>c7 DEF IInv

LEMMA ReleaseInv ==
    ASSUME IInv,
           NEW c \in Calls, phase[c] \in {"wait", "sent"}, Release(c),
           NEW p \in {"failed", "dropped", "done"}, phase' = [phase EXCEPT ![c] = p],
           UNCHANGED <<url, open, rows, request>>,
           result' \in [Calls -> Seq(Values \cup {None})],
           \A d \in Calls : d # c => result'[d] = result[d], p = "done" /\ request[c].op = "get" => DOMAIN result'[c] = DOMAIN request[c].keys
    PROVE  IInv'
<1>1. /\ phase' = [phase EXCEPT ![c] = p] /\ via' = [via EXCEPT ![c] = None]
      /\ phase'[c] = p /\ via'[c] = None
      /\ \A d \in Calls : d # c => phase'[d] = phase[d] /\ via'[d] = via[d]
  BY DEF Release, IInv, TypeInv
<1>2. CASE IsRedis
  <2>1. server' = server /\ replies' = replies /\ late' = late
    BY <1>2 DEF Release, connection
  <2>c1. TypeInv'
    BY <1>1, <2>1 DEF IInv, TypeInv, IsRedis, IsConfig, Connections, Phases
  <2>c2. CallInv'
    BY <1>1 DEF IInv, TypeInv, CallInv, IsRedis
  <2>c3. ServerInv'
    BY <1>1, <1>2, <2>1, Sorts DEF IInv, ServerInv, Queue, WellFormed, IsClean, IsRedis, Connections
  <2>c4. LateInv'
    BY <1>1, <2>1, Sorts DEF IInv, LateInv, WellFormed
  <2>c5. PlaceInv'
    BY <2>1 DEF IInv, PlaceInv, Connections
  <2>c6. RedisInv'
    <3> SUFFICES ASSUME NEW d \in Calls
                 PROVE  Paired(d)'
      BY DEF RedisInv
    <3>1. CASE d = c
      BY <1>1, <3>1 DEF Paired
    <3>2. CASE d # c
      BY <1>1, <2>1, <3>2, PairedFrame DEF IInv, RedisInv
    <3> QED
      BY <3>1, <3>2
  <2>c7. BigTableInv'
    BY <1>2 DEF BigTableInv, KeysApart, IsRedis
  <2> QED
    BY <2>c1, <2>c2, <2>c3, <2>c4, <2>c5, <2>c6, <2>c7 DEF IInv
<1>3. CASE ~IsRedis
  <2>1. phase[c] = "sent" /\ via[c] = c /\ via[c] # None /\ c \in Connections
    BY <1>3 DEF IInv, CallInv, Connections
  <2>2. /\ late' = late \cup {m \in ToSet(server[c]) : m.op = "set"}
        /\ server' = [server EXCEPT ![c] = <<>>]
        /\ replies' = [replies EXCEPT ![c] = <<>>]
    BY <1>3, <2>1 DEF Release
  <2>3. /\ server'[c] = <<>> /\ replies'[c] = <<>>
        /\ \A j \in Connections : j # c => server'[j] = server[j] /\ replies'[j] = replies[j]
    BY <2>1, <2>2 DEF IInv, TypeInv
  <2>4. \A j \in Connections : \A k \in DOMAIN server[j] :
            /\ server[j][k] \in Message /\ server[j][k].by = j /\ WellFormed(server[j][k])
            /\ server[j][k].by \in Calls
    BY <1>3, Sorts DEF IInv, ServerInv, Queue
  <2>5. \A m \in late' : m \in late \/ (m.op = "set" /\ \E k \in DOMAIN server[c] : m = server[c][k])
    BY <2>2 DEF ToSet
  <2>c1. TypeInv'
    <3>1. late' \subseteq Message
      BY <2>1, <2>4, <2>5 DEF IInv, TypeInv
    <3>2. server' \in [Connections -> Seq(Message)] /\ replies' \in [Connections -> Seq(Replied)]
      BY <2>1, <2>2 DEF IInv, TypeInv
    <3>3. phase' \in [Calls -> Phases] /\ via' \in [Calls -> Connections \cup {None}]
      BY <1>1 DEF IInv, TypeInv, Phases
    <3> QED
      BY <3>1, <3>2, <3>3 DEF IInv, TypeInv, IsRedis, IsConfig, Connections
  <2>c2. CallInv'
    BY <1>1 DEF IInv, TypeInv, CallInv, IsRedis
  <2>c3. ServerInv'
    <3> SUFFICES ASSUME NEW j \in Connections
                 PROVE  Queue(j)'
      BY DEF ServerInv, Connections
    <3>1. CASE j = c
      BY <2>3, <3>1 DEF Queue, IsClean
    <3>2. CASE j # c
      BY <1>1, <2>3, <2>4, <3>2, QueueFrame DEF IInv, ServerInv
    <3> QED
      BY <3>1, <3>2
  <2>c4. LateInv'
    <3>1. \A m \in late' : WellFormed(m) /\ m.op = "set" /\ m.by \in Calls
                           /\ (phase[m.by] # "sent" \/ m.by = c)
      BY <2>1, <2>4, <2>5, Sorts DEF IInv, LateInv
    <3> QED
      BY <1>1, <3>1 DEF LateInv, WellFormed
  <2>c5. PlaceInv'
    <3> SUFFICES ASSUME NEW h \in Connections, NEW k \in DOMAIN server'[h]
                 PROVE  /\ \A j \in Connections : \A l \in DOMAIN server'[j] :
                              server'[j][l].by = server'[h][k].by => h = j
                        /\ \A m \in late' : m.by # server'[h][k].by
      BY DEF PlaceInv, Connections
    <3>1. h # c /\ server'[h] = server[h]
      BY <2>3
    <3>2. k \in DOMAIN server[h] /\ server'[h][k].by = h
      BY <2>4, <3>1
    <3>3. ASSUME NEW j \in Connections, NEW l \in DOMAIN server'[j]
          PROVE  server'[j][l].by = j
      <4>1. j # c
        BY <2>3, <3>3
      <4> QED
        BY <2>3, <2>4, <3>3, <4>1
    <3>4. ASSUME NEW m \in late'
          PROVE  m.by # h
      <4>1. CASE m \in late
        BY <3>1, <3>2, <4>1 DEF IInv, PlaceInv
      <4>2. CASE \E n \in DOMAIN server[c] : m = server[c][n]
        BY <2>1, <2>4, <3>1, <4>2
      <4> QED
        BY <2>5, <4>1, <4>2
    <3> QED
      BY <3>2, <3>3, <3>4
  <2>c6. RedisInv'
    BY <1>3 DEF RedisInv, Paired, IsRedis
  <2>c7. BigTableInv'
    <3> SUFFICES ASSUME NEW d \in Calls
                 PROVE  KeysApart(d)'
      BY DEF BigTableInv
    <3>1. CASE d = c
      BY <1>1, <3>1 DEF KeysApart
    <3>2. CASE d # c
      BY <1>1, <2>3, <3>2, KeysApartFrame DEF IInv, BigTableInv, Connections
    <3> QED
      BY <3>1, <3>2
  <2> QED
    BY <2>c1, <2>c2, <2>c3, <2>c4, <2>c5, <2>c6, <2>c7 DEF IInv
<1> QED
  BY <1>2, <1>3

LEMMA FailInv ==
    ASSUME IInv, NEW c \in Calls, Fail(c) \/ Drop(c)
    PROVE  IInv'
<1>1. PICK p \in {"failed", "dropped", "done"} :
          /\ phase[c] \in {"wait", "sent"} /\ Release(c) /\ phase' = [phase EXCEPT ![c] = p]
          /\ UNCHANGED <<url, open, rows, request, result>> /\ p # "done"
  BY DEF Fail, Drop, ReleaseUnfinished
<1>2. result' \in [Calls -> Seq(Values \cup {None})]
  BY <1>1 DEF IInv, TypeInv
<1> QED
  BY <1>1, <1>2, ReleaseInv

LEMMA UnpackedType ==
    ASSUME IInv, NEW c \in Calls, phase[c] = "sent", ~IsRedis, request[c].op = "get"
    PROVE  /\ request[c] \in Requests
           /\ Unpack(request[c], replies[c]) \in Seq(Values \cup {None})
           /\ DOMAIN Unpack(request[c], replies[c]) = DOMAIN request[c].keys
<1> DEFINE r == request[c]
           found == replies[c]
<1>1. /\ r \in Requests /\ found \in Seq(Replied)
      /\ \A j, k \in DOMAIN found : j # k => found[j].key # found[k].key
      /\ \A j \in DOMAIN found : found[j].value \in Values
  BY DEF IInv, TypeInv, CallInv, BigTableInv, KeysApart, Connections
<1> HIDE DEF r, found
<1>2. DOMAIN r.keys = 1..Len(r.keys) /\ Len(r.keys) \in Nat
  BY <1>1, RequestType
<1>3. /\ DOMAIN Unpack(r, found) = 1..Len(r.keys)
      /\ \A i \in 1..Len(r.keys) :
             /\ \A j \in DOMAIN found : found[j].key = r.keys[i] =>
                    Unpack(r, found)[i] = found[j].value
             /\ (\A j \in DOMAIN found : found[j].key # r.keys[i]) =>
                    Unpack(r, found)[i] = None
  BY <1>1, <1>2, Unpacked
<1>4. \A i \in 1..Len(r.keys) : Unpack(r, found)[i] \in Values \cup {None}
  BY <1>1, <1>3
<1>5. Unpack(r, found) = [i \in 1..Len(r.keys) |-> Unpack(r, found)[i]]
  BY <1>2, <1>3 DEF Unpack
<1>6. Unpack(r, found) \in Seq(Values \cup {None})
  BY <1>2, <1>4, <1>5, IsASeq
<1> QED
  BY <1>1, <1>2, <1>3, <1>6 DEF r, found

LEMMA ReturnBigTableInv ==
    ASSUME IInv, NEW c \in Calls, ReturnBigTable(c)
    PROVE  IInv'
<1>1. /\ phase[c] = "sent" /\ ~IsRedis /\ Release(c) /\ phase' = [phase EXCEPT ![c] = "done"]
      /\ UNCHANGED <<url, open, rows, request>>
  BY DEF ReturnBigTable
<1> DEFINE x == IF request[c].op = "get" THEN Unpack(request[c], replies[c]) ELSE <<>>
<1>2. x \in Seq(Values \cup {None})
  BY <1>1, UnpackedType
<1>3. request[c].op = "get" => DOMAIN x = DOMAIN request[c].keys
  BY <1>1, UnpackedType
<1>4. result' = [result EXCEPT ![c] = x]
  BY DEF ReturnBigTable
<1> HIDE DEF x
<1>5. /\ result' \in [Calls -> Seq(Values \cup {None})] /\ result'[c] = x
      /\ \A d \in Calls : d # c => result'[d] = result[d]
  BY <1>2, <1>4 DEF IInv, TypeInv
<1> QED
  BY <1>1, <1>3, <1>5, ReleaseInv

LEMMA ReturnRedisInv ==
    ASSUME IInv, NEW c \in Calls, ReturnRedis(c)
    PROVE  IInv'
<1> DEFINE i == via[c]
           r == request[c]
           n == Len(r.keys)
<1>1. /\ phase[c] = "sent" /\ IsRedis /\ Len(replies[i]) >= n
      /\ result' = [result EXCEPT ![c] = IF r.op = "get" THEN QueryResult(c) ELSE <<>>]
      /\ replies' = [replies EXCEPT ![i] = SubSeq(replies[i], n + 1, Len(replies[i]))]
      /\ via' = [via EXCEPT ![c] = None] /\ phase' = [phase EXCEPT ![c] = "done"]
      /\ url' = url /\ open' = open /\ rows' = rows /\ request' = request
      /\ server' = server /\ late' = late
  BY DEF ReturnRedis
<1>2. /\ r \in Requests /\ i \in Connections /\ i \in Pool
      /\ \A d \in Calls : d # c => via[d] # i
      /\ Len(replies[i]) + Len(server[i]) = n
      /\ r.op = "get" => \A k \in DOMAIN replies[i] : replies[i][k].value \in Values \cup {None}
  BY <1>1 DEF IInv, TypeInv, CallInv, RedisInv, Paired, Connections
<1>3. /\ Len(replies[i]) \in Nat /\ Len(server[i]) \in Nat /\ n \in Nat
      /\ server[i] \in Seq(Message) /\ replies[i] \in Seq(Replied)
      /\ DOMAIN replies[i] = 1..Len(replies[i]) /\ DOMAIN r.keys = 1..n
  BY <1>2, Sorts, RequestType DEF IInv
<1> HIDE DEF i, r, n
<1>4. Len(replies[i]) = n /\ Len(server[i]) = 0
  BY <1>1, <1>2, <1>3, Sums
<1>5. SubSeq(replies[i], n + 1, Len(replies[i])) = <<>>
  BY <1>3, <1>4
<1>6. /\ replies'[i] = <<>> /\ \A j \in Connections : j # i => replies'[j] = replies[j]
      /\ replies' \in [Connections -> Seq(Replied)]
  BY <1>1, <1>2, <1>5 DEF IInv, TypeInv
<1>7. /\ phase'[c] = "done" /\ via'[c] = None /\ phase' \in [Calls -> Phases]
      /\ via' \in [Calls -> Connections \cup {None}]
      /\ \A d \in Calls : d # c => phase'[d] = phase[d] /\ via'[d] = via[d]
  BY <1>1 DEF IInv, TypeInv, Phases
<1>8. r.op = "get" => /\ DOMAIN QueryResult(c) = DOMAIN r.keys
                      /\ QueryResult(c) \in Seq(Values \cup {None})
  <2> SUFFICES ASSUME r.op = "get"
               PROVE  /\ DOMAIN QueryResult(c) = DOMAIN r.keys
                      /\ QueryResult(c) \in Seq(Values \cup {None})
    OBVIOUS
  <2>1. QueryResult(c) = [k \in 1..n |-> replies[i][k].value]
    BY <1>3 DEF QueryResult, i, r
  <2>2. \A k \in 1..n : replies[i][k].value \in Values \cup {None}
    BY <1>2, <1>3, <1>4
  <2> QED
    BY <1>3, <2>1, <2>2, IsASeq
<1>9. /\ result' \in [Calls -> Seq(Values \cup {None})]
      /\ r.op = "get" => DOMAIN result'[c] = DOMAIN r.keys
      /\ \A d \in Calls : d # c => result'[d] = result[d]
  <2> DEFINE x == IF r.op = "get" THEN QueryResult(c) ELSE <<>>
  <2>1. x \in Seq(Values \cup {None}) /\ (r.op = "get" => DOMAIN x = DOMAIN r.keys)
    BY <1>8
  <2>2. result' = [result EXCEPT ![c] = x]
    BY <1>1
  <2> HIDE DEF x
  <2> QED
    BY <2>1, <2>2 DEF IInv, TypeInv
<1>c1. TypeInv'
  BY <1>1, <1>6, <1>7, <1>9 DEF IInv, TypeInv, Connections, IsRedis, IsConfig
<1>c2. CallInv'
  BY <1>1, <1>7, <1>9 DEF IInv, TypeInv, CallInv, IsRedis, r
<1>c3. ServerInv'
  <2> SUFFICES ASSUME NEW j \in Connections
               PROVE  Queue(j)'
    BY DEF ServerInv, Connections
  <2>1. \A k \in DOMAIN server[j] : server[j][k].by \in Calls
    BY Sorts DEF IInv
  <2> QED
    BY <1>1, <1>7, <2>1 DEF IInv, ServerInv, Queue, WellFormed, IsRedis
<1>c4. LateInv'
  BY <1>1, <1>7, Sorts DEF IInv, LateInv, WellFormed
<1>c5. PlaceInv'
  BY <1>1 DEF IInv, PlaceInv, Connections
<1>c6. RedisInv'
  <2> SUFFICES ASSUME NEW d \in Calls
               PROVE  Paired(d)'
    BY DEF RedisInv
  <2>1. CASE d = c
    BY <1>7, <2>1 DEF Paired
  <2>2. CASE d # c
    <3>1. phase[d] = "sent" => via[d] \in Connections /\ via[d] # i
      BY <1>1, <1>2, <2>2 DEF IInv, CallInv, Connections
    <3> QED
      BY <1>1, <1>6, <1>7, <2>2, <3>1, PairedFrame DEF IInv, RedisInv
  <2> QED
    BY <2>1, <2>2
<1>c7. BigTableInv'
  BY <1>1 DEF BigTableInv, KeysApart, IsRedis
<1> QED
  BY <1>c1, <1>c2, <1>c3, <1>c4, <1>c5, <1>c6, <1>c7 DEF IInv

\* What Redis replies, and what BigTable returns for a key.
LEMMA ReplyType ==
    ASSUME TypeInv, NEW m \in Message
    PROVE  ReplyTo(m) \in Replied /\ ReplyTo(m).key = m.key
           /\ ReplyTo(m).value = IF m.op = "set" THEN Ok ELSE rows[m.key]
BY DEF ReplyTo, Replied, TypeInv, Message

LEMMA ServeInv ==
    ASSUME IInv, NEW i \in Connections, Serve(i)
    PROVE  IInv'
<1> DEFINE m == server[i][1]
           n == Len(replies[i])
<1>1. /\ server[i] \in Seq(Message) /\ server[i] # <<>> /\ replies[i] \in Seq(Replied)
      /\ url' = url /\ open' = open /\ late' = late /\ request' = request /\ phase' = phase
      /\ via' = via /\ result' = result
      /\ server' = [server EXCEPT ![i] = Tail(server[i])]
      /\ rows' = Apply(Head(server[i]))
      /\ replies' = [replies EXCEPT ![i] =
             IF Head(server[i]).op = "get" \/ IsRedis
             THEN replies[i] \o RepliesTo(Head(server[i])) ELSE replies[i]]
  BY Sorts DEF IInv, Serve, call
<1>2. /\ 1 \in DOMAIN server[i] /\ Head(server[i]) = m /\ m \in Message
      /\ Tail(server[i]) \in Seq(Message) /\ Len(Tail(server[i])) = Len(server[i]) - 1
      /\ Len(server[i]) \in Nat \ {0} /\ DOMAIN server[i] = 1..Len(server[i])
      /\ DOMAIN Tail(server[i]) = 1..(Len(server[i]) - 1)
      /\ \A k \in DOMAIN Tail(server[i]) :
             k + 1 \in DOMAIN server[i] /\ Tail(server[i])[k] = server[i][k + 1]
      /\ n \in Nat /\ DOMAIN replies[i] = 1..n
  BY <1>1, HeadTail, Listed
<1>3. m.key \in KeySet /\ m.by \in Calls /\ m.op \in {"get", "set"} /\ m.value \in Values \cup {None}
  BY <1>1, <1>2, Sorts DEF IInv
<1>4. WellFormed(m) /\ (~IsRedis => i \in Calls /\ m.by = i /\ phase[i] = "sent")
  BY <1>1, <1>2 DEF IInv, ServerInv, Queue, IsClean
<1>5. /\ ReplyTo(m) \in Replied /\ ReplyTo(m).key = m.key
      /\ ReplyTo(m).value = IF m.op = "set" THEN Ok ELSE rows[m.key]
  BY <1>2, ReplyType DEF IInv
<1> DEFINE rep == replies[i] \o <<ReplyTo(m)>>
<1>6. /\ rep \in Seq(Replied) /\ Len(rep) = n + 1 /\ DOMAIN rep = 1..(n + 1)
      /\ rep[n + 1] = ReplyTo(m) /\ \A k \in 1..n : rep[k] = replies[i][k]
  BY <1>1, <1>2, <1>5, Extended
<1> HIDE DEF m, n, rep
<1>7. /\ server'[i] = Tail(server[i]) /\ \A j \in Connections : j # i => server'[j] = server[j]
      /\ \A j \in Connections : j # i => replies'[j] = replies[j]
      /\ replies'[i] = IF m.op = "get" \/ IsRedis THEN replies[i] \o RepliesTo(m) ELSE replies[i]
  BY <1>1, <1>2 DEF IInv, TypeInv
<1>8. /\ IsRedis => replies'[i] = rep
      /\ replies'[i] = replies[i] \/ (m.op = "get" /\ rows[m.key] # None /\ replies'[i] = rep)
             \/ (IsRedis /\ replies'[i] = rep)
  <2>1. RepliesTo(m) = IF IsRedis \/ rows[m.key] # None THEN <<ReplyTo(m)>> ELSE <<>>
    BY DEF RepliesTo
  <2>2. replies[i] \o <<>> = replies[i]
    BY <1>1
  <2> QED
    BY <1>7, <2>1, <2>2 DEF rep
<1>9. rows' \in [KeySet -> Values \cup {None}]
  <2>1. m.op = "set" => m.value \in Values
    BY <1>3, <1>4, CommandValue DEF IInv
  <2> QED
    BY <1>1, <1>2, <1>3, <2>1 DEF IInv, TypeInv, Apply
<1>10. \A j \in Connections : \A k \in DOMAIN server'[j] :
           \E l \in DOMAIN server[j] : server'[j][k] = server[j][l]
  <2> TAKE j \in Connections
  <2>1. CASE j = i
    BY <1>2, <1>7, <2>1
  <2>2. CASE j # i
    BY <1>7, <2>2
  <2> QED
    BY <2>1, <2>2
<1>c1. TypeInv'
  <2>1. server' \in [Connections -> Seq(Message)]
    BY <1>1, <1>2 DEF IInv, TypeInv
  <2>2. replies'[i] \in Seq(Replied)
    BY <1>1, <1>6, <1>8
  <2>3. replies' \in [Connections -> Seq(Replied)]
    BY <1>1, <1>7, <2>2 DEF IInv, TypeInv
  <2> QED
    BY <1>1, <1>9, <2>1, <2>3 DEF IInv, TypeInv, Connections, IsRedis, IsConfig
<1>c2. CallInv'
  BY <1>1 DEF IInv, CallInv, IsRedis
<1>c3. ServerInv'
  <2> SUFFICES ASSUME NEW j \in Connections
               PROVE  Queue(j)'
    BY DEF ServerInv, Connections
  <2>1. CASE j = i
    <3>1. Queue(i) /\ ~IsClean(i)
      BY <1>1 DEF IInv, ServerInv, IsClean
    <3>2. \A k \in DOMAIN server'[i] : k + 1 \in DOMAIN server[i] /\ server'[i][k] = server[i][k + 1]
                                       /\ k \in Nat
      BY <1>2, <1>7
    <3> QED
      BY <1>1, <2>1, <3>1, <3>2 DEF Queue, WellFormed, IsRedis
  <2>2. CASE j # i
    BY <1>1, <1>7, <2>2, QueueFrame DEF IInv, ServerInv
  <2> QED
    BY <2>1, <2>2
<1>c4. LateInv'
  BY <1>1 DEF IInv, LateInv, WellFormed
<1>c5. PlaceInv'
  BY <1>1, <1>10 DEF IInv, PlaceInv, Connections
<1>c6. RedisInv'
  <2> SUFFICES ASSUME NEW d \in Calls
               PROVE  Paired(d)'
    BY DEF RedisInv
  <2>1. CASE phase[d] = "sent" /\ IsRedis /\ via[d] = i
    <3>1. Paired(d) /\ DOMAIN replies'[i] = 1..(n + 1) /\ Len(replies'[i]) = n + 1
      BY <1>6, <1>8, <2>1 DEF IInv, RedisInv
    <3>2. m.by = d /\ m.op = request[d].op
      BY <1>2, <1>4, <2>1, <3>1 DEF Paired, WellFormed, m
    <3>3. Len(replies'[i]) + Len(server'[i]) = Len(request[d].keys)
      <4>1. n + Len(server[i]) = Len(request[d].keys) /\ Len(server[i]) \in Nat
        BY <1>2, <2>1, <3>1 DEF Paired, n
      <4>2. Len(request[d].keys) \in Nat
        BY <1>2, <4>1
      <4>3. (n + 1) + (Len(server[i]) - 1) = Len(request[d].keys)
        <5>1. n \in Nat /\ Len(server[i]) \in Nat
          BY <1>2
        <5> DEFINE a == Len(server[i])
                   b == Len(request[d].keys)
        <5>2. n \in Nat /\ a \in Nat /\ b \in Nat /\ n + a = b
          BY <4>1, <4>2, <5>1
        <5> HIDE DEF n, a, b
        <5>3. (n + 1) + (a - 1) = b
          BY <5>2, Sums
        <5> QED
          BY <5>3 DEF a, b
      <4> QED
        BY <1>2, <1>7, <3>1, <4>3
    <3>4. \A k \in DOMAIN server'[i] :
              /\ server'[i][k].by = d /\ server'[i][k].at = Len(replies'[i]) + k
              /\ server'[i][k].key = request[d].keys[server'[i][k].at]
      <4>1. \A k \in DOMAIN server[i] :
              /\ server[i][k].by = d /\ server[i][k].at = n + k
              /\ server[i][k].key = request[d].keys[server[i][k].at]
        BY <2>1, <3>1 DEF Paired, n
      <4>2. \A k \in DOMAIN server'[i] : /\ k + 1 \in DOMAIN server[i] /\ k \in Nat
                                         /\ server'[i][k] = server[i][k + 1]
        BY <1>2, <1>7
      <4> TAKE k \in DOMAIN server'[i]
      <4>3. server'[i][k].at = n + (k + 1)
        BY <4>1, <4>2
      <4>4. n + (k + 1) = (n + 1) + k
        BY <1>2, <4>2, Shift
      <4> QED
        BY <3>1, <4>1, <4>2, <4>3, <4>4
    <3>5. request[d].op = "get" => \A k \in DOMAIN replies'[i] : replies'[i][k].value \in Values \cup {None}
      <4>1. request[d].op = "get" => ReplyTo(m).value \in Values \cup {None}
        BY <1>3, <1>5, <3>2 DEF IInv, TypeInv
      <4>2. request[d].op = "get" => \A k \in 1..n : replies[i][k].value \in Values \cup {None}
        BY <1>2, <2>1, <3>1 DEF Paired
      <4> QED
        BY <1>2, <1>6, <1>8, <2>1, <3>1, <4>1, <4>2
    <3>6. via'[d] = i /\ request'[d] = request[d]
      BY <1>1, <2>1
    <3> QED
      BY <3>3, <3>4, <3>5, <3>6 DEF Paired
  <2>2. CASE ~(phase[d] = "sent" /\ IsRedis /\ via[d] = i)
    <3>1. phase[d] = "sent" => via[d] \in Connections
      BY DEF IInv, CallInv, Connections
    <3>2. CASE IsRedis
      BY <1>1, <1>7, <2>2, <3>1, <3>2, PairedFrame DEF IInv, RedisInv
    <3>3. CASE ~IsRedis
      BY <1>1, <3>3 DEF Paired, IsRedis
    <3> QED
      BY <3>2, <3>3
  <2> QED
    BY <2>1, <2>2
<1>c7. BigTableInv'
  <2> SUFFICES ASSUME NEW d \in Calls
               PROVE  KeysApart(d)'
    BY DEF BigTableInv
  <2>1. CASE d = i /\ phase[d] = "sent" /\ ~IsRedis /\ request[d].op = "get"
    <3>1. /\ KeysApart(d) /\ m.op = "get" /\ m.by = d
          /\ replies'[i] = replies[i] \/ (rows[m.key] # None /\ replies'[i] = rep)
      BY <1>4, <1>8, <2>1 DEF IInv, BigTableInv, WellFormed
    <3>2. rows[m.key] # None => ReplyTo(m).value \in Values
      BY <1>3, <1>5, <3>1 DEF IInv, TypeInv
    <3>3. \A k \in DOMAIN replies'[i] :
              \/ k \in 1..n /\ replies'[i][k] = replies[i][k]
              \/ k = n + 1 /\ replies'[i][k].key = m.key /\ replies'[i][k].value \in Values
      BY <1>2, <1>5, <1>6, <3>1, <3>2
    <3>4. /\ \A j \in 1..n : replies[i][j].key # m.key /\ replies[i][j].value \in Values
          /\ \A j, k \in 1..n : j # k => replies[i][j].key # replies[i][k].key
      BY <1>2, <2>1, <3>1 DEF KeysApart, m
    <3>5. \A k \in DOMAIN server'[i] : k + 1 \in DOMAIN server[i] /\ server'[i][k] = server[i][k + 1]
                                       /\ k \in Nat /\ k + 1 # 1
      BY <1>2, <1>7
    <3>6. \A j, k \in DOMAIN server'[i] : j # k => server'[i][j].key # server'[i][k].key
      <4>1. \A j, k \in DOMAIN server[i] : j # k => server[i][j].key # server[i][k].key
        BY <2>1, <3>1 DEF KeysApart
      <4> QED
        BY <3>5, <4>1
    <3>7. \A j \in DOMAIN server'[i] : server'[i][j].key # m.key
      BY <1>2, <2>1, <3>1, <3>5 DEF KeysApart, m
    <3>8. \A j \in DOMAIN server'[i], k \in 1..n : server'[i][j].key # replies[i][k].key
      <4>1. \A j \in DOMAIN server[i], k \in DOMAIN replies[i] :
                server[i][j].key # replies[i][k].key
        BY <2>1, <3>1 DEF KeysApart
      <4> QED
        BY <1>2, <3>5, <4>1
    <3>9. \A k \in DOMAIN replies'[i] : replies'[i][k].value \in Values
      BY <3>3, <3>4
    <3>10. \A j, k \in DOMAIN replies'[i] : j # k => replies'[i][j].key # replies'[i][k].key
      BY <3>3, <3>4
    <3>11. \A j \in DOMAIN server'[i], k \in DOMAIN replies'[i] :
               server'[i][j].key # replies'[i][k].key
      BY <3>3, <3>7, <3>8
    <3> QED
      BY <1>1, <2>1, <3>6, <3>9, <3>10, <3>11 DEF KeysApart
  <2>2. CASE ~(d = i /\ phase[d] = "sent" /\ ~IsRedis /\ request[d].op = "get")
    <3>1. CASE d = i
      BY <1>1, <2>2, <3>1 DEF KeysApart, IsRedis
    <3>2. CASE d # i
      BY <1>1, <1>7, <3>2, KeysApartFrame DEF IInv, BigTableInv, Connections
    <3> QED
      BY <3>1, <3>2
  <2> QED
    BY <2>1, <2>2
<1> QED
  BY <1>c1, <1>c2, <1>c3, <1>c4, <1>c5, <1>c6, <1>c7 DEF IInv

LEMMA EntryFailsInv ==
    ASSUME IInv, NEW i \in Connections, EntryFails(i)
    PROVE  IInv'
<1>1. /\ server[i] \in Seq(Message) /\ server[i] # <<>> /\ ~IsRedis
      /\ url' = url /\ open' = open /\ late' = late /\ request' = request /\ phase' = phase
      /\ via' = via /\ result' = result /\ rows' = rows /\ replies' = replies
      /\ server' = [server EXCEPT ![i] = Tail(server[i])]
      /\ Head(server[i]).op = "set"
  BY Sorts DEF IInv, EntryFails, call
<1>2. /\ 1 \in DOMAIN server[i] /\ Head(server[i]) = server[i][1]
      /\ Tail(server[i]) \in Seq(Message)
      /\ Len(server[i]) \in Nat \ {0} /\ DOMAIN server[i] = 1..Len(server[i])
      /\ DOMAIN Tail(server[i]) = 1..(Len(server[i]) - 1)
      /\ \A k \in DOMAIN Tail(server[i]) :
             k + 1 \in DOMAIN server[i] /\ Tail(server[i])[k] = server[i][k + 1]
  BY <1>1, HeadTail, Listed
<1>3. /\ WellFormed(server[i][1]) /\ i \in Calls /\ server[i][1].by = i /\ phase[i] = "sent"
      /\ request[i].op = "set"
  BY <1>1, <1>2 DEF IInv, ServerInv, Queue, IsClean, WellFormed
<1>4. server'[i] = Tail(server[i]) /\ \A j \in Connections : j # i => server'[j] = server[j]
  BY <1>1, <1>2 DEF IInv, TypeInv
<1>5. \A j \in Connections : \A k \in DOMAIN server'[j] :
          \E l \in DOMAIN server[j] : server'[j][k] = server[j][l]
  <2> TAKE j \in Connections
  <2>1. CASE j = i
    BY <1>2, <1>4, <2>1
  <2>2. CASE j # i
    BY <1>4, <2>2
  <2> QED
    BY <2>1, <2>2
<1>c1. TypeInv'
  <2>1. server' \in [Connections -> Seq(Message)]
    BY <1>1, <1>2 DEF IInv, TypeInv
  <2> QED
    BY <1>1, <2>1 DEF IInv, TypeInv, Connections, IsRedis, IsConfig
<1>c2. CallInv'
  BY <1>1 DEF IInv, CallInv, IsRedis
<1>c3. ServerInv'
  <2> SUFFICES ASSUME NEW j \in Connections
               PROVE  Queue(j)'
    BY DEF ServerInv, Connections
  <2>1. CASE j = i
    <3>1. Queue(i) /\ ~IsClean(i)
      BY <1>1 DEF IInv, ServerInv, IsClean
    <3>2. \A k \in DOMAIN server'[i] : k + 1 \in DOMAIN server[i] /\ server'[i][k] = server[i][k + 1]
                                       /\ k \in Nat
      BY <1>2, <1>4
    <3> QED
      BY <1>1, <2>1, <3>1, <3>2 DEF Queue, WellFormed, IsRedis
  <2>2. CASE j # i
    BY <1>1, <1>4, <2>2, QueueFrame DEF IInv, ServerInv
  <2> QED
    BY <2>1, <2>2
<1>c4. LateInv'
  BY <1>1 DEF IInv, LateInv, WellFormed
<1>c5. PlaceInv'
  BY <1>1, <1>5 DEF IInv, PlaceInv, Connections
<1>c6. RedisInv'
  BY <1>1 DEF RedisInv, Paired, IsRedis
<1>c7. BigTableInv'
  <2> SUFFICES ASSUME NEW d \in Calls
               PROVE  KeysApart(d)'
    BY DEF BigTableInv
  <2>1. CASE d = i
    BY <1>1, <1>3, <2>1 DEF KeysApart
  <2>2. CASE d # i
    BY <1>1, <1>4, <2>2, KeysApartFrame DEF IInv, BigTableInv, Connections
  <2> QED
    BY <2>1, <2>2
<1> QED
  BY <1>c1, <1>c2, <1>c3, <1>c4, <1>c5, <1>c6, <1>c7 DEF IInv

LEMMA ServeLateInv ==
    ASSUME IInv, ServeLate
    PROVE  IInv'
<1>1. PICK m \in late : /\ rows' \in {Apply(m), rows} /\ late' = late \ {m}
                        /\ url' = url /\ open' = open /\ request' = request /\ phase' = phase
                        /\ via' = via /\ result' = result /\ server' = server /\ replies' = replies
  BY DEF ServeLate, call, connection
<1>2. m.by \in Calls /\ m.key \in KeySet /\ WellFormed(m) /\ m.op = "set"
  BY Sorts DEF IInv, LateInv
<1>3. m.value \in Values
  BY <1>2, CommandValue DEF IInv
<1>4. rows' \in [KeySet -> Values \cup {None}]
  BY <1>1, <1>2, <1>3 DEF IInv, TypeInv, Apply
<1>c1. TypeInv'
  BY <1>1, <1>4 DEF IInv, TypeInv, Connections, IsRedis, IsConfig
<1>c2. CallInv'
  BY <1>1 DEF IInv, CallInv, IsRedis
<1>c3. ServerInv'
  BY <1>1 DEF IInv, ServerInv, Queue, WellFormed, IsClean, IsRedis, Connections
<1>c4. LateInv'
  BY <1>1, <1>4 DEF IInv, TypeInv, CallInv, LateInv, WellFormed
<1>c5. PlaceInv'
  BY <1>1 DEF IInv, PlaceInv, Connections
<1>c6. RedisInv'
  BY <1>1 DEF IInv, RedisInv, Paired, IsRedis
<1>c7. BigTableInv'
  BY <1>1 DEF IInv, BigTableInv, KeysApart, IsRedis
<1> QED
  BY <1>c1, <1>c2, <1>c3, <1>c4, <1>c5, <1>c6, <1>c7 DEF IInv

LEMMA InitInv == Init => IInv
<1> SUFFICES ASSUME Init
             PROVE  IInv
  OBVIOUS
<1> USE DEF Init, Connections
<1>c1. TypeInv
  BY DEF TypeInv, Phases
<1>c2. CallInv
  BY DEF CallInv
<1>c3. ServerInv
  BY DEF ServerInv, Queue, IsClean
<1>c4. LateInv
  BY DEF LateInv
<1>c5. PlaceInv
  BY DEF PlaceInv
<1>c6. RedisInv
  BY DEF RedisInv, Paired
<1>c7. BigTableInv
  BY DEF BigTableInv, KeysApart
<1> QED
  BY <1>c1, <1>c2, <1>c3, <1>c4, <1>c5, <1>c6, <1>c7 DEF IInv

LEMMA NextInv == IInv /\ [Next]_vars => IInv'
<1> SUFFICES ASSUME IInv, [Next]_vars
             PROVE  IInv'
  OBVIOUS
<1>1. CASE UNCHANGED vars
  BY <1>1, IdleInv
<1>2. CASE NewRedis
  BY <1>2, NewRedisInv
<1>3. CASE NewBigTable
  BY <1>3, NewBigTableInv
<1>4. CASE UnknownScheme
  BY <1>4, UnknownSchemeInv
<1>5. CASE \E c \in Calls : Proceed(c) \/ Fail(c) \/ Drop(c)
  <2> PICK c \in Calls : Proceed(c) \/ Fail(c) \/ Drop(c)
    BY <1>5
  <2>1. CASE NewPipelined(c)
    BY <2>1, NewPipelinedInv
  <2>2. CASE ExecuteRedis(c)
    BY <2>2, ExecuteRedisInv
  <2>3. CASE ExecuteBigTable(c)
    BY <2>3, ExecuteBigTableInv
  <2>4. CASE \E i \in Pool : CheckOut(c, i) \/ Discard(c, i)
    BY <2>4, CheckOutInv, DiscardInv
  <2>5. CASE ReturnRedis(c)
    BY <2>5, ReturnRedisInv
  <2>6. CASE ReturnBigTable(c)
    BY <2>6, ReturnBigTableInv
  <2>7. CASE Fail(c) \/ Drop(c)
    BY <2>7, FailInv
  <2> QED
    BY <2>1, <2>2, <2>3, <2>4, <2>5, <2>6, <2>7 DEF Proceed
<1>6. CASE \E i \in Connections : Serve(i) \/ EntryFails(i)
  BY <1>6, ServeInv, EntryFailsInv
<1>7. CASE ServeLate
  BY <1>7, ServeLateInv
<1>8. CASE AllEnded
  BY <1>8, IdleInv DEF AllEnded
<1> QED
  BY <1>1, <1>2, <1>3, <1>4, <1>5, <1>6, <1>7, <1>8 DEF Next

\* In every reachable state a connection of the pool that a call has holds the
\* commands and replies of that call only, in the order of its keys, what a call
\* left behind is what it was asked to set, and a stream of BigTable has each key
\* once.
THEOREM Invariance == Spec => []IInv
<1> QED
  BY InitInv, NextInv, PTL DEF Spec

\* The variables have the values the code gives them, a get that succeeds has a
\* result for each of its keys, and no two calls have the same connection.
THEOREM Typed == Spec => []TypeOK
<1>1. IInv => TypeOK
  <2> SUFFICES ASSUME IInv
               PROVE  TypeOK
    OBVIOUS
  <2>1. ASSUME NEW c \in Calls, phase[c] = "done", request[c].op = "get"
        PROVE  result[c] \in [DOMAIN request[c].keys -> Values \cup {None}]
    <3>1. result[c] \in Seq(Values \cup {None}) /\ DOMAIN result[c] = DOMAIN request[c].keys
      BY <2>1 DEF IInv, TypeInv, CallInv
    <3>2. result[c] \in [1..Len(result[c]) -> Values \cup {None}]
      BY <3>1, LenProperties
    <3> QED
      BY <3>1, <3>2
  <2>2. ASSUME NEW c \in Calls
        PROVE  /\ request[c] \in Requests \cup {None}
               /\ phase[c] = "sent" => via[c] # None
               /\ via[c] \in Pool => \A d \in Calls \ {c} : via[d] # via[c]
    BY ValueAssumption DEF IInv, TypeInv, CallInv, Pool
  <2>3. /\ open \in {"no", "yes", "error"} /\ (open = "yes" => IsRedis \/ IsConfig(url))
        /\ rows \in [KeySet -> Values \cup {None}]
        /\ phase \in [Calls -> {"idle", "built", "wait", "sent", "done", "failed", "dropped"}]
    BY DEF IInv, TypeInv, Phases
  <2> QED
    BY <2>1, <2>2, <2>3 DEF TypeOK
<1> QED
  BY <1>1, Invariance, PTL

-------------------------------------------------------------------------------
\* The stores keep the promise of the traits, step by step.

Commands == late \cup UNION {ToSet(server[i]) : i \in Connections}

LEMMA InCommands ==
    /\ \A m : m \in Commands <=>
           m \in late \/ \E i \in Connections : \E k \in DOMAIN server[i] : m = server[i][k]
    /\ \A m : m \in Commands' <=>
           m \in late' \/ \E i \in Connections : \E k \in DOMAIN server'[i] : m = server'[i][k]
<1>1. \A m : m \in UNION {ToSet(server[i]) : i \in Connections} <=>
          \E i \in Connections : m \in ToSet(server[i])
  OBVIOUS
<1>2. \A m : m \in UNION {ToSet(server'[i]) : i \in Connections} <=>
          \E i \in Connections : m \in ToSet(server'[i])
  OBVIOUS
<1>3. \A m, s : m \in ToSet(s) <=> \E k \in DOMAIN s : m = s[k]
  BY DEF ToSet
<1>5. /\ Commands = late \cup UNION {ToSet(server[i]) : i \in Connections}
      /\ Commands' = late' \cup UNION {ToSet(server'[i]) : i \in Connections}
  BY DEF Commands, Connections, ToSet
<1> QED
  BY <1>1, <1>2, <1>3, <1>5

LEMMA CommandsMade ==
    ASSUME IInv, NEW m \in Commands
    PROVE  /\ m \in Message /\ m.by \in Calls /\ m.op \in {"get", "set"} /\ WellFormed(m)
           /\ m.op = request[m.by].op /\ request[m.by] \in Requests
           /\ phase[m.by] \in {"sent", "done", "failed", "dropped"}
<1>1. m \in Message /\ m.by \in Calls /\ m.op \in {"get", "set"} /\ WellFormed(m)
  BY InCommands, Sorts DEF IInv, TypeInv, ServerInv, Queue, LateInv
<1>2. phase[m.by] \in Phases
  BY <1>1 DEF IInv, TypeInv
<1> QED
  BY <1>1, <1>2, CommandValue DEF IInv, WellFormed, Phases

\* The commands of two places, and two commands of a set, are not the same.
LEMMA CommandsApart ==
    ASSUME IInv
    PROVE  /\ \A m \in late, i \in Connections : \A k \in DOMAIN server[i] :
                  server[i][k].by # m.by
           /\ \A l, m \in late : l.by = m.by /\ l.at = m.at => l = m
<1>1. \A m \in late, i \in Connections : \A k \in DOMAIN server[i] : server[i][k].by # m.by
  BY DEF IInv, PlaceInv
<1>2. ASSUME NEW l \in late, NEW m \in late, l.by = m.by, l.at = m.at
      PROVE  l = m
  <2>1. l.op = m.op /\ l.key = m.key /\ l.value = m.value
    BY <1>2 DEF IInv, LateInv, WellFormed
  <2>2. l \in Message /\ m \in Message
    BY DEF IInv, TypeInv
  <2> QED
    BY <1>2, <2>1, <2>2 DEF Message
<1> QED
  BY <1>1, <1>2

LEMMA LeftIs ==
    ASSUME NEW c \in Calls
    PROVE  /\ request[c] # None /\ request[c].op # "get" /\ phase[c] \notin {"built", "wait"} =>
                  \A x : x \in Left(c) <=> \E m \in Commands : m.by = c /\ m.at = x
           /\ request'[c] # None /\ request'[c].op # "get" /\ phase'[c] \notin {"built", "wait"} =>
                  \A x : x \in Left(c)' <=> \E m \in Commands' : m.by = c /\ m.at = x
BY DEF Left, Commands

LEMMA LeftFrame ==
    ASSUME NEW c \in Calls, request'[c] = request[c],
           phase'[c] = phase[c]
               \/ (phase[c] \notin {"built", "wait"} /\ phase'[c] \notin {"built", "wait"}),
           request[c].op # "get" =>
               \A m : m.by = c => (m \in Commands' <=> m \in Commands)
    PROVE  Left(c)' = Left(c)
<1>1. CASE request[c] = None \/ request[c].op = "get"
  BY <1>1 DEF Left
<1>2. CASE request[c] # None /\ request[c].op # "get" /\ phase[c] \in {"built", "wait"}
  BY <1>2 DEF Left
<1>3. CASE request[c] # None /\ request[c].op # "get" /\ phase[c] \notin {"built", "wait"}
  <2>1. \A x : x \in Left(c) <=> \E m \in Commands : m.by = c /\ m.at = x
    BY <1>3, LeftIs
  <2>2. \A x : x \in Left(c)' <=> \E m \in Commands' : m.by = c /\ m.at = x
    BY <1>3, LeftIs
  <2>3. \A x : x \in Left(c)' <=> x \in Left(c)
    BY <1>3, <2>1, <2>2
  <2> HIDE DEF Left
  <2>4. Left(c)' \subseteq Left(c) /\ Left(c) \subseteq Left(c)'
    BY <2>3
  <2> QED
    BY <2>4
<1> QED
  BY <1>1, <1>2, <1>3

LEMMA GotFrame ==
    ASSUME NEW c \in Calls, url' = url, request'[c] = request[c], phase'[c] = phase[c],
           phase[c] = "sent" => /\ via'[c] = via[c] /\ server'[via[c]] = server[via[c]]
                                /\ replies'[via[c]] = replies[via[c]]
    PROVE  Got(c)' = Got(c)
<1>1. CASE phase[c] # "sent"
  BY <1>1 DEF Got
<1>2. CASE phase[c] = "sent"
  <2>1. Executed(c)' = Executed(c)
    BY <1>2 DEF Executed, IsRedis
  <2> QED
    BY <1>2, <2>1 DEF Got, IsRedis
<1> QED
  BY <1>1, <1>2

LEMMA OutcomeFrame ==
    ASSUME NEW c \in Calls, phase'[c] = phase[c], result'[c] = result[c]
    PROVE  Outcome(c)' = Outcome(c)
BY DEF Outcome

\* What the others have got, have left to do and have returned is the same.
OthersSame(c) ==
    /\ \A d \in Calls \ {c} : Got(d)' = Got(d) /\ Left(d)' = Left(d) /\ Outcome(d)' = Outcome(d)
    /\ url' = url

LEMMA Mapped ==
    ASSUME NEW c \in Calls, OthersSame(c)
    PROVE  /\ [d \in Calls |-> Got(d)]' = [[d \in Calls |-> Got(d)] EXCEPT ![c] = Got(c)']
           /\ [d \in Calls |-> Left(d)]' = [[d \in Calls |-> Left(d)] EXCEPT ![c] = Left(c)']
           /\ [d \in Calls |-> Outcome(d)]' = [[d \in Calls |-> Outcome(d)] EXCEPT ![c] = Outcome(c)']
           /\ Got(c)' = Got(c) => UNCHANGED [d \in Calls |-> Got(d)]
           /\ Left(c)' = Left(c) => UNCHANGED [d \in Calls |-> Left(d)]
           /\ Outcome(c)' = Outcome(c) => UNCHANGED [d \in Calls |-> Outcome(d)]
           /\ UNCHANGED IsRedis
BY DEF OthersSame, IsRedis

\* The steps of the promise.
LEMMA Stutters ==
    ASSUME url' = url, rows' = rows, request' = request,
           \A d \in Calls : Got(d)' = Got(d) /\ Left(d)' = Left(d) /\ Outcome(d)' = Outcome(d)
    PROVE  UNCHANGED Contract!vars
BY DEF Contract!vars, IsRedis

LEMMA Asks ==
    ASSUME NEW c \in Calls, OthersSame(c), request[c] = None, NEW r \in Requests,
           request' = [request EXCEPT ![c] = r], rows' = rows,
           Got(c)' = Got(c), Outcome(c)' = Outcome(c),
           Left(c)' = IF r.op = "set" THEN DOMAIN r.keys ELSE {}
    PROVE  Contract!Next
BY Mapped DEF Contract!Next, Contract!Ask

LEMMA Reads ==
    ASSUME NEW c \in Calls, OthersSame(c), request[c] # None, request[c].op = "get",
           Outcome(c) = Contract!Pending, NEW new \in SUBSET (DOMAIN request[c].keys \ DOMAIN Got(c)),
           Got(c)' = [i \in DOMAIN Got(c) \cup new |->
                         IF i \in new THEN rows[request[c].keys[i]] ELSE Got(c)[i]],
           rows' = rows, request' = request, Left(c)' = Left(c), Outcome(c)' = Outcome(c)
    PROVE  Contract!Next
<1> DEFINE g == [d \in Calls |-> Got(d)]
           o == [d \in Calls |-> Outcome(d)]
<1>1. g[c] = Got(c) /\ o[c] = Outcome(c)
  OBVIOUS
<1> DEFINE x == [i \in DOMAIN g[c] \cup new |->
                   IF i \in new THEN rows[request[c].keys[i]] ELSE g[c][i]]
<1>2. g' = [g EXCEPT ![c] = x]
  <2>1. Got(c)' = x
    BY <1>1
  <2>2. g' = [g EXCEPT ![c] = Got(c)']
    BY Mapped
  <2> HIDE DEF x, g
  <2> QED
    BY <2>1, <2>2
<1>3. UNCHANGED <<IsRedis, rows, request, [d \in Calls |-> Left(d)], o>>
  BY Mapped
<1>4. Contract!Running(c, "get") /\ new \in SUBSET (DOMAIN request[c].keys \ DOMAIN g[c])
  BY <1>1 DEF Contract!Running
<1> HIDE DEF g, o
<1>5. Contract!Read(c)
  BY <1>2, <1>3, <1>4 DEF Contract!Read, g, o
<1> QED
  BY <1>5 DEF Contract!Next

LEMMA Writes ==
    ASSUME NEW c \in Calls, OthersSame(c), NEW i \in Left(c),
           rows' = [rows EXCEPT ![request[c].keys[i]] = request[c].values[i]],
           Left(c)' = Left(c) \ {i}, request' = request,
           Got(c)' = Got(c), Outcome(c)' = Outcome(c)
    PROVE  Contract!Next
<1> DEFINE l == [d \in Calls |-> Left(d)]
<1>1. l[c] = Left(c)
  OBVIOUS
<1>2. l' = [l EXCEPT ![c] = l[c] \ {i}]
  <2>1. l' = [l EXCEPT ![c] = Left(c)']
    BY Mapped
  <2> HIDE DEF l
  <2> QED
    BY <1>1, <2>1
<1>3. UNCHANGED <<IsRedis, request, [d \in Calls |-> Got(d)], [d \in Calls |-> Outcome(d)]>>
  BY Mapped
<1>4. i \in l[c]
  BY <1>1
<1> HIDE DEF l
<1>5. Contract!Write(c)
  BY <1>2, <1>3, <1>4 DEF Contract!Write, l
<1> QED
  BY <1>5 DEF Contract!Next

LEMMA Loses ==
    ASSUME NEW c \in Calls, OthersSame(c), ~IsRedis \/ Outcome(c) # Contract!Pending,
           Left(c)' \subseteq Left(c), rows' = rows, request' = request,
           Got(c)' = Got(c), Outcome(c)' = Outcome(c)
    PROVE  Contract!Next
<1> DEFINE lost == Left(c) \ Left(c)'
<1>1. Left(c)' = Left(c) \ lost /\ lost \in SUBSET Left(c)
  OBVIOUS
<1> HIDE DEF lost
<1>2. Contract!Lose(c)
  BY <1>1, Mapped DEF Contract!Lose
<1> QED
  BY <1>2 DEF Contract!Next

LEMMA Succeeds ==
    ASSUME NEW c \in Calls, OthersSame(c), request[c] # None, Outcome(c) = Contract!Pending,
           \/ request[c].op = "get" /\ DOMAIN Got(c) = DOMAIN request[c].keys
           \/ request[c].op = "set" /\ (IsRedis => Left(c) = {}),
           Outcome(c)' = [kind |-> "ok", values |-> Got(c)], Got(c)' = <<>>,
           rows' = rows, request' = request, Left(c)' = Left(c)
    PROVE  Contract!Next
<1>1. Contract!Succeed(c)
  BY Mapped DEF Contract!Succeed, Contract!Running, Contract!Nothing
<1> QED
  BY <1>1 DEF Contract!Next

LEMMA Fails ==
    ASSUME NEW c \in Calls, OthersSame(c), request[c] # None, Outcome(c) = Contract!Pending,
           NEW kind \in {"failed", "dropped"}, Outcome(c)' = [kind |-> kind, values |-> <<>>],
           Got(c)' = <<>>, Left(c)' \subseteq Left(c), rows' = rows, request' = request
    PROVE  Contract!Next
<1>1. Contract!Fail(c)
  BY Mapped DEF Contract!Fail, Contract!Failed, Contract!Nothing
<1> QED
  BY <1>1 DEF Contract!Next

\* What a call has got so far.
LEMMA GotNothing ==
    ASSUME NEW c \in Calls
    PROVE  /\ phase[c] # "sent" \/ request[c].op = "set" => Got(c) = <<>>
           /\ phase'[c] # "sent" \/ request'[c].op = "set" => Got(c)' = <<>>
BY DEF Got

LEMMA NoneGot ==
    ASSUME NEW f, f = [i \in DOMAIN f |-> f[i]], DOMAIN f = {}
    PROVE  f = <<>>
OBVIOUS

\* What a call has got, from the replies of Redis and the rows of BigTable.
GotInv ==
    \A c \in Calls : phase[c] = "sent" /\ request[c].op = "get" =>
        /\ Got(c) = [i \in DOMAIN Got(c) |-> Got(c)[i]]
        /\ DOMAIN Got(c) \subseteq DOMAIN request[c].keys
        /\ IsRedis => /\ DOMAIN Got(c) = DOMAIN replies[via[c]]
                      /\ \A i \in DOMAIN Got(c) : Got(c)[i] = replies[via[c]][i].value
        /\ ~IsRedis =>
            /\ DOMAIN Got(c) = {i \in DOMAIN request[c].keys :
                  \A k \in DOMAIN server[c] : server[c][k].key # request[c].keys[i]}
            /\ \A i \in DOMAIN Got(c) :
                  /\ \A k \in DOMAIN replies[c] : replies[c][k].key = request[c].keys[i] =>
                         Got(c)[i] = replies[c][k].value
                  /\ (\A k \in DOMAIN replies[c] : replies[c][k].key # request[c].keys[i]) =>
                         Got(c)[i] = None

LEMMA GotRedis ==
    ASSUME IInv, NEW c \in Calls, phase[c] = "sent", IsRedis, request[c].op = "get"
    PROVE  /\ DOMAIN Got(c) = DOMAIN replies[via[c]]
           /\ DOMAIN Got(c) \subseteq DOMAIN request[c].keys
           /\ Got(c) = [i \in DOMAIN replies[via[c]] |-> replies[via[c]][i].value]
<1> DEFINE v == via[c]
           n == Len(replies[v])
           q == Len(server[v])
           k == Len(request[c].keys)
<1>1. /\ v \in Connections /\ request[c] \in Requests /\ n + q = k
      /\ \A j \in DOMAIN server[v] : server[v][j].by = c /\ server[v][j].at = n + j
  BY DEF IInv, TypeInv, CallInv, RedisInv, Paired, Connections
<1>2. /\ n \in Nat /\ q \in Nat /\ k \in Nat /\ DOMAIN replies[v] = 1..n
      /\ DOMAIN server[v] = 1..q /\ DOMAIN request[c].keys = 1..k
  BY <1>1, Sorts, RequestType DEF IInv
<1> HIDE DEF n, q, k
<1>3. ASSUME NEW i \in 1..k
      PROVE  (\E m \in ToSet(server[v]) : m.by = c /\ m.at = i) <=> i \notin 1..n
  <2>1. ASSUME i \notin 1..n
        PROVE  \E m \in ToSet(server[v]) : m.by = c /\ m.at = i
    <3>1. i - n \in 1..q /\ n + (i - n) = i
      BY <1>1, <1>2, <2>1
    <3>2. server[v][i - n] \in ToSet(server[v])
      BY <1>2, <3>1 DEF ToSet
    <3> QED
      BY <1>1, <1>2, <3>1, <3>2
  <2>2. ASSUME NEW m \in ToSet(server[v]), m.at = i
        PROVE  i \notin 1..n
    <3>1. PICK j \in 1..q : m = server[v][j]
      BY <1>2 DEF ToSet
    <3>2. i = n + j
      BY <1>1, <1>2, <2>2, <3>1
    <3> QED
      BY <1>2, <3>1, <3>2
  <2> QED
    BY <2>1, <2>2
<1>4. Executed(c) = {i \in 1..k : ~\E m \in ToSet(server[v]) : m.by = c /\ m.at = i}
  BY <1>2 DEF Executed
<1>5. Executed(c) = 1..n
  BY <1>1, <1>2, <1>3, <1>4
<1>6. Got(c) = [i \in Executed(c) |-> replies[v][i].value]
  BY DEF Got
<1> QED
  BY <1>1, <1>2, <1>5, <1>6

LEMMA GotBigTable ==
    ASSUME IInv, NEW c \in Calls, phase[c] = "sent", ~IsRedis, request[c].op = "get"
    PROVE  /\ DOMAIN Got(c) = {i \in DOMAIN request[c].keys :
                  \A k \in DOMAIN server[c] : server[c][k].key # request[c].keys[i]}
           /\ \A i \in DOMAIN Got(c) :
                  /\ \A k \in DOMAIN replies[c] : replies[c][k].key = request[c].keys[i] =>
                         Got(c)[i] = replies[c][k].value
                  /\ (\A k \in DOMAIN replies[c] : replies[c][k].key # request[c].keys[i]) =>
                         Got(c)[i] = None
<1> DEFINE found(i) == {m \in ToSet(replies[c]) : m.key = request[c].keys[i]}
<1>1. /\ via[c] = c /\ c \in Connections
      /\ \A k \in DOMAIN server[c] : server[c][k].by = c
      /\ \A j, k \in DOMAIN replies[c] : j # k => replies[c][j].key # replies[c][k].key
  BY DEF IInv, CallInv, ServerInv, Queue, BigTableInv, KeysApart, Connections
<1>2. Got(c) = [i \in Executed(c) |->
          IF found(i) = {} THEN None ELSE (CHOOSE m \in found(i) : TRUE).value]
  BY <1>1 DEF Got
<1>3. Executed(c) = {i \in DOMAIN request[c].keys :
          ~\E m \in ToSet(server[c]) : m.by = c /\ m.key = request[c].keys[i]}
  BY <1>1 DEF Executed
<1>4. \A i : (\E m \in ToSet(server[c]) : m.by = c /\ m.key = request[c].keys[i]) <=>
             \E k \in DOMAIN server[c] : server[c][k].key = request[c].keys[i]
  BY <1>1 DEF ToSet
<1>5. \A i : found(i) = {m \in ToSet(replies[c]) : m.key = request[c].keys[i]}
  OBVIOUS
<1> HIDE DEF found
<1>6. DOMAIN Got(c) = {i \in DOMAIN request[c].keys :
          \A k \in DOMAIN server[c] : server[c][k].key # request[c].keys[i]}
  BY <1>2, <1>3, <1>4
<1>7. ASSUME NEW i \in DOMAIN Got(c), NEW k \in DOMAIN replies[c],
             replies[c][k].key = request[c].keys[i]
      PROVE  Got(c)[i] = replies[c][k].value
  <2>1. found(i) = {replies[c][k]}
    BY <1>1, <1>5, <1>7 DEF ToSet
  <2> QED
    BY <1>2, <2>1
<1>8. ASSUME NEW i \in DOMAIN Got(c), \A k \in DOMAIN replies[c] : replies[c][k].key # request[c].keys[i]
      PROVE  Got(c)[i] = None
  <2>1. found(i) = {}
    BY <1>5, <1>8 DEF ToSet
  <2> QED
    BY <1>2, <2>1
<1> QED
  BY <1>6, <1>7, <1>8

LEMMA GotHolds == IInv => GotInv
<1> SUFFICES ASSUME IInv, NEW c \in Calls, phase[c] = "sent", request[c].op = "get"
             PROVE  /\ Got(c) = [i \in DOMAIN Got(c) |-> Got(c)[i]]
                    /\ DOMAIN Got(c) \subseteq DOMAIN request[c].keys
                    /\ IsRedis => /\ DOMAIN Got(c) = DOMAIN replies[via[c]]
                                  /\ \A i \in DOMAIN Got(c) : Got(c)[i] = replies[via[c]][i].value
                    /\ ~IsRedis =>
                        /\ DOMAIN Got(c) = {i \in DOMAIN request[c].keys :
                              \A k \in DOMAIN server[c] : server[c][k].key # request[c].keys[i]}
                        /\ \A i \in DOMAIN Got(c) :
                              /\ \A k \in DOMAIN replies[c] : replies[c][k].key = request[c].keys[i] =>
                                     Got(c)[i] = replies[c][k].value
                              /\ (\A k \in DOMAIN replies[c] : replies[c][k].key # request[c].keys[i]) =>
                                     Got(c)[i] = None
  BY DEF GotInv
<1>1. CASE IsRedis
  BY <1>1, GotRedis
<1>2. CASE ~IsRedis
  <2>1. Got(c) = [i \in DOMAIN Got(c) |-> Got(c)[i]]
    BY DEF Got
  <2> QED
    BY <1>2, <2>1, GotBigTable
<1> QED
  BY <1>1, <1>2

LEMMA GotHoldsNext == IInv' => GotInv'
BY GotHolds, PTL

\* A call is not disturbed by what happens elsewhere.
Undisturbed(d) ==
    /\ request'[d] = request[d] /\ phase'[d] = phase[d] /\ result'[d] = result[d]
    /\ phase[d] = "sent" => /\ via'[d] = via[d] /\ server'[via[d]] = server[via[d]]
                            /\ replies'[via[d]] = replies[via[d]]
    /\ request[d].op # "get" => \A m : m.by = d => (m \in Commands' <=> m \in Commands)

LEMMA CallFrame ==
    ASSUME NEW d \in Calls, url' = url, Undisturbed(d)
    PROVE  Got(d)' = Got(d) /\ Left(d)' = Left(d) /\ Outcome(d)' = Outcome(d)
BY GotFrame, LeftFrame, OutcomeFrame DEF Undisturbed

LEMMA OthersFrame ==
    ASSUME NEW c \in Calls, url' = url, \A d \in Calls \ {c} : Undisturbed(d)
    PROVE  OthersSame(c)
BY CallFrame DEF OthersSame

LEMMA PendingIs ==
    ASSUME NEW c \in Calls
    PROVE  /\ phase[c] \in {"idle", "built", "wait", "sent"} => Outcome(c) = Contract!Pending
           /\ phase'[c] \in {"idle", "built", "wait", "sent"} => Outcome(c)' = Contract!Pending
           /\ phase[c] \in {"done", "failed", "dropped"} => Outcome(c) # Contract!Pending
           /\ phase'[c] = "done" => Outcome(c)' = [kind |-> "ok", values |-> result'[c]]
           /\ phase'[c] \in {"failed", "dropped"} =>
                  Outcome(c)' = [kind |-> phase'[c], values |-> <<>>]
BY DEF Outcome, Contract!Pending

LEMMA OpenSteps ==
    ASSUME UNCHANGED <<url, rows, call, connection, late>>
    PROVE  UNCHANGED Contract!vars
<1>1. ASSUME NEW d \in Calls
      PROVE  Undisturbed(d)
  <2>1. Commands' = Commands
    BY DEF Commands, connection, Connections, ToSet
  <2> QED
    BY <2>1 DEF Undisturbed, call, connection
<1> QED
  BY <1>1, CallFrame, Stutters DEF call

LEMMA NewPipelinedSteps ==
    ASSUME IInv, NEW c \in Calls, NewPipelined(c)
    PROVE  Contract!Next
<1>1. PICK r \in Requests : request' = [request EXCEPT ![c] = r]
  BY DEF NewPipelined
<1>2. /\ phase[c] = "idle" /\ phase' = [phase EXCEPT ![c] = "built"] /\ url' = url
      /\ rows' = rows /\ via' = via /\ result' = result /\ server' = server
      /\ replies' = replies /\ late' = late /\ request[c] = None
  BY DEF NewPipelined, connection, IInv, CallInv
<1>3. /\ phase'[c] = "built" /\ request'[c] = r
      /\ \A d \in Calls \ {c} : phase'[d] = phase[d] /\ request'[d] = request[d]
  BY <1>1, <1>2 DEF IInv, TypeInv
<1>4. Commands' = Commands
  BY <1>2 DEF Commands, Connections, ToSet
<1>5. OthersSame(c)
  <2>1. \A d \in Calls \ {c} : Undisturbed(d)
    BY <1>2, <1>3, <1>4 DEF Undisturbed
  <2> QED
    BY <1>2, <2>1, OthersFrame
<1>6. Got(c) = <<>> /\ Got(c)' = <<>> /\ Outcome(c) = Contract!Pending /\ Outcome(c)' = Contract!Pending
  BY <1>2, <1>3, GotNothing, PendingIs
<1>7. Left(c)' = IF r.op = "set" THEN DOMAIN r.keys ELSE {}
  BY <1>3, RequestType DEF Left
<1> QED
  BY <1>1, <1>2, <1>5, <1>6, <1>7, Asks

LEMMA ExecuteRedisSteps ==
    ASSUME IInv, NEW c \in Calls, ExecuteRedis(c)
    PROVE  UNCHANGED Contract!vars
<1>1. /\ phase[c] = "built" /\ phase' = [phase EXCEPT ![c] = "wait"] /\ url' = url
      /\ rows' = rows /\ via' = via /\ result' = result /\ server' = server
      /\ replies' = replies /\ late' = late /\ request' = request
  BY DEF ExecuteRedis, connection
<1>2. phase'[c] = "wait" /\ \A d \in Calls \ {c} : phase'[d] = phase[d]
  BY <1>1 DEF IInv, TypeInv
<1>3. Commands' = Commands
  BY <1>1 DEF Commands, Connections, ToSet
<1>4. \A d \in Calls \ {c} : Undisturbed(d)
  BY <1>1, <1>2, <1>3 DEF Undisturbed
<1>5. Got(c)' = Got(c) /\ Outcome(c)' = Outcome(c)
  BY <1>1, <1>2, GotNothing, PendingIs
<1>6. Left(c)' = Left(c)
  BY <1>1, <1>2 DEF Left
<1>7. \A d \in Calls : Got(d)' = Got(d) /\ Left(d)' = Left(d) /\ Outcome(d)' = Outcome(d)
  BY <1>1, <1>4, <1>5, <1>6, CallFrame
<1> QED
  BY <1>1, <1>7, Stutters

\* What is sent is what is left to do, and nothing of it is got yet.
LEMMA SentSteps ==
    ASSUME IInv, IInv', NEW c \in Calls, NEW i \in Connections, NEW s \in Seq(Message),
           phase[c] \in {"built", "wait"}, request[c] \in Requests,
           phase' = [phase EXCEPT ![c] = "sent"], via' = [via EXCEPT ![c] = i],
           server' = [server EXCEPT ![i] = s], server[i] = <<>>, replies[i] = <<>>,
           UNCHANGED <<url, rows, request, replies, late, result>>,
           ~IsRedis => i = c,
           \A d \in Calls : via[d] # i,
           \A k \in DOMAIN s : s[k].by = c,
           request[c].op = "get" => \A k \in DOMAIN request[c].keys :
                                        \E j \in DOMAIN s : s[j].key = request[c].keys[k],
           request[c].op = "set" => \A j \in DOMAIN s : s[j].at \in DOMAIN request[c].keys,
           request[c].op = "set" /\ IsRedis => \A k \in DOMAIN request[c].keys :
                                        \E j \in DOMAIN s : s[j].at = k
    PROVE  [Contract!Next]_(Contract!vars)
<1>1. /\ phase'[c] = "sent" /\ via'[c] = i
      /\ \A d \in Calls \ {c} : phase'[d] = phase[d] /\ via'[d] = via[d]
      /\ server'[i] = s /\ \A j \in Connections : j # i => server'[j] = server[j]
  BY DEF IInv, TypeInv
<1>2. \A m : m \in Commands' <=> m \in Commands \/ \E k \in DOMAIN s : m = s[k]
  <2>1. DOMAIN server[i] = {}
    BY Sorts DEF IInv
  <2> QED
    BY <1>1, <2>1, InCommands
<1>3. \A d \in Calls \ {c} : Undisturbed(d)
  <2> SUFFICES ASSUME NEW d \in Calls \ {c}
               PROVE  Undisturbed(d)
    OBVIOUS
  <2>1. phase[d] = "sent" => via[d] \in Connections /\ via[d] # i
    BY DEF IInv, CallInv, Connections
  <2> QED
    BY <1>1, <1>2, <2>1 DEF Undisturbed
<1>4. OthersSame(c)
  BY <1>3, OthersFrame
<1>5. Outcome(c) = Contract!Pending /\ Outcome(c)' = Contract!Pending /\ Got(c) = <<>>
  BY <1>1, PendingIs, GotNothing
<1>6. CASE request[c].op = "get"
  <2>1. GotInv'
    BY GotHoldsNext
  <2>2. request'[c].op = "get" /\ replies'[i] = <<>>
    BY <1>6
  <2>3. Got(c)' = [k \in DOMAIN Got(c)' |-> Got(c)'[k]] /\ DOMAIN Got(c)' \subseteq DOMAIN request[c].keys
    BY <1>1, <2>1, <2>2 DEF GotInv
  <2>4. IsRedis => DOMAIN Got(c)' = DOMAIN replies'[i]
    BY <1>1, <2>1, <2>2 DEF GotInv, IsRedis
  <2>5. ~IsRedis => DOMAIN Got(c)' = {k \in DOMAIN request'[c].keys :
                        \A j \in DOMAIN server'[c] : server'[c][j].key # request'[c].keys[k]}
    BY <1>1, <2>1, <2>2 DEF GotInv, IsRedis
  <2>6. DOMAIN Got(c)' = {}
    <3>1. DOMAIN <<>> = {}
      OBVIOUS
    <3>2. CASE IsRedis
      BY <2>2, <2>4, <3>1, <3>2
    <3>3. CASE ~IsRedis
      <4>1. server'[c] = s /\ request'[c] = request[c]
        BY <1>1, <3>3
      <4>2. \A k \in DOMAIN request[c].keys : \E j \in DOMAIN s : s[j].key = request[c].keys[k]
        BY <1>6
      <4>3. DOMAIN Got(c)' = {k \in DOMAIN request[c].keys :
                        \A j \in DOMAIN s : s[j].key # request[c].keys[k]}
        BY <2>5, <3>3, <4>1
      <4>4. ASSUME NEW k \in DOMAIN Got(c)'
            PROVE  FALSE
        <5>1. k \in DOMAIN request[c].keys /\ \A j \in DOMAIN s : s[j].key # request[c].keys[k]
          BY <4>3
        <5> QED
          BY <4>2, <5>1
      <4> QED
        BY <4>4
    <3> QED
      BY <3>2, <3>3
  <2>7. Got(c)' = <<>>
    BY <2>3, <2>6, NoneGot
  <2>8. Left(c)' = Left(c)
    BY <1>6 DEF Left
  <2>9. \A d \in Calls : Got(d)' = Got(d) /\ Left(d)' = Left(d) /\ Outcome(d)' = Outcome(d)
    BY <1>4, <1>5, <2>7, <2>8 DEF OthersSame
  <2> QED
    BY <2>9, Stutters
<1>7. CASE request[c].op = "set"
  <2>1. Got(c)' = <<>>
    BY <1>7, GotNothing
  <2>2. Left(c) = DOMAIN request[c].keys
    BY <1>7, RequestType DEF Left
  <2>3. \A x : x \in Left(c)' <=> \E m \in Commands' : m.by = c /\ m.at = x
    BY <1>1, <1>7, RequestType, LeftIs
  <2>4. \A m \in Commands : m.by # c
    BY Unsent, InCommands
  <2>5. \A x : x \in Left(c)' <=> \E k \in DOMAIN s : s[k].at = x
    BY <1>2, <2>3, <2>4
  <2>6. CASE IsRedis
    <3>1. Left(c)' = Left(c)
      <4>1. \A x : x \in Left(c)' <=> x \in Left(c)
        BY <1>7, <2>2, <2>5, <2>6
      <4>2. Left(c)' \subseteq Left(c) /\ Left(c) \subseteq Left(c)'
        BY <4>1
      <4> QED
        BY <4>2
    <3>2. \A d \in Calls : Got(d)' = Got(d) /\ Left(d)' = Left(d) /\ Outcome(d)' = Outcome(d)
      BY <1>4, <1>5, <2>1, <3>1 DEF OthersSame
    <3> QED
      BY <3>2, Stutters
  <2>7. CASE ~IsRedis
    <3>1. Left(c)' \subseteq Left(c)
      BY <1>7, <2>2, <2>5
    <3> QED
      BY <1>4, <1>5, <2>1, <2>7, <3>1, Loses
  <2> QED
    BY <2>6, <2>7
<1> QED
  BY <1>6, <1>7, RequestType

LEMMA ExecuteBigTableSteps ==
    ASSUME IInv, IInv', NEW c \in Calls, ExecuteBigTable(c)
    PROVE  [Contract!Next]_(Contract!vars)
<1>1. /\ phase[c] = "built" /\ ~IsRedis /\ via' = [via EXCEPT ![c] = c]
      /\ phase' = [phase EXCEPT ![c] = "sent"]
      /\ UNCHANGED <<url, rows, request, replies, late, result>>
  BY DEF ExecuteBigTable
<1>2. PICK s \in BigTableRequests(c, request[c]) : server' = [server EXCEPT ![c] = s]
  BY DEF ExecuteBigTable
<1>3. /\ c \in Connections /\ request[c] \in Requests
      /\ server[c] = <<>> /\ replies[c] = <<>> /\ \A d \in Calls : via[d] # c
  BY <1>1, ValueAssumption DEF IInv, TypeInv, CallInv, ServerInv, Queue, IsClean, Connections
<1>4. /\ s \in Seq(Message) /\ \A j \in DOMAIN s : s[j].by = c
      /\ request[c].op = "set" => \A j \in DOMAIN s : s[j].at \in DOMAIN request[c].keys
      /\ request[c].op = "get" => \A k \in DOMAIN request[c].keys :
                                      \E j \in DOMAIN s : s[j].key = request[c].keys[k]
  BY <1>3, BigTableRequestsType
<1> QED
  BY <1>1, <1>2, <1>3, <1>4, SentSteps

LEMMA CheckOutSteps ==
    ASSUME IInv, IInv', NEW c \in Calls, NEW i \in Pool, CheckOut(c, i)
    PROVE  [Contract!Next]_(Contract!vars)
<1> DEFINE s == Pipeline(c, request[c])
<1>1. /\ phase[c] = "wait" /\ via' = [via EXCEPT ![c] = i]
      /\ server[i] = <<>> /\ replies[i] = <<>> /\ \A d \in Calls : via[d] # i
      /\ phase' = [phase EXCEPT ![c] = "sent"] /\ server' = [server EXCEPT ![i] = s]
      /\ UNCHANGED <<url, rows, request, replies, late, result>>
  BY DEF CheckOut, IsIdle, IsClean
<1>2. i \in Connections /\ request[c] \in Requests /\ IsRedis
  BY <1>1 DEF IInv, TypeInv, CallInv, Connections
<1>3. s \in Seq(Message) /\ DOMAIN s = DOMAIN request[c].keys
  BY <1>2, PipelineType
<1>4. \A j \in DOMAIN request[c].keys :
          s[j].by = c /\ s[j].at = j /\ s[j].key = request[c].keys[j]
  BY <1>2, PipelineFields
<1> HIDE DEF s
<1>5. /\ \A k \in DOMAIN s : s[k].by = c /\ s[k].at \in DOMAIN request[c].keys
      /\ \A k \in DOMAIN request[c].keys : \E j \in DOMAIN s : s[j].key = request[c].keys[k]
      /\ \A k \in DOMAIN request[c].keys : \E j \in DOMAIN s : s[j].at = k
  BY <1>3, <1>4
<1>6. phase[c] \in {"built", "wait"}
  BY <1>1
<1>7. /\ ~IsRedis => i = c
      /\ request[c].op = "get" => \A k \in DOMAIN request[c].keys :
                                      \E j \in DOMAIN s : s[j].key = request[c].keys[k]
      /\ request[c].op = "set" => \A j \in DOMAIN s : s[j].at \in DOMAIN request[c].keys
      /\ request[c].op = "set" /\ IsRedis => \A k \in DOMAIN request[c].keys :
                                      \E j \in DOMAIN s : s[j].at = k
  BY <1>2, <1>5
<1> HIDE DEF IInv
<1>8. i \in Connections /\ s \in Seq(Message) /\ request[c] \in Requests
  BY <1>2, <1>3
<1>9. \A k \in DOMAIN s : s[k].by = c
  BY <1>5
<1> QED
  BY <1>1, <1>6, <1>7, <1>8, <1>9, SentSteps

\* The sets of a connection that is closed are not forgotten.
LEMMA Moved ==
    ASSUME IInv, NEW i \in Connections, server' = [server EXCEPT ![i] = <<>>],
           late' = late \cup {m \in ToSet(server[i]) : m.op = "set"}
    PROVE  /\ Commands' \subseteq Commands
           /\ \A d \in Calls : request[d].op # "get" =>
                  \A m : m.by = d => (m \in Commands' <=> m \in Commands)
<1>1. server'[i] = <<>> /\ \A j \in Connections : j # i => server'[j] = server[j]
  BY DEF IInv, TypeInv
<1>2. \A m : m \in late' <=> m \in late \/ (m.op = "set" /\ \E k \in DOMAIN server[i] : m = server[i][k])
  BY DEF ToSet
<1>3. \A m : m \in Commands' => m \in Commands
  BY <1>1, <1>2, InCommands
<1>4. \A m : m \in Commands /\ m.op = "set" => m \in Commands'
  BY <1>1, <1>2, InCommands
<1>5. \A m \in Commands : request[m.by].op # "get" => m.op = "set"
  BY CommandsMade
<1> QED
  BY <1>3, <1>4, <1>5

LEMMA DiscardSteps ==
    ASSUME IInv, NEW c \in Calls, NEW i \in Pool, Discard(c, i)
    PROVE  UNCHANGED Contract!vars
<1>1. /\ i \in Connections /\ url' = url /\ rows' = rows
      /\ request' = request /\ phase' = phase /\ via' = via /\ result' = result
      /\ server' = [server EXCEPT ![i] = <<>>]
      /\ replies' = [replies EXCEPT ![i] = <<>>]
      /\ late' = late \cup {m \in ToSet(server[i]) : m.op = "set"}
      /\ \A d \in Calls : via[d] # i
  BY DEF Discard, Connections, call, IsIdle
<1>2. \A j \in Connections : j # i => server'[j] = server[j] /\ replies'[j] = replies[j]
  BY <1>1 DEF IInv, TypeInv
<1>3. ASSUME NEW d \in Calls
      PROVE  Undisturbed(d)
  <2>1. phase[d] = "sent" => via[d] \in Connections /\ via[d] # i
    BY <1>1 DEF IInv, CallInv, Connections
  <2> QED
    BY <1>1, <1>2, <2>1, Moved DEF Undisturbed
<1> QED
  BY <1>1, <1>3, CallFrame, Stutters

\* Giving back a connection disturbs no other call, and no set of the call itself.
LEMMA ReleaseSteps ==
    ASSUME IInv, NEW c \in Calls, phase[c] \in {"wait", "sent"}, Release(c),
           NEW p \in {"failed", "dropped", "done"}, phase' = [phase EXCEPT ![c] = p],
           UNCHANGED <<url, open, rows, request>>,
           \A d \in Calls : d # c => result'[d] = result[d]
    PROVE  /\ OthersSame(c) /\ Got(c)' = <<>> /\ phase'[c] = p
           /\ Left(c)' \subseteq Left(c)
           /\ phase[c] = "sent" => Left(c)' = Left(c)
<1>1. /\ phase'[c] = p /\ via'[c] = None
      /\ \A d \in Calls : d # c => phase'[d] = phase[d] /\ via'[d] = via[d]
  BY DEF Release, IInv, TypeInv
<1>2. /\ \A d \in Calls : request[d].op # "get" =>
             \A m : m.by = d => (m \in Commands' <=> m \in Commands)
      /\ \A d \in Calls \ {c} : phase[d] = "sent" =>
             server'[via[d]] = server[via[d]] /\ replies'[via[d]] = replies[via[d]]
  <2>1. CASE IsRedis
    <3>1. server' = server /\ replies' = replies /\ late' = late
      BY <2>1 DEF Release, connection
    <3>2. Commands' = Commands
      BY <3>1 DEF Commands, Connections, ToSet
    <3> QED
      BY <3>1, <3>2
  <2>2. CASE ~IsRedis
    <3>1. phase[c] = "sent" /\ via[c] = c /\ via[c] # None /\ c \in Connections
      BY <2>2 DEF IInv, CallInv, Connections
    <3>2. /\ late' = late \cup {m \in ToSet(server[c]) : m.op = "set"}
          /\ server' = [server EXCEPT ![c] = <<>>]
          /\ replies' = [replies EXCEPT ![c] = <<>>]
      BY <2>2, <3>1 DEF Release
    <3>3. \A d \in Calls \ {c} : phase[d] = "sent" => via[d] = d /\ d \in Connections
      BY <2>2 DEF IInv, CallInv, Connections
    <3>4. \A j \in Connections : j # c => server'[j] = server[j] /\ replies'[j] = replies[j]
      BY <3>2 DEF IInv, TypeInv
    <3> QED
      BY <3>1, <3>2, <3>3, <3>4, Moved
  <2> QED
    BY <2>1, <2>2
<1>3. OthersSame(c)
  <2>1. \A d \in Calls \ {c} : Undisturbed(d)
    BY <1>1, <1>2 DEF Undisturbed
  <2> QED
    BY <2>1, OthersFrame
<1>4. Got(c)' = <<>>
  BY <1>1, GotNothing
<1>5. phase[c] = "sent" => Left(c)' = Left(c)
  BY <1>1, <1>2, LeftFrame
<1>6. phase[c] = "wait" => Left(c)' \subseteq Left(c)
  <2> SUFFICES ASSUME phase[c] = "wait"
               PROVE  Left(c)' \subseteq Left(c)
    OBVIOUS
  <2>1. CASE request[c] = None \/ request[c].op = "get"
    BY <2>1 DEF Left
  <2>2. CASE request[c] # None /\ request[c].op # "get"
    <3>1. \A x : x \in Left(c)' <=> \E m \in Commands' : m.by = c /\ m.at = x
      BY <1>1, <2>2, LeftIs
    <3>2. \A m \in Commands : m.by # c
      BY Unsent, InCommands
    <3>3. \A x : x \notin Left(c)'
      BY <1>2, <2>2, <3>1, <3>2
    <3> QED
      BY <3>3
  <2> QED
    BY <2>1, <2>2
<1> QED
  BY <1>1, <1>3, <1>4, <1>5, <1>6

LEMMA FailSteps ==
    ASSUME IInv, NEW c \in Calls, Fail(c) \/ Drop(c)
    PROVE  Contract!Next
<1>1. PICK p \in {"failed", "dropped"} :
          /\ phase[c] \in {"wait", "sent"} /\ Release(c) /\ phase' = [phase EXCEPT ![c] = p]
          /\ UNCHANGED <<url, open, rows, request, result>>
  BY DEF Fail, Drop, ReleaseUnfinished
<1>2. request[c] # None
  BY <1>1 DEF IInv, CallInv
<1>3. OthersSame(c) /\ Got(c)' = <<>> /\ phase'[c] = p /\ Left(c)' \subseteq Left(c)
  BY <1>1, ReleaseSteps
<1>4. Outcome(c) = Contract!Pending /\ Outcome(c)' = [kind |-> p, values |-> <<>>]
  BY <1>1, <1>3, PendingIs
<1> QED
  BY <1>1, <1>2, <1>3, <1>4, Fails

LEMMA ReturnRedisSteps ==
    ASSUME IInv, NEW c \in Calls, ReturnRedis(c)
    PROVE  Contract!Next
<1> DEFINE i == via[c]
           r == request[c]
           n == Len(r.keys)
<1>1. /\ phase[c] = "sent" /\ IsRedis /\ Len(replies[i]) >= n
      /\ result' = [result EXCEPT ![c] = IF r.op = "get" THEN QueryResult(c) ELSE <<>>]
      /\ replies' = [replies EXCEPT ![i] = SubSeq(replies[i], n + 1, Len(replies[i]))]
      /\ via' = [via EXCEPT ![c] = None] /\ phase' = [phase EXCEPT ![c] = "done"]
      /\ url' = url /\ open' = open /\ rows' = rows /\ request' = request
      /\ server' = server /\ late' = late
  BY DEF ReturnRedis
<1>2. /\ r \in Requests /\ i \in Connections /\ r # None
      /\ \A d \in Calls : d # c => via[d] # i
      /\ Len(replies[i]) + Len(server[i]) = n
  BY <1>1, RequestType DEF IInv, TypeInv, CallInv, RedisInv, Paired, Connections
<1>3. /\ Len(replies[i]) \in Nat /\ Len(server[i]) \in Nat /\ n \in Nat
      /\ DOMAIN replies[i] = 1..Len(replies[i]) /\ DOMAIN r.keys = 1..n
      /\ DOMAIN server[i] = 1..Len(server[i])
  BY <1>2, Sorts, RequestType DEF IInv
<1> HIDE DEF i, r, n
<1>4. Len(replies[i]) = n /\ Len(server[i]) = 0
  BY <1>1, <1>2, <1>3, Sums
<1>5. /\ phase'[c] = "done"
      /\ \A d \in Calls \ {c} : /\ phase'[d] = phase[d] /\ via'[d] = via[d] /\ result'[d] = result[d]
                                /\ via[d] # i /\ replies'[via[d]] = replies[via[d]]
      /\ result'[c] = IF r.op = "get" THEN QueryResult(c) ELSE <<>>
  BY <1>1, <1>2 DEF IInv, TypeInv
<1>6. Commands' = Commands
  BY <1>1 DEF Commands, Connections, ToSet
<1>7. OthersSame(c)
  <2>1. \A d \in Calls \ {c} : Undisturbed(d)
    BY <1>1, <1>5, <1>6 DEF Undisturbed
  <2> QED
    BY <1>1, <2>1, OthersFrame
<1>8. Left(c)' = Left(c)
  BY <1>1, <1>5, <1>6, LeftFrame
<1>9. /\ Outcome(c) = Contract!Pending /\ Got(c)' = <<>>
      /\ Outcome(c)' = [kind |-> "ok", values |-> result'[c]]
  BY <1>1, <1>5, PendingIs, GotNothing
<1>10. CASE r.op = "get"
  <2>1. /\ DOMAIN Got(c) = DOMAIN replies[i] /\ Got(c) = [k \in DOMAIN Got(c) |-> Got(c)[k]]
        /\ \A k \in DOMAIN Got(c) : Got(c)[k] = replies[i][k].value
    BY <1>1, <1>10, GotHolds DEF GotInv, i, r
  <2>2. QueryResult(c) = [k \in DOMAIN r.keys |-> replies[i][k].value]
    BY DEF QueryResult, i, r
  <2>3. DOMAIN Got(c) = DOMAIN r.keys /\ Got(c) = QueryResult(c)
    BY <1>3, <1>4, <2>1, <2>2
  <2>4. result'[c] = Got(c)
    BY <1>5, <1>10, <2>3
  <2>5. DOMAIN Got(c) = DOMAIN request[c].keys /\ request[c].op = "get" /\ request[c] # None
    BY <1>2, <1>10, <2>3 DEF r
  <2>6. Outcome(c)' = [kind |-> "ok", values |-> Got(c)]
    BY <1>9, <2>4
  <2> QED
    BY <1>1, <1>7, <1>8, <1>9, <2>5, <2>6, Succeeds
<1>11. CASE r.op = "set"
  <2>1. result'[c] = <<>> /\ Got(c) = <<>>
    BY <1>5, <1>11, GotNothing DEF r
  <2>2. \A x : x \in Left(c) <=> \E m \in Commands : m.by = c /\ m.at = x
    BY <1>1, <1>2, <1>11, LeftIs DEF r
  <2>3. \A m \in Commands : m.by # c
    <3> SUFFICES ASSUME NEW m \in Commands, m.by = c
                 PROVE  FALSE
      OBVIOUS
    <3>1. m \notin late
      BY <1>1 DEF IInv, LateInv
    <3>2. PICK j \in Connections : \E k \in DOMAIN server[j] : m = server[j][k]
      BY <3>1, InCommands
    <3>3. j = i
      BY <1>1, <3>2 DEF IInv, ServerInv, Queue, i
    <3> QED
      BY <1>3, <1>4, <3>2, <3>3
  <2>4. Left(c) = {}
    BY <2>2, <2>3
  <2>5. request[c].op = "set" /\ request[c] # None
    BY <1>2, <1>11 DEF r
  <2>6. Outcome(c)' = [kind |-> "ok", values |-> Got(c)]
    BY <1>9, <2>1
  <2> QED
    BY <1>1, <1>7, <1>8, <1>9, <2>4, <2>5, <2>6, Succeeds
<1> QED
  BY <1>2, <1>10, <1>11, RequestType

LEMMA ReturnBigTableSteps ==
    ASSUME IInv, NEW c \in Calls, ReturnBigTable(c)
    PROVE  Contract!Next
<1> DEFINE x == IF request[c].op = "get" THEN Unpack(request[c], replies[c]) ELSE <<>>
<1>1. /\ phase[c] = "sent" /\ ~IsRedis /\ Release(c) /\ phase' = [phase EXCEPT ![c] = "done"]
      /\ UNCHANGED <<url, open, rows, request>> /\ result' = [result EXCEPT ![c] = x]
      /\ request[c].op = "get" => server[c] = <<>>
  BY DEF ReturnBigTable
<1>2. /\ request[c] \in Requests /\ c \in Connections /\ request[c] # None
      /\ replies[c] \in Seq(Replied)
  BY <1>1, RequestType DEF IInv, TypeInv, CallInv, Connections
<1> HIDE DEF x
<1>3. result'[c] = x /\ \A d \in Calls : d # c => result'[d] = result[d]
  BY <1>1 DEF IInv, TypeInv
<1>4. OthersSame(c) /\ Got(c)' = <<>> /\ phase'[c] = "done" /\ Left(c)' = Left(c)
  BY <1>1, <1>3, ReleaseSteps
<1>5. Outcome(c) = Contract!Pending /\ Outcome(c)' = [kind |-> "ok", values |-> x]
  BY <1>1, <1>3, <1>4, PendingIs
<1>6. CASE request[c].op = "get"
  <2> DEFINE r == request[c]
             found == replies[c]
  <2>1. /\ Got(c) = [i \in DOMAIN Got(c) |-> Got(c)[i]]
        /\ DOMAIN Got(c) = {i \in DOMAIN r.keys :
                  \A k \in DOMAIN server[c] : server[c][k].key # r.keys[i]}
        /\ \A i \in DOMAIN Got(c) :
              /\ \A k \in DOMAIN found : found[k].key = r.keys[i] => Got(c)[i] = found[k].value
              /\ (\A k \in DOMAIN found : found[k].key # r.keys[i]) => Got(c)[i] = None
    BY <1>1, <1>6, GotHolds DEF GotInv
  <2>2. DOMAIN server[c] = {}
    BY <1>1, <1>6
  <2>3. \A j, k \in DOMAIN found : j # k => found[j].key # found[k].key
    BY <1>1, <1>6 DEF IInv, BigTableInv, KeysApart
  <2> HIDE DEF r, found
  <2>4. DOMAIN Got(c) = DOMAIN r.keys
    BY <2>1, <2>2
  <2>5. /\ DOMAIN Unpack(r, found) = DOMAIN r.keys
        /\ \A i \in DOMAIN r.keys :
              /\ \A k \in DOMAIN found : found[k].key = r.keys[i] => Unpack(r, found)[i] = found[k].value
              /\ (\A k \in DOMAIN found : found[k].key # r.keys[i]) => Unpack(r, found)[i] = None
    BY <1>2, <2>3, Unpacked DEF r, found
  <2>6. \A i \in DOMAIN r.keys : Got(c)[i] = Unpack(r, found)[i]
    BY <2>1, <2>4, <2>5
  <2>7. Unpack(r, found) = [i \in DOMAIN r.keys |-> Unpack(r, found)[i]]
    BY DEF Unpack
  <2>8. Got(c) = Unpack(r, found)
    BY <2>1, <2>4, <2>6, <2>7
  <2>9. x = Got(c) /\ DOMAIN Got(c) = DOMAIN request[c].keys
    BY <1>6, <2>4, <2>8 DEF x, r, found
  <2>10. Outcome(c)' = [kind |-> "ok", values |-> Got(c)]
    BY <1>5, <2>9
  <2> QED
    BY <1>1, <1>2, <1>4, <1>5, <1>6, <2>9, <2>10, Succeeds
<1>7. CASE request[c].op = "set"
  <2>1. x = Got(c)
    BY <1>7, GotNothing DEF x
  <2>2. Outcome(c)' = [kind |-> "ok", values |-> Got(c)]
    BY <1>5, <2>1
  <2> QED
    BY <1>1, <1>2, <1>4, <1>5, <1>7, <2>2, Succeeds
<1> QED
  BY <1>2, <1>6, <1>7, RequestType

\* What is true when a server takes m, of c, from its list.
Takes(i, m, c) ==
    /\ m \in Commands /\ c \in Calls
    /\ phase[c] = "sent" => via[c] = i
    /\ \A d \in Calls \ {c} : Undisturbed(d)
    /\ phase[c] # "sent" /\ request[c].op = "get" => Undisturbed(c)
    /\ request[c].op = "set" =>
           /\ Left(c)' = Left(c) \ {m.at} /\ m.at \in Left(c)
           /\ Got(c) = <<>> /\ Got(c)' = <<>>
           /\ Outcome(c)' = Outcome(c)

\* A server goes on with what it was sent: what it is sent by c becomes less by
\* the first command, and no other call is disturbed.
LEMMA Taken ==
    ASSUME IInv, NEW i \in Connections, server[i] # <<>>,
           server' = [server EXCEPT ![i] = Tail(server[i])],
           \A j \in Connections : j # i => replies'[j] = replies[j],
           UNCHANGED <<url, request, phase, via, result, late>>,
           NEW m, m = Head(server[i]), NEW c, c = m.by
    PROVE  Takes(i, m, c)
<1>1. /\ server[i] \in Seq(Message) /\ 1 \in DOMAIN server[i] /\ m = server[i][1]
      /\ \A k \in DOMAIN Tail(server[i]) :
             k + 1 \in DOMAIN server[i] /\ Tail(server[i])[k] = server[i][k + 1] /\ k + 1 # 1
      /\ Len(server[i]) \in Nat \ {0}
      /\ DOMAIN Tail(server[i]) = 1..(Len(server[i]) - 1) /\ DOMAIN server[i] = 1..Len(server[i])
  <2>1. server[i] \in Seq(Message)
    BY Sorts DEF IInv
  <2>2. /\ 1 \in DOMAIN server[i] /\ m = server[i][1]
        /\ Tail(server[i]) \in Seq(Message) /\ Len(Tail(server[i])) = Len(server[i]) - 1
        /\ Len(server[i]) \in Nat \ {0}
        /\ \A k \in DOMAIN Tail(server[i]) :
               k + 1 \in DOMAIN server[i] /\ Tail(server[i])[k] = server[i][k + 1]
    BY <2>1, HeadTail
  <2>3. DOMAIN Tail(server[i]) = 1..(Len(server[i]) - 1) /\ DOMAIN server[i] = 1..Len(server[i])
    BY <2>1, <2>2, Listed
  <2> QED
    BY <2>1, <2>2, <2>3
<1>2. m \in Commands
  BY <1>1, InCommands
<1>3. c \in Calls /\ m.op = request[c].op /\ request[c] \in Requests
      /\ phase[c] \in {"sent", "done", "failed", "dropped"}
  BY <1>2, CommandsMade
<1>4. phase[c] = "sent" => via[c] = i
  BY <1>1 DEF IInv, ServerInv, Queue
<1>5. server'[i] = Tail(server[i]) /\ \A j \in Connections : j # i => server'[j] = server[j]
  BY <1>1 DEF IInv, TypeInv
<1>6. \A x : x \in Commands <=> (x = m \/ x \in Commands')
  <2>1. ASSUME NEW k \in DOMAIN server[i]
        PROVE  server[i][k] = m \/ \E l \in DOMAIN server'[i] : server'[i][l] = server[i][k]
    <3>1. CASE k = 1
      BY <1>1, <3>1
    <3>2. CASE k # 1
      <4>1. k - 1 \in 1..(Len(server[i]) - 1) /\ (k - 1) + 1 = k
        BY <1>1, <3>2
      <4> QED
        BY <1>1, <1>5, <4>1
    <3> QED
      BY <3>1, <3>2
  <2>2. \A l \in DOMAIN server'[i] : \E k \in DOMAIN server[i] : server'[i][l] = server[i][k]
    BY <1>1, <1>5
  <2> SUFFICES ASSUME NEW x
               PROVE  x \in Commands <=> (x = m \/ x \in Commands')
    OBVIOUS
  <2>3. (\E j \in Connections : \E k \in DOMAIN server[j] : x = server[j][k]) <=>
               (x = m \/ \E j \in Connections : \E k \in DOMAIN server'[j] : x = server'[j][k])
    <3>1. (\E k \in DOMAIN server[i] : x = server[i][k]) <=>
              (x = m \/ \E k \in DOMAIN server'[i] : x = server'[i][k])
      <4>1. ASSUME NEW k \in DOMAIN server[i], x = server[i][k]
            PROVE  x = m \/ \E l \in DOMAIN server'[i] : x = server'[i][l]
        BY <2>1, <4>1
      <4>2. ASSUME NEW l \in DOMAIN server'[i], x = server'[i][l]
            PROVE  \E k \in DOMAIN server[i] : x = server[i][k]
        BY <2>2, <4>2
      <4>3. x = m => \E k \in DOMAIN server[i] : x = server[i][k]
        BY <1>1
      <4> QED
        BY <4>1, <4>2, <4>3
    <3>2. \A j \in Connections \ {i} : (\E k \in DOMAIN server[j] : x = server[j][k]) <=>
              (\E k \in DOMAIN server'[j] : x = server'[j][k])
      BY <1>5
    <3> QED
      BY <3>1, <3>2
  <2>4. x \in Commands <=> x \in late \/ \E j \in Connections : \E k \in DOMAIN server[j] : x = server[j][k]
    BY InCommands
  <2>5. x \in Commands' <=> x \in late \/ \E j \in Connections : \E k \in DOMAIN server'[j] : x = server'[j][k]
    <3>1. late' = late
      OBVIOUS
    <3> QED
      BY <3>1, InCommands
  <2> QED
    BY <2>3, <2>4, <2>5
<1>7. \A d \in Calls \ {c} : Undisturbed(d)
  <2> SUFFICES ASSUME NEW d \in Calls \ {c}
               PROVE  Undisturbed(d)
    OBVIOUS
  <2>1. phase[d] = "sent" => via[d] # i /\ via[d] \in Connections
    <3>1. CASE IsRedis
      <4> SUFFICES ASSUME phase[d] = "sent"
                   PROVE  via[d] # i /\ via[d] \in Connections
        OBVIOUS
      <4>1. via[d] \in Connections
        BY <3>1 DEF IInv, CallInv, Connections
      <4>2. \A k \in DOMAIN server[via[d]] : server[via[d]][k].by = d
        BY <3>1 DEF IInv, RedisInv, Paired
      <4> QED
        BY <1>1, <4>1, <4>2
    <3>2. CASE ~IsRedis
      BY <1>1, <3>2 DEF IInv, CallInv, ServerInv, Queue, Connections
    <3> QED
      BY <3>1, <3>2
  <2>2. \A x : x.by = d => (x \in Commands' <=> x \in Commands)
    BY <1>6
  <2> QED
    BY <1>5, <2>1, <2>2 DEF Undisturbed
<1>8. phase[c] # "sent" /\ request[c].op = "get" => Undisturbed(c)
  BY DEF Undisturbed
<1>9. request[c].op = "set" => Left(c)' = Left(c) \ {m.at} /\ m.at \in Left(c)
  <2> SUFFICES ASSUME request[c].op = "set"
               PROVE  Left(c)' = Left(c) \ {m.at} /\ m.at \in Left(c)
    OBVIOUS
  <2>1. /\ \A x : x \in Left(c) <=> \E n \in Commands : n.by = c /\ n.at = x
        /\ \A x : x \in Left(c)' <=> \E n \in Commands' : n.by = c /\ n.at = x
    BY <1>3, RequestType, LeftIs
  <2>2. \A n \in Commands' : n.by = c => n.at # m.at
    <3> SUFFICES ASSUME NEW n \in Commands', n.by = c
                 PROVE  n.at # m.at
      OBVIOUS
    <3>1. n \notin late
      BY <1>1, CommandsApart
    <3>2. PICK j \in Connections : \E k \in DOMAIN server'[j] : n = server'[j][k]
      BY <3>1, InCommands
    <3>3. j = i
      <4>1. CASE j # i
        <5>1. \E k \in DOMAIN server[j] : n = server[j][k]
          BY <1>5, <3>2, <4>1
        <5> QED
          BY <1>1, <4>1, <5>1 DEF IInv, PlaceInv
      <4> QED
        BY <4>1
    <3>4. PICK k \in DOMAIN server[i] : n = server[i][k] /\ k # 1
      <4>1. PICK l \in DOMAIN server'[i] : n = server'[i][l]
        BY <3>2, <3>3
      <4>2. l + 1 \in DOMAIN server[i] /\ server[i][l + 1] = n /\ l + 1 # 1
        BY <1>1, <1>5, <4>1
      <4> QED
        BY <4>2
    <3> QED
      BY <1>1, <1>3, <3>4 DEF IInv, ServerInv, Queue
  <2>3. \A x : x \in Left(c)' <=> x \in Left(c) /\ x # m.at
    BY <1>2, <1>6, <2>1, <2>2
  <2>4. m.at \in Left(c)
    BY <1>2, <2>1
  <2>5. Left(c)' \subseteq Left(c) \ {m.at} /\ Left(c) \ {m.at} \subseteq Left(c)'
    BY <2>3
  <2> QED
    BY <2>4, <2>5
<1>10. request[c].op = "set" => Got(c) = <<>> /\ Got(c)' = <<>>
  BY <1>3, GotNothing
<1>11. Outcome(c)' = Outcome(c)
  BY <1>3, OutcomeFrame
<1> QED
  BY <1>2, <1>3, <1>4, <1>7, <1>8, <1>9, <1>10, <1>11 DEF Takes

LEMMA ServeSteps ==
    ASSUME IInv, IInv', NEW i \in Connections, Serve(i)
    PROVE  [Contract!Next]_(Contract!vars)
<1>1. PICK m : m = Head(server[i])
  OBVIOUS
<1>2. PICK c : c = m.by
  OBVIOUS
<1>3. /\ server[i] # <<>> /\ server' = [server EXCEPT ![i] = Tail(server[i])]
      /\ UNCHANGED <<url, request, phase, via, result, late>>
      /\ rows' = Apply(m)
      /\ replies' = [replies EXCEPT ![i] =
             IF m.op = "get" \/ IsRedis THEN replies[i] \o RepliesTo(m) ELSE replies[i]]
  BY <1>1 DEF Serve, call
<1>4. \A j \in Connections : j # i => replies'[j] = replies[j]
  BY <1>3 DEF IInv, TypeInv
<1>0. Takes(i, m, c)
  <2>1. server' = [server EXCEPT ![i] = Tail(server[i])] /\ server[i] # <<>>
    BY <1>3
  <2>2. UNCHANGED <<url, request, phase, via, result, late>>
    BY <1>3
  <2> QED
    BY <1>1, <1>2, <1>4, <2>1, <2>2, Taken
<1>5. /\ m \in Commands /\ c \in Calls
      /\ phase[c] = "sent" => via[c] = i
      /\ \A d \in Calls \ {c} : Undisturbed(d)
      /\ phase[c] # "sent" /\ request[c].op = "get" => Undisturbed(c)
      /\ request[c].op = "set" =>
             /\ Left(c)' = Left(c) \ {m.at} /\ m.at \in Left(c)
             /\ Got(c) = <<>> /\ Got(c)' = <<>>
             /\ Outcome(c)' = Outcome(c)
  BY <1>0 DEF Takes
<1>6. /\ WellFormed(m) /\ m.op = request[c].op /\ request[c] \in Requests /\ request[c] # None
      /\ request[c].op \in {"get", "set"} /\ m.key \in KeySet
  BY <1>2, <1>5, CommandsMade, RequestType DEF Message
<1>7. OthersSame(c)
  BY <1>3, <1>5, OthersFrame
<1>8. CASE request[c].op = "set"
  <2>1. rows' = [rows EXCEPT ![request[c].keys[m.at]] = request[c].values[m.at]]
    BY <1>2, <1>3, <1>6, <1>8 DEF Apply, WellFormed
  <2> QED
    BY <1>3, <1>5, <1>7, <1>8, <2>1, Writes
<1>9. CASE request[c].op = "get" /\ phase[c] # "sent"
  <2>1. rows' = rows
    BY <1>3, <1>6, <1>9 DEF Apply
  <2>2. \A d \in Calls : Undisturbed(d)
    BY <1>5, <1>9
  <2> QED
    BY <1>3, <2>1, <2>2, CallFrame, Stutters
<1>10. CASE request[c].op = "get" /\ phase[c] = "sent"
  <2> DEFINE keys == request[c].keys
             new == DOMAIN Got(c)' \ DOMAIN Got(c)
  <2>1. rows' = rows /\ Outcome(c) = Contract!Pending /\ Outcome(c)' = Contract!Pending
    BY <1>3, <1>5, <1>6, <1>10, PendingIs DEF Apply
  <2>2. Left(c)' = Left(c)
    BY <1>3, <1>10 DEF Left
  <2>3. /\ m = server[i][1] /\ 1 \in DOMAIN server[i] /\ replies[i] \in Seq(Replied)
        /\ Len(server[i]) \in Nat \ {0} /\ DOMAIN server[i] = 1..Len(server[i])
        /\ DOMAIN Tail(server[i]) = 1..(Len(server[i]) - 1)
        /\ \A k \in DOMAIN Tail(server[i]) :
               k + 1 \in DOMAIN server[i] /\ Tail(server[i])[k] = server[i][k + 1] /\ k + 1 # 1
        /\ DOMAIN replies[i] = 1..Len(replies[i]) /\ Len(replies[i]) \in Nat
    <3>1. server[i] \in Seq(Message) /\ replies[i] \in Seq(Replied)
      BY Sorts DEF IInv
    <3>2. /\ 1 \in DOMAIN server[i] /\ m = server[i][1]
          /\ Tail(server[i]) \in Seq(Message) /\ Len(Tail(server[i])) = Len(server[i]) - 1
          /\ Len(server[i]) \in Nat \ {0}
          /\ \A k \in DOMAIN Tail(server[i]) :
                 k + 1 \in DOMAIN server[i] /\ Tail(server[i])[k] = server[i][k + 1]
      BY <1>1, <1>3, <3>1, HeadTail
    <3>3. /\ DOMAIN Tail(server[i]) = 1..(Len(server[i]) - 1) /\ DOMAIN server[i] = 1..Len(server[i])
          /\ DOMAIN replies[i] = 1..Len(replies[i]) /\ Len(replies[i]) \in Nat
      BY <3>1, <3>2, Listed
    <3> QED
      BY <3>1, <3>2, <3>3
  <2>4. server'[i] = Tail(server[i]) /\ replies'[i] = replies[i] \o RepliesTo(m)
    BY <1>3, <1>6, <1>10 DEF IInv, TypeInv
  <2> DEFINE rep == replies[i] \o <<ReplyTo(m)>>
             n == Len(replies[i])
  <2>5. /\ rep \in Seq(Replied) /\ DOMAIN rep = 1..(n + 1)
        /\ rep[n + 1] = ReplyTo(m) /\ \A k \in 1..n : rep[k] = replies[i][k]
        /\ ReplyTo(m).key = m.key /\ ReplyTo(m).value = rows[m.key]
    <3>1. /\ ReplyTo(m) \in Replied /\ ReplyTo(m).key = m.key
          /\ ReplyTo(m).value = IF m.op = "set" THEN Ok ELSE rows[m.key]
      BY <1>5, CommandsMade, ReplyType DEF IInv
    <3> QED
      BY <1>6, <1>10, <2>3, <3>1, Extended
  <2>6. replies'[i] = IF IsRedis \/ rows[m.key] # None THEN rep ELSE replies[i]
    <3>1. replies[i] \o <<>> = replies[i]
      BY <2>3
    <3> QED
      BY <2>4, <3>1 DEF RepliesTo
  <2> HIDE DEF rep, n, keys
  <2>7. GotInv /\ GotInv' /\ url' = url /\ phase'[c] = "sent" /\ via'[c] = i /\ via[c] = i
        /\ request' = request
    BY <1>3, <1>5, <1>10, GotHolds, GotHoldsNext
  <2>8. /\ Got(c)' = [k \in DOMAIN Got(c)' |-> Got(c)'[k]]
        /\ Got(c) = [k \in DOMAIN Got(c) |-> Got(c)[k]]
        /\ DOMAIN Got(c) \subseteq DOMAIN keys
        /\ DOMAIN Got(c)' \subseteq DOMAIN keys
    BY <1>5, <1>10, <2>7 DEF GotInv, keys
  <2>9. /\ DOMAIN Got(c) \subseteq DOMAIN Got(c)'
        /\ \A k \in DOMAIN Got(c) : Got(c)'[k] = Got(c)[k]
        /\ \A k \in new : Got(c)'[k] = rows[keys[k]]
    <3>1. CASE IsRedis
      <4>1. /\ DOMAIN Got(c) = 1..n /\ \A k \in DOMAIN Got(c) : Got(c)[k] = replies[i][k].value
            /\ DOMAIN Got(c)' = 1..(n + 1)
            /\ \A k \in DOMAIN Got(c)' : Got(c)'[k] = rep[k].value
        <5>1. DOMAIN Got(c) = DOMAIN replies[i] /\ \A k \in DOMAIN Got(c) : Got(c)[k] = replies[i][k].value
          BY <1>5, <1>10, <2>7, <3>1 DEF GotInv
        <5>2. replies'[i] = rep /\ IsRedis'
          BY <2>6, <2>7, <3>1 DEF IsRedis
        <5>3. /\ DOMAIN Got(c)' = DOMAIN replies'[i]
              /\ \A k \in DOMAIN Got(c)' : Got(c)'[k] = replies'[i][k].value
          BY <1>5, <1>10, <2>7, <3>1, <5>2 DEF GotInv
        <5> QED
          BY <2>3, <2>5, <5>1, <5>2, <5>3 DEF n
      <4>2. n \in Nat /\ keys[n + 1] = m.key
        <5>1. Paired(c) /\ n \in Nat
          BY <1>5, <2>3 DEF IInv, RedisInv, n
        <5>2. m.at = n + 1 /\ m.key = keys[m.at]
          BY <1>10, <2>3, <2>7, <3>1, <5>1 DEF Paired, n, keys
        <5> QED
          BY <5>1, <5>2
      <4>3. \A k \in new : k = n + 1
        BY <4>1, <4>2
      <4> QED
        BY <2>5, <4>1, <4>2, <4>3
    <3>2. CASE ~IsRedis
      <4>1. c = i /\ KeysApart(c)
        BY <1>5, <1>10, <3>2 DEF IInv, CallInv, BigTableInv
      <4>2. /\ DOMAIN Got(c) = {k \in DOMAIN keys :
                   \A j \in DOMAIN server[i] : server[i][j].key # keys[k]}
            /\ \A k \in DOMAIN Got(c) :
                  /\ \A j \in DOMAIN replies[i] : replies[i][j].key = keys[k] =>
                         Got(c)[k] = replies[i][j].value
                  /\ (\A j \in DOMAIN replies[i] : replies[i][j].key # keys[k]) =>
                         Got(c)[k] = None
        <5>1. /\ DOMAIN Got(c) = {k \in DOMAIN request[c].keys :
                     \A j \in DOMAIN server[c] : server[c][j].key # request[c].keys[k]}
              /\ \A k \in DOMAIN Got(c) :
                    /\ \A j \in DOMAIN replies[c] : replies[c][j].key = request[c].keys[k] =>
                           Got(c)[k] = replies[c][j].value
                    /\ (\A j \in DOMAIN replies[c] : replies[c][j].key # request[c].keys[k]) =>
                           Got(c)[k] = None
          BY <1>5, <1>10, <3>2, GotBigTable
        <5> QED
          BY <4>1, <5>1 DEF keys
      <4>3. /\ DOMAIN Got(c)' = {k \in DOMAIN keys :
                   \A j \in DOMAIN server'[i] : server'[i][j].key # keys[k]}
            /\ \A k \in DOMAIN Got(c)' :
                  /\ \A j \in DOMAIN replies'[i] : replies'[i][j].key = keys[k] =>
                         Got(c)'[k] = replies'[i][j].value
                  /\ (\A j \in DOMAIN replies'[i] : replies'[i][j].key # keys[k]) =>
                         Got(c)'[k] = None
        <5>1. /\ DOMAIN Got(c)' = {k \in DOMAIN request'[c].keys :
                     \A j \in DOMAIN server'[c] : server'[c][j].key # request'[c].keys[k]}
              /\ \A k \in DOMAIN Got(c)' :
                    /\ \A j \in DOMAIN replies'[c] : replies'[c][j].key = request'[c].keys[k] =>
                           Got(c)'[k] = replies'[c][j].value
                    /\ (\A j \in DOMAIN replies'[c] : replies'[c][j].key # request'[c].keys[k]) =>
                           Got(c)'[k] = None
          BY <1>5, <1>10, <2>7, <3>2 DEF GotInv, IsRedis
        <5> QED
          BY <2>7, <4>1, <5>1 DEF keys
      <4>4. \A j \in DOMAIN server'[i] : \E l \in DOMAIN server[i] : server'[i][j] = server[i][l]
        BY <2>3, <2>4
      <4>5. \A l \in DOMAIN server[i] : server[i][l] = m \/ \E j \in DOMAIN server'[i] : server'[i][j] = server[i][l]
        <5> TAKE l \in DOMAIN server[i]
        <5>1. CASE l = 1
          BY <2>3, <5>1
        <5>2. CASE l # 1
          <6>1. l - 1 \in 1..(Len(server[i]) - 1) /\ (l - 1) + 1 = l
            BY <2>3, <5>2
          <6> QED
            BY <2>3, <2>4, <6>1
        <5> QED
          BY <5>1, <5>2
      <4>6. DOMAIN Got(c) \subseteq DOMAIN Got(c)'
        BY <4>2, <4>3, <4>4
      <4>7. \A k \in new : keys[k] = m.key
        <5> TAKE k \in new
        <5>1. PICK l \in DOMAIN server[i] : server[i][l].key = keys[k]
          BY <2>8, <4>2
        <5>2. ~\E j \in DOMAIN server'[i] : server'[i][j].key = keys[k]
          BY <4>3
        <5> QED
          BY <4>5, <5>1, <5>2
      <4>8. \A k \in DOMAIN Got(c) : keys[k] # m.key
        BY <2>3, <4>2
      <4>9. \A j \in DOMAIN replies[i] : replies[i][j].key # m.key
        BY <1>10, <2>3, <3>2, <4>1 DEF KeysApart
      <4>10. CASE rows[m.key] # None
        <5>1. replies'[i] = rep /\ DOMAIN rep = 1..(n + 1) /\ DOMAIN replies[i] = 1..n /\ n \in Nat
          BY <2>3, <2>5, <2>6, <4>10 DEF n
        <5>2. \A k \in new : Got(c)'[k] = rows[keys[k]]
          <6> TAKE k \in new
          <6>1. n + 1 \in DOMAIN replies'[i] /\ replies'[i][n + 1].key = keys[k]
                /\ replies'[i][n + 1].value = rows[keys[k]] /\ k \in DOMAIN Got(c)'
            BY <2>5, <4>7, <5>1
          <6> QED
            BY <4>3, <6>1
        <5>3. ASSUME NEW k \in DOMAIN Got(c)
              PROVE  Got(c)'[k] = Got(c)[k]
          <6>1. k \in DOMAIN Got(c)'
            BY <4>6
          <6>2. \A j \in 1..n : j \in DOMAIN replies'[i] /\ replies'[i][j] = replies[i][j]
            BY <2>5, <5>1
          <6>3. \A j \in DOMAIN replies'[i] : j \in 1..n \/ replies'[i][j].key = m.key
            BY <2>5, <5>1
          <6>4. CASE \E j \in 1..n : replies[i][j].key = keys[k]
            BY <4>2, <4>3, <5>1, <6>1, <6>2, <6>4
          <6>5. CASE \A j \in 1..n : replies[i][j].key # keys[k]
            <7>1. \A j \in DOMAIN replies'[i] : replies'[i][j].key # keys[k]
              BY <4>8, <6>2, <6>3, <6>5
            <7> QED
              BY <4>2, <4>3, <5>1, <6>1, <6>5, <7>1
          <6> QED
            BY <6>4, <6>5
        <5> QED
          BY <4>6, <5>2, <5>3
      <4>11. CASE rows[m.key] = None
        <5>1. replies'[i] = replies[i]
          BY <2>6, <3>2, <4>11
        <5>2. \A k \in new : Got(c)'[k] = rows[keys[k]]
          BY <4>3, <4>7, <4>9, <4>11, <5>1
        <5>3. ASSUME NEW k \in DOMAIN Got(c)
              PROVE  Got(c)'[k] = Got(c)[k]
          <6>1. k \in DOMAIN Got(c)'
            BY <4>6
          <6>2. CASE \E j \in DOMAIN replies[i] : replies[i][j].key = keys[k]
            BY <4>2, <4>3, <5>1, <6>1, <6>2
          <6>3. CASE \A j \in DOMAIN replies[i] : replies[i][j].key # keys[k]
            BY <4>2, <4>3, <5>1, <6>1, <6>3
          <6> QED
            BY <6>2, <6>3
        <5> QED
          BY <4>6, <5>2, <5>3
      <4> QED
        BY <4>10, <4>11
    <3> QED
      BY <3>1, <3>2
  <2>10. new \in SUBSET (DOMAIN keys \ DOMAIN Got(c)) /\ DOMAIN Got(c)' = DOMAIN Got(c) \cup new
    BY <2>8, <2>9
  <2>11. Got(c)' = [k \in DOMAIN Got(c) \cup new |->
                       IF k \in new THEN rows[keys[k]] ELSE Got(c)[k]]
    <3> HIDE DEF new
    <3> QED
      BY <2>8, <2>9, <2>10
  <2> HIDE DEF new
  <2>12. /\ new \in SUBSET (DOMAIN request[c].keys \ DOMAIN Got(c)) /\ request' = request
         /\ rows' = rows
    BY <2>1, <2>7, <2>10 DEF keys
  <2>13. Got(c)' = [k \in DOMAIN Got(c) \cup new |->
                       IF k \in new THEN rows[request[c].keys[k]] ELSE Got(c)[k]]
    BY <2>11 DEF keys
  <2> QED
    BY <1>5, <1>6, <1>7, <1>10, <2>1, <2>2, <2>7, <2>12, <2>13, Reads
<1> QED
  BY <1>6, <1>8, <1>9, <1>10

LEMMA EntryFailsSteps ==
    ASSUME IInv, NEW i \in Connections, EntryFails(i)
    PROVE  [Contract!Next]_(Contract!vars)
<1>1. PICK m : m = Head(server[i])
  OBVIOUS
<1>2. PICK c : c = m.by
  OBVIOUS
<1>3. /\ server[i] # <<>> /\ server' = [server EXCEPT ![i] = Tail(server[i])]
      /\ UNCHANGED <<url, request, phase, via, result, late>>
      /\ rows' = rows /\ replies' = replies /\ ~IsRedis /\ m.op = "set"
  BY <1>1 DEF EntryFails, call
<1>4. Takes(i, m, c)
  <2>1. server' = [server EXCEPT ![i] = Tail(server[i])] /\ server[i] # <<>>
    BY <1>3
  <2>2. UNCHANGED <<url, request, phase, via, result, late>>
    BY <1>3
  <2>3. \A j \in Connections : j # i => replies'[j] = replies[j]
    BY <1>3
  <2> QED
    BY <1>1, <1>2, <2>1, <2>2, <2>3, Taken
<1>5. /\ m \in Commands /\ c \in Calls /\ \A d \in Calls \ {c} : Undisturbed(d)
      /\ request[c].op = "set" =>
             /\ Left(c)' = Left(c) \ {m.at} /\ Got(c) = <<>> /\ Got(c)' = <<>>
             /\ Outcome(c)' = Outcome(c)
  BY <1>4 DEF Takes
<1>6. request[c].op = "set"
  BY <1>2, <1>3, <1>5, CommandsMade
<1>7. OthersSame(c)
  BY <1>3, <1>5, OthersFrame
<1> QED
  BY <1>3, <1>5, <1>6, <1>7, Loses

LEMMA ServeLateSteps ==
    ASSUME IInv, ServeLate
    PROVE  [Contract!Next]_(Contract!vars)
<1>1. PICK m \in late : /\ rows' \in {Apply(m), rows} /\ late' = late \ {m}
                        /\ UNCHANGED <<url, open, call, connection>>
  BY DEF ServeLate
<1>2. /\ url' = url /\ request' = request /\ phase' = phase /\ via' = via /\ result' = result
      /\ server' = server /\ replies' = replies
  BY <1>1 DEF call, connection
<1>3. PICK c : c = m.by
  OBVIOUS
<1>4. /\ m \in Commands /\ WellFormed(m) /\ m.op = "set" /\ c \in Calls
      /\ request[c] \in Requests /\ request[c] # None /\ request[c].op = "set"
      /\ phase[c] \in {"done", "failed", "dropped"}
  <2>1. m \in Commands
    BY InCommands
  <2>2. m.op = "set" /\ phase[m.by] # "sent"
    BY DEF IInv, LateInv
  <2> QED
    BY <1>3, <2>1, <2>2, CommandsMade, RequestType
<1>5. \A x : x \in Commands' <=> x \in Commands /\ x # m
  <2>1. \A j \in Connections : \A k \in DOMAIN server[j] : server[j][k] # m
    BY CommandsApart
  <2> QED
    BY <1>1, <1>2, <2>1, InCommands
<1>6. \A d \in Calls \ {c} : Undisturbed(d)
  BY <1>2, <1>3, <1>5 DEF Undisturbed
<1>7. OthersSame(c)
  BY <1>2, <1>4, <1>6, OthersFrame
<1>8. Got(c) = <<>> /\ Got(c)' = <<>> /\ Outcome(c)' = Outcome(c) /\ Outcome(c) # Contract!Pending
  BY <1>2, <1>4, GotNothing, OutcomeFrame, PendingIs
<1>9. Left(c)' = Left(c) \ {m.at} /\ m.at \in Left(c)
  <2>1. \A x : x \in Left(c) <=> \E n \in Commands : n.by = c /\ n.at = x
    BY <1>4, LeftIs
  <2>2. \A x : x \in Left(c)' <=> \E n \in Commands' : n.by = c /\ n.at = x
    BY <1>2, <1>4, LeftIs
  <2>3. ASSUME NEW n \in Commands, n.by = c, n.at = m.at
        PROVE  n = m
    <3>1. n \in late
      BY <1>3, <2>3, InCommands, CommandsApart
    <3> QED
      BY <1>3, <2>3, <3>1, CommandsApart
  <2>4. \A x : x \in Left(c)' <=> x \in Left(c) /\ x # m.at
    BY <1>3, <1>5, <2>1, <2>2, <2>3
  <2>5. Left(c)' \subseteq Left(c) \ {m.at} /\ Left(c) \ {m.at} \subseteq Left(c)'
    BY <2>4
  <2>6. m.at \in Left(c)
    BY <1>3, <1>4, <2>1
  <2> QED
    BY <2>5, <2>6
<1>10. CASE rows' = rows
  BY <1>2, <1>4, <1>7, <1>8, <1>9, <1>10, Loses
<1>11. CASE rows' = Apply(m)
  <2>1. rows' = [rows EXCEPT ![request[c].keys[m.at]] = request[c].values[m.at]]
    BY <1>3, <1>4, <1>11 DEF Apply, WellFormed
  <2> QED
    BY <1>2, <1>4, <1>7, <1>8, <1>9, <2>1, Writes
<1> QED
  BY <1>1, <1>10, <1>11

LEMMA InitSteps == Init => Contract!Init
<1> SUFFICES ASSUME Init
             PROVE  Contract!Init
  OBVIOUS
<1>1. /\ IsRedis \in BOOLEAN /\ rows \in [KeySet -> Values \cup {None}]
      /\ request = [c \in Calls |-> None] /\ phase = [c \in Calls |-> "idle"]
  BY DEF Init, IsRedis
<1>2. \A c \in Calls : Got(c) = <<>> /\ Left(c) = {} /\ Outcome(c) = Contract!Pending
  BY <1>1, GotNothing, PendingIs DEF Left
<1>3. /\ [c \in Calls |-> Got(c)] = [c \in Calls |-> <<>>]
      /\ [c \in Calls |-> Left(c)] = [c \in Calls |-> {}]
      /\ [c \in Calls |-> Outcome(c)] = [c \in Calls |-> Contract!Pending]
  BY <1>2
<1> QED
  BY <1>1, <1>3 DEF Contract!Init, Contract!Nothing

LEMMA NextSteps == IInv /\ IInv' /\ [Next]_vars => [Contract!Next]_(Contract!vars)
<1> SUFFICES ASSUME IInv, IInv', [Next]_vars
             PROVE  [Contract!Next]_(Contract!vars)
  OBVIOUS
<1>1. CASE UNCHANGED vars
  BY <1>1, OpenSteps DEF vars
<1>2. CASE NewRedis \/ NewBigTable \/ UnknownScheme
  BY <1>2, OpenSteps DEF NewRedis, NewBigTable, UnknownScheme
<1>3. CASE \E c \in Calls : Proceed(c) \/ Fail(c) \/ Drop(c)
  <2> PICK c \in Calls : Proceed(c) \/ Fail(c) \/ Drop(c)
    BY <1>3
  <2>1. CASE NewPipelined(c)
    BY <2>1, NewPipelinedSteps
  <2>2. CASE ExecuteRedis(c)
    BY <2>2, ExecuteRedisSteps
  <2>3. CASE ExecuteBigTable(c)
    BY <2>3, ExecuteBigTableSteps
  <2>4. CASE \E i \in Pool : CheckOut(c, i) \/ Discard(c, i)
    BY <2>4, CheckOutSteps, DiscardSteps
  <2>5. CASE ReturnRedis(c)
    BY <2>5, ReturnRedisSteps
  <2>6. CASE ReturnBigTable(c)
    BY <2>6, ReturnBigTableSteps
  <2>7. CASE Fail(c) \/ Drop(c)
    BY <2>7, FailSteps
  <2> QED
    BY <2>1, <2>2, <2>3, <2>4, <2>5, <2>6, <2>7 DEF Proceed
<1>4. CASE \E i \in Connections : Serve(i) \/ EntryFails(i)
  BY <1>4, ServeSteps, EntryFailsSteps
<1>5. CASE ServeLate
  BY <1>5, ServeLateSteps
<1>6. CASE AllEnded
  BY <1>6, OpenSteps DEF AllEnded, vars
<1> QED
  BY <1>1, <1>2, <1>3, <1>4, <1>5, <1>6 DEF Next

\* Both stores implement the promise of the traits: whatever connections fail,
\* calls are dropped and servers leave undone, a get that succeeds has for each
\* of its positions what the row of that key was at some moment of the call, and
\* a set on Redis that succeeds has set everything.
THEOREM Kept == Spec => KeepsContract
<1>1. IInv /\ IInv' /\ [Next]_vars => [Contract!Next]_(Contract!vars)
  BY NextSteps
<1> QED
  BY <1>1, InitSteps, Invariance, PTL DEF Spec, KeepsContract, Contract!Spec
===============================================================================
