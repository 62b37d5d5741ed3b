------------------------------ MODULE MCStores --------------------------------
(***************************************************************************)
(* An instance of Stores for TLC: more calls than connections, two keys,   *)
(* requests in another order than that of the keys and with a key twice.   *)
(***************************************************************************)
EXTENDS Stores

MCKeys == <<"k1", "k2">>

Get(keys) == [op |-> "get", keys |-> keys, values |-> <<>>]
Set(keys, values) == [op |-> "set", keys |-> keys, values |-> values]

MCRequests ==
    {Get(<<"k2", "k1">>), Get(<<"k1", "k1">>),
     Set(<<"k1", "k2">>, <<"v", "w">>), Set(<<"k2", "k2">>, <<"v", "w">>)}

Url(scheme, host, segments) ==
    [scheme |-> scheme, host |-> host, segments |-> segments]

MCUrls ==
    {Url("redis", TRUE, 0), Url("bigtable", TRUE, 2), Url("bigtable", TRUE, 1),
     Url("memcached", TRUE, 0)}
==============================================================================
