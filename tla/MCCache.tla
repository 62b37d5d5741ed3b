------------------------------- MODULE MCCache -------------------------------
(***************************************************************************)
(* Instances of Cache for TLC, with the keys of CacheKeys: two calls, two  *)
(* addresses whose keys are easily confused, another spelling of the first *)
(* one, and two configurations of Smarty.  The batches are an empty one,   *)
(* one with two keys and one that has a key twice.  A key is represented   *)
(* by one of the pairs that have it.                                       *)
(***************************************************************************)
EXTENDS Cache, CacheKeys

\* Two bytes are taken to be enough to tell configurations apart.
MCHash(bytes) == bytes

AddressOf ==
    [a |-> [street |-> <<":", "A">>, city |-> <<>>, state |-> <<>>,
            zipcode |-> <<<<"a", "\\">>>>],
     a2 |-> [street |-> <<":", "a">>, city |-> <<<<>>>>, state |-> <<>>,
             zipcode |-> <<<<"A", "\\">>>>],
     b |-> [street |-> <<"a">>, city |-> <<>>, state |-> <<>>,
            zipcode |-> <<<<"a", ":", "\\">>>>]]

Columns == <<<<"plus4">>, <<"zip">>>>
GeocoderOf ==
    [strict |-> Smarty(Columns, "strict", <<"rooftop">>),
     range |-> Smarty(Columns, "range", <<"rooftop">>)]

MCSame(x, y) == EqIgnoreAsciiCase(AddressOf[x], AddressOf[y])

Pairs == {"strict", "range"} \X {"a", "a2", "b"}
CacheKeyOf == [p \in Pairs |-> CacheKey(GeocoderOf[p[1]], AddressOf[p[2]])]
MCKeyOf == [p \in Pairs |-> CHOOSE q \in Pairs : CacheKeyOf[q] = CacheKeyOf[p]]
MCKeys == {MCKeyOf[p] : p \in Pairs}

MCFound == [a |-> {TRUE}, a2 |-> {TRUE, FALSE}, b |-> {FALSE}]
MCBatches == {<<>>, <<"b", "a">>, <<"a2", "a">>}

Run(prefix, inner, hitsOnly, outputKeys) ==
    [prefix |-> prefix, inner |-> inner, hitsOnly |-> hitsOnly,
     outputKeys |-> outputKeys]

\* The first process next to one like it, to one that reads the cache only, and
\* to one that is configured differently.
First == Run("p", "strict", FALSE, TRUE)
Others == {First, Run("p", "strict", TRUE, FALSE), Run("p", "range", TRUE, FALSE)}
Second == CHOOSE c \in Calls : TRUE
MCProcesses == {[c \in Calls |-> IF c = Second THEN o ELSE First] : o \in Others}
MCOldSlots == {<<"p", MCKeyOf[<<"strict", "a">>]>>}

\* Two deployments that share a store.
Deployments == {Run("p", "strict", FALSE, FALSE), Run("q", "strict", FALSE, FALSE)}
TwoDeployments == [Calls -> Deployments]
NoSlots == {}
==============================================================================
