--------------------------- MODULE GeocoderContract ---------------------------
(***************************************************************************)
(* What the trait Geocoder of src/src/geocoders/mod.rs promises to those   *)
(* who call it concurrently: a call ends once, with an error or with one   *)
(* result for each of its addresses, in their order, and a result is None  *)
(* or a row of values for that very address under the announced columns.   *)
(***************************************************************************)
EXTENDS Naturals, Sequences

CONSTANTS
    Calls,
    Requests,      \* the lists of addresses a call may be for
    Configurations,
    IsResult(_, _, _) \* whether a geocoder of this configuration may give
                      \* this result for this address

VARIABLES
    configuration, \* of the geocoder, fixed from the start
    asked,         \* per call: the addresses
    outcome        \* per call: how it ended

vars == <<configuration, asked, outcome>>

Pending == [kind |-> "pending", results |-> <<>>]
Error == [kind |-> "error", results |-> <<>>]
Dropped == [kind |-> "dropped", results |-> <<>>]

Init ==
    /\ configuration \in Configurations
    /\ asked = [c \in Calls |-> <<>>]
    /\ outcome = [c \in Calls |-> Pending]

Ask(c) ==
    /\ asked[c] = <<>> /\ outcome[c] = Pending
    /\ \E r \in Requests : asked' = [asked EXCEPT ![c] = r]
    /\ UNCHANGED <<configuration, outcome>>

Answers(results, addresses) ==
    /\ DOMAIN results = DOMAIN addresses
    /\ \A i \in DOMAIN results : IsResult(configuration, results[i], addresses[i])

End(c) ==
    /\ outcome[c] = Pending
    /\ \/ outcome'[c] \in {Error, Dropped}
       \/ /\ outcome'[c].kind = "ok"
          /\ Answers(outcome'[c].results, asked[c])
    /\ \A d \in Calls \ {c} : outcome'[d] = outcome[d]
    /\ UNCHANGED <<configuration, asked>>

Next == \E c \in Calls : Ask(c) \/ End(c)

Spec == Init /\ [][Next]_vars
==============================================================================
