------------------------------ MODULE MCNewRelic ------------------------------
(***************************************************************************)
(* Instances of NewRelic for TLC: two tasks report while two counters and  *)
(* a histogram change; three reports are the fewest in which what a report *)
(* remembers can go wrong and be seen.  One counter is counted up, and one *)
(* is only registered, as that of cache misses is when there are none.     *)
(***************************************************************************)
EXTENDS NewRelic

MCMaxCount == [hits |-> 2, misses |-> 0]
==============================================================================
