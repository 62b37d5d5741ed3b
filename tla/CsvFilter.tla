------------------------------ MODULE CsvFilter ------------------------------
(***************************************************************************)
(* What `geocode-csv < in.csv > out.csv` promises about its output,        *)
(* whatever threads, channels and workers it uses inside: the output grows *)
(* record by record in the order of the input, and the process reports     *)
(* success only when the header and every row of the input are in it.      *)
(* Record 0 is the header; record n is the geocoded n-th input row.        *)
(***************************************************************************)
EXTENDS Naturals, Sequences

CONSTANT MaxRows

VARIABLES
    numRows,  \* rows of the input, fixed from the start
    output,   \* the records produced so far
    exit      \* how the process ended, "running" until then

vars == <<numRows, output, exit>>

\* The first n records of the complete output.
FirstRecords(n) == [i \in 1..n |-> i - 1]

Init ==
    /\ numRows \in 0..MaxRows
    /\ output = FirstRecords(0)
    /\ exit = "running"

\* Some records are appended, in input order.
Extend ==
    /\ exit = "running"
    /\ \E n \in Len(output)..(numRows + 1) : output' = FirstRecords(n)
    /\ UNCHANGED <<numRows, exit>>

\* The filter succeeds, with nothing missing from its output.
Succeed ==
    /\ exit = "running"
    /\ output = FirstRecords(numRows + 1)
    /\ exit' = "ok"
    /\ UNCHANGED <<numRows, output>>

\* The filter fails, with any prefix of the records in its output.
Fail ==
    /\ exit = "running"
    /\ exit' \in {"err", "panic"}
    /\ UNCHANGED <<numRows, output>>

Next == Extend \/ Succeed \/ Fail

Spec == Init /\ [][Next]_vars
==============================================================================
