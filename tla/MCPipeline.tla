----------------------------- MODULE MCPipeline ------------------------------
(***************************************************************************)
(* Instances of Pipeline for TLC.  The bounds are in the .cfg files: one   *)
(* slot per channel and two workers are enough for every queue to be full  *)
(* at once, and MaxRows for several chunks, a partial final chunk, an      *)
(* exact multiple of the chunk size and an empty input.                    *)
(***************************************************************************)
EXTENDS Pipeline
==============================================================================
