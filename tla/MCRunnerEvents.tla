--------------------------- MODULE MCRunnerEvents ---------------------------
(***************************************************************************)
(* Three batches over two runners: enough for a spool of several batches   *)
(* to be replayed in part, and for a runner to number on from another.     *)
(***************************************************************************)
EXTENDS RunnerEvents
=============================================================================
