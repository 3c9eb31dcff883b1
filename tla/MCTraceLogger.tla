--------------------------- MODULE MCTraceLogger ---------------------------
(* Instances of TraceLogger for TLC. *)
EXTENDS TraceLogger, TLC

CONSTANTS t1, t2

MCThreads == {t1, t2}
Symmetry  == Permutations(MCThreads)

\* A record with everything, and one of a higher level without a place.
MCRecords ==
  {[level |-> "Error", module_path |-> "module", file |-> "file", line |-> 7],
   [level |-> "Trace", module_path |-> "module", file |-> None, line |-> None]}
MCLevels  == {0, 2, 5}
=============================================================================
