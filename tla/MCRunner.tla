------------------------------ MODULE MCRunner ------------------------------
(* Runner on small instances, in which runs and process ids are interchangeable. *)
EXTENDS Runner, TLC

\* The faults whose run nobody accounts for: no executor is created, or its failure
\* cannot be written.
SilentFaults == {"refreshing", "rejecting", "failing"}

\* The faults after which the service still records what became of the run.
ReportedFaults == {"loading", "importing", "preparing", "spawning", "recording",
                   "streaming", "finalizing", "cancel", "crash"}

SlotFaults == SilentFaults \cup {"importing", "crash"}

Symmetry == Permutations(Runs) \cup Permutations(Pids)
=============================================================================
