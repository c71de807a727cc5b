---------------------------- MODULE MCRunConsole ----------------------------
(* RunConsole on small instances. *)
EXTENDS RunConsole

\* A run that cannot be loaded, one whose process is left behind, a killed server.
ConsoleFaults == {"loading", "streaming", "crash"}
=============================================================================
