--------------------------- MODULE MCRunnerLease ---------------------------
(* Small instances of RunnerLease for TLC. *)
EXTENDS RunnerLease

OneJob   == {"j1"}
TwoHosts == {"h1", "h2"}
=============================================================================
