----------------------------- MODULE MCHosts -----------------------------
EXTENDS Hosts

\* The host's own profile without capabilities and one profile with long jobs.
MCMaxJob == <<0, 4>>

\* A v1 job of each kind, and v2 jobs that do and do not fit the second profile.
MCJobs ==
    {[purpose |-> pu, v2 |-> FALSE, timeout |-> 1, fixtures |-> 1] :
        pu \in {"preflight", "submission"}}
    \cup {[purpose |-> "artifact_prepare", v2 |-> TRUE, timeout |-> 1, fixtures |-> 1],
          [purpose |-> "preflight", v2 |-> TRUE, timeout |-> 1, fixtures |-> 1],
          [purpose |-> "confirmation", v2 |-> TRUE, timeout |-> 3, fixtures |-> 1]}
===========================================================================
