--------------------------- MODULE LeaseContract ---------------------------
(***************************************************************************)
(* What the runner queue promises about each job: leases are granted one   *)
(* at a time and numbered, a lease may be revoked at any time, and a job   *)
(* gets at most one verdict, which is final and comes from the lease that  *)
(* is current when it is decided.                                          *)
(***************************************************************************)
EXTENDS Integers

CONSTANTS Jobs, Hosts, Outcomes, NULL

VARIABLE state   \* per job: leases granted so far, the current one, the verdict

Grant(s, t) ==
  /\ s.lease = NULL /\ s.verdict = NULL
  /\ \E h \in Hosts :
       t = [granted |-> s.granted + 1, verdict |-> NULL,
            lease |-> [host |-> h, number |-> s.granted + 1]]

Revoke(s, t) == t = [s EXCEPT !.lease = NULL]

Decide(s, t) ==
  /\ s.lease # NULL /\ s.verdict = NULL
  /\ \E o \in Outcomes :
       t = [granted |-> s.granted, lease |-> NULL,
            verdict |-> [by |-> s.lease, outcome |-> o]]

JobStep(s, t) == t = s \/ Grant(s, t) \/ Revoke(s, t) \/ Decide(s, t)

Init == state = [j \in Jobs |-> [granted |-> 0, lease |-> NULL, verdict |-> NULL]]

(* One step of the system may move several jobs. *)
Next == /\ DOMAIN state' = Jobs
        /\ \A j \in Jobs : JobStep(state[j], state'[j])

Spec == Init /\ [][Next]_state
=============================================================================
