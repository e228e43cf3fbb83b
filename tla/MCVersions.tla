----------------------------- MODULE MCVersions -----------------------------
(* Small instances of Versions for TLC. *)
EXTENDS Versions

TwoVersions == 1..2

(* The state in which the first version has just been published; its          *)
(* successors start from nothing.                                             *)
FirstPublished ==
  /\ status = [v \in VersionIds |-> IF v = 1 THEN "published" ELSE "none"]
  /\ review = [v \in VersionIds |-> IF v = 1 THEN "automated_pass" ELSE "pending"]
  /\ intake = [v \in VersionIds |-> IF v = 1 THEN "open" ELSE "unavailable"]
  /\ lock = [v \in VersionIds |-> IF v = 1 THEN "signed" ELSE "none"]
  /\ preflight = [v \in VersionIds |-> [p \in Preflights |->
                    IF v = 1 /\ p = 1 THEN "pass" ELSE "none"]]
  /\ build = [v \in VersionIds |-> [p \in Preflights |->
                    IF v = 1 /\ p = 1 THEN "complete" ELSE "none"]]
  /\ machine = [v \in VersionIds |-> [p \in Preflights |->
                    IF v = 1 /\ p = 1 THEN "signed" ELSE "none"]]
  /\ task = [v \in VersionIds |-> [k \in Kinds |->
                    IF v = 1 /\ k = "initial" THEN "complete" ELSE "none"]]
  /\ tries = [v \in VersionIds |-> [k \in Kinds |-> 0]]
  /\ asking = [v \in VersionIds |-> {}]
  /\ request = [v \in VersionIds |-> [made |-> 0, queued |-> FALSE]]
  /\ latest = [v \in VersionIds |-> IF v = 1
                 THEN [outcome |-> "automated_pass", accepted |-> v \in V2]
                 ELSE NoRun]
  /\ approval = [v \in VersionIds |-> "none"]
  /\ runs = [v \in VersionIds |-> IF v = 1 THEN 1 ELSE 0]
  /\ boundRuns = [v \in VersionIds |-> IF v = 1 THEN 1 ELSE 0]
  /\ decisions = 0
  /\ VersionsInit

FromPublished == FirstPublished /\ [][Next]_vars /\ Fairness
=============================================================================
