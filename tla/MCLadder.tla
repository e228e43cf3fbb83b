------------------------------ MODULE MCLadder ------------------------------
(* Small instances of Ladder for TLC. *)
EXTENDS Ladder

Exact == [direction |-> "maximize", baseline |-> 0, minimumDelta |-> 1,
          tolerance |-> 0]
Tolerant == [direction |-> "minimize", baseline |-> 3, minimumDelta |-> 2,
             tolerance |-> 1]

OneVersion      == {"v1"}
OneHost         == {"h1"}
OneGroup        == [h \in OneHost |-> "g1"]
TwoHosts        == {"h1", "h2"}
PairOfGroups    == [h \in TwoHosts |-> IF h = "h1" THEN "g1" ELSE "g2"]
TwoIntents      == 1..2
ThreeIntents    == 1..3
OnVersion1      == [i \in Intents |-> "v1"]
TwoOwners       == [i \in Intents |-> IF i = 1 THEN "alice" ELSE "bob"]
OwnArtifact     == [i \in Intents |-> i]
FirstPrivate    == [i \in Intents |-> i # 1]
PlatformRule    == [v \in Versions |-> "platform"]
IndependentRule == [v \in Versions |-> "independent"]
ExactAll        == [v \in Versions |-> Exact]
TolerantMinimum == [v \in Versions |-> Tolerant]
MilestoneAt2    == [v \in Versions |-> [m \in Milestones |-> 2]]
NoRequirement   == [v \in Versions |-> {}]
FirstMeasured   == [v \in Versions |-> {"m1"}]
=============================================================================
