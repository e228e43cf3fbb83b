------------------------------ MODULE MCIntake ------------------------------
(* A small instance of Intake for TLC: two commits with the same content.     *)
EXTENDS Intake, TLC

CONSTANTS ann, c1, c2, x, y, d1, q1

Raised == [direction |-> "maximize", baseline |-> 0, minimumDelta |-> 2,
           tolerance |-> 0]
ByAnn == [k \in Candidates |-> ann]
Claim(o, c, a) == [owner |-> o, commit |-> c, artifact |-> a, ticks |-> 2]
SomeClaims == {Claim(ann, c1, x), Claim(ann, c2, x), Claim(ann, c2, y)}
SameContent == [c \in Commits |-> x]
=============================================================================
