----------------------------- MODULE MCAuditLog -----------------------------
(* Instances of AuditLog for TLC *)
EXTENDS AuditLog, TLC

CONSTANTS w1, w2, w3, w4, k1, k2

Fixed   == <<{w1, w2, w3}>>
Rotated == <<{w1, w2, w3}, {w2, w3, w4}>>

(* Witnesses that are members in the same epochs are alike. *)
AlikeFixed == Permutations({w1, w2, w3})
=============================================================================
