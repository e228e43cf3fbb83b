---------------------------- MODULE MCWorkQueue -----------------------------
(* Two processes, one receipt, one email.  The two outboxes share only their  *)
(* processes, so each is explored from a reachable state in which the other   *)
(* has drained: the receipt signed by the first attempt, or the notice        *)
(* cancelled before it was sent.                                              *)
EXTENDS WorkQueue

CONSTANTS w1, w2, r1, n1

ReceiptsSigned ==
  /\ task = [r \in Receipts |-> [status |-> "complete", attempts |-> 1]]
  /\ envelope = [r \in Receipts |-> 1]
  /\ notice = [n \in Notices |-> [status |-> "none", attempts |-> 0,
                                  token |-> 0]]

NoticesCancelled ==
  /\ task = [r \in Receipts |-> [status |-> "none", attempts |-> 0]]
  /\ envelope = [r \in Receipts |-> 0]
  /\ notice = [n \in Notices |-> [status |-> "cancelled", attempts |-> 1,
                                  token |-> 1]]

OneOutbox ==
  /\ ReceiptsSigned \/ NoticesCancelled
  /\ leased = {} /\ wanted = {}
  /\ hand = [w \in Workers |-> Idle]
  /\ sending = [w \in Workers |-> Idle]
  /\ configured \in SUBSET Workers
  /\ delivered = [n \in Notices |-> 0]
  /\ acknowledged = [n \in Notices |-> 0]
  /\ retries = 0 /\ faults = 0

OneOutboxSpec == OneOutbox /\ [][Next]_vars /\ Fairness
=============================================================================
