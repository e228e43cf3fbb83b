----------------------------- MODULE WorkQueue ------------------------------
(***************************************************************************)
(* The durable side effects of the control plane: the outbox of tasks that *)
(* the worker processes lease, run and retry, taken here with the task     *)
(* that signs a receipt, and the outbox of editor emails, which must not   *)
(* be repeated because nobody can tell whether a lost send was delivered.  *)
(*                                                                         *)
(* Any number of worker processes run both loops.  A process may be paused *)
(* for longer than its lease and go on afterwards, or stop for ever.       *)
(***************************************************************************)
EXTENDS Naturals, FiniteSets

CONSTANTS
  Workers,       \* worker processes
  Receipts,      \* receipts; each has one sign_receipt task
  Notices,       \* rows of review_notifications
  MaxAttempts,   \* attempts before a task, or an email, is given up (8)
  MaxFaults,     \* bound: crashes, lost leases, lost answers, failed reads
  MaxRetries     \* bound: retries an editor asks for

ASSUME QueueAssumption ==
  /\ MaxAttempts \in Nat \ {0} /\ MaxFaults \in Nat /\ MaxRetries \in Nat
  /\ IsFiniteSet(Workers)

VARIABLES
  task,          \* jobs rows: status and attempts; the attempt is the token
  leased,        \* tasks whose lease_expires_at lies in the future
  hand,          \* what each process does with its task
  envelope,      \* receipts.envelope: the attempt that signed it, 0 for NULL
  notice,        \* review_notifications rows
  sending,       \* the email each process is sending
  configured,    \* processes whose settings pass reviewEmailReady
  wanted,        \* notices whose review still waits for an editor
  delivered,     \* emails the provider took for a notice (external)
  acknowledged,  \* retries for which the editor accepted a duplicate
  retries,       \* retries asked for
  faults         \* faults so far

taskVars == <<task, leased, hand, envelope>>
mailVars == <<notice, sending, configured, wanted, delivered, acknowledged,
              retries>>
vars == <<taskVars, mailVars, faults>>

-----------------------------------------------------------------------------
(* Types *)

Idle       == [row |-> "none", token |-> 0, step |-> "idle"]
TaskStatus == {"none", "queued", "running", "retry", "complete",
               "attention_required"}
NoticeStatus == {"none", "pending", "sending", "accepted", "failed",
                 "uncertain", "cancelled"}
HandSteps    == {"idle", "started", "signing", "succeeded", "failed"}
SendSteps    == {"idle", "started", "posting", "accepted", "refused",
                 "rejected", "lost", "unloaded", "inactive"}

QueueTypeOK ==
  /\ task \in [Receipts -> [status : TaskStatus, attempts : Nat]]
  /\ leased \subseteq Receipts
  /\ hand \in [Workers -> [row : Receipts \cup {"none"}, token : Nat,
                           step : HandSteps]]
  /\ envelope \in [Receipts -> Nat]
  /\ notice \in [Notices -> [status : NoticeStatus, attempts : Nat,
                             token : Nat]]
  /\ sending \in [Workers -> [row : Notices \cup {"none"}, token : Nat,
                              step : SendSteps]]
  /\ configured \subseteq Workers
  /\ wanted \subseteq Notices
  /\ delivered \in [Notices -> Nat]
  /\ acknowledged \in [Notices -> Nat]
  /\ retries \in 0..MaxRetries
  /\ faults \in 0..MaxFaults

Init ==
  /\ task = [r \in Receipts |-> [status |-> "none", attempts |-> 0]]
  /\ leased = {}
  /\ hand = [w \in Workers |-> Idle]
  /\ envelope = [r \in Receipts |-> 0]
  /\ notice = [n \in Notices |-> [status |-> "none", attempts |-> 0,
                                  token |-> 0]]
  /\ sending = [w \in Workers |-> Idle]
  /\ configured \in SUBSET Workers
  /\ wanted = {}
  /\ delivered = [n \in Notices |-> 0]
  /\ acknowledged = [n \in Notices |-> 0]
  /\ retries = 0
  /\ faults = 0

Fault == faults < MaxFaults /\ faults' = faults + 1

-----------------------------------------------------------------------------
(* The outbox of tasks *)

(* A request's transaction stores its receipt, its task and, under its        *)
(* idempotency key, its answer (mutate, enqueue); a repeated request gets the *)
(* stored answer and changes nothing.                                         *)
Request(r) ==
  /\ task[r].status = "none"
  /\ task' = [task EXCEPT ![r].status = "queued"]
  /\ UNCHANGED <<leased, hand, envelope, mailVars, faults>>

(* Seeded fault: a lease that ran out is not taken over. *)
DueQueued(r) == task[r].status \in {"queued", "retry"}

(* workOne takes a task that is due, or one whose lease ran out.              *)
Due(r) ==
  \/ task[r].status \in {"queued", "retry"}
  \/ task[r].status = "running" /\ r \notin leased

Pick(w, r) ==
  /\ hand[w] = Idle
  /\ Due(r)
  /\ task' = [task EXCEPT ![r].status = "running", ![r].attempts = @ + 1]
  /\ leased' = leased \cup {r}
  /\ hand' = [hand EXCEPT ![w] = [row |-> r, token |-> task[r].attempts + 1,
                                  step |-> "started"]]
  /\ UNCHANGED <<envelope, mailVars, faults>>

(* signReceipt: a receipt that has its envelope is left as it is ...          *)
ReadReceipt(w) ==
  /\ hand[w].step = "started"
  /\ hand' = [hand EXCEPT ![w].step =
       IF envelope[hand[w].row] = 0 THEN "signing" ELSE "succeeded"]
  /\ UNCHANGED <<task, leased, envelope, mailVars, faults>>

(* Seeded fault: a later signature replaces the stored one. *)
Overwrites(w) == [envelope EXCEPT ![hand[w].row] = hand[w].token]

(* ... and the update applies only while it is still NULL.                    *)
Stores(w) ==
  [envelope EXCEPT ![hand[w].row] = IF @ = 0 THEN hand[w].token ELSE @]

StoreEnvelope(w) ==
  /\ hand[w].step = "signing"
  /\ envelope' = Stores(w)
  /\ \/ hand' = [hand EXCEPT ![w].step = "succeeded"] /\ UNCHANGED faults
     \/ hand' = [hand EXCEPT ![w].step = "failed"] /\ Fault
  /\ UNCHANGED <<task, leased, mailVars>>

(* No signer, a database error, a payload that does not match its digest.     *)
FailTask(w) ==
  /\ hand[w].step \in {"started", "signing"}
  /\ hand' = [hand EXCEPT ![w].step = "failed"]
  /\ UNCHANGED <<task, leased, envelope, mailVars, faults>>

(* The status of a task changes only under the token of the latest lease.     *)
HoldsToken(w) == task[hand[w].row].attempts = hand[w].token

Verdict(w) ==
  IF hand[w].step = "succeeded" THEN "complete"
  ELSE IF hand[w].token >= MaxAttempts THEN "attention_required" ELSE "retry"

FinishTask(w) ==
  /\ hand[w].step \in {"succeeded", "failed"}
  /\ IF HoldsToken(w)
     THEN /\ task' = [task EXCEPT ![hand[w].row].status = Verdict(w)]
          /\ leased' = leased \ {hand[w].row}
     ELSE UNCHANGED <<task, leased>>
  /\ hand' = [hand EXCEPT ![w] = Idle]
  /\ UNCHANGED <<envelope, mailVars, faults>>

(* Ten minutes pass while the process is paused or gone.                      *)
LoseLease(r) ==
  /\ task[r].status = "running" /\ r \in leased
  /\ Fault
  /\ leased' = leased \ {r}
  /\ UNCHANGED <<task, hand, envelope, mailVars>>

(* A process dies; its leases run out.                                        *)
Crash(w) ==
  /\ hand[w] # Idle \/ sending[w] # Idle
  /\ Fault
  /\ hand' = [hand EXCEPT ![w] = Idle]
  /\ sending' = [sending EXCEPT ![w] = Idle]
  /\ leased' = {r \in leased : ~(hand[w].row = r /\ HoldsToken(w))}
  /\ UNCHANGED <<task, envelope, notice, configured, wanted, delivered,
                 acknowledged, retries>>

-----------------------------------------------------------------------------
(* The outbox of editor emails *)

(* A process is stopped between two ticks and started with other settings:    *)
(* the key, the addresses and the origin are read once, from its environment. *)
Configure(w) ==
  /\ hand[w] = Idle /\ sending[w] = Idle
  /\ configured' = (configured \ {w}) \cup ({w} \ configured)
  /\ UNCHANGED <<taskVars, notice, sending, wanted, delivered, acknowledged,
                 retries, faults>>

(* The trigger on challenge_versions and candidates: a row per transition     *)
(* into human_review_required; testReviewEmail inserts a row too.             *)
Notify(n) ==
  /\ notice[n].status = "none"
  /\ notice' = [notice EXCEPT ![n].status = "pending"]
  /\ wanted' = wanted \cup {n}
  /\ UNCHANGED <<taskVars, configured, sending, delivered, acknowledged,
                 retries, faults>>

(* An editor decides, or the proposal is adopted.                             *)
Resolve(n) ==
  /\ n \in wanted
  /\ wanted' = wanted \ {n}
  /\ UNCHANGED <<taskVars, configured, notice, sending, delivered,
                 acknowledged, retries, faults>>

(* A process without settings returns at once and takes nothing.              *)
PickNotice(w, n) ==
  /\ w \in configured
  /\ sending[w] = Idle
  /\ notice[n].status = "pending"
  /\ notice' = [notice EXCEPT ![n].status = "sending",
                              ![n].attempts = @ + 1, ![n].token = @ + 1]
  /\ sending' = [sending EXCEPT ![w] = [row |-> n,
                   token |-> notice[n].token + 1, step |-> "started"]]
  /\ UNCHANGED <<taskVars, configured, wanted, delivered, acknowledged,
                 retries, faults>>

(* notificationContent reads whether the review still waits.                  *)
LoadNotice(w) ==
  /\ sending[w].step = "started"
  /\ \/ /\ sending' = [sending EXCEPT ![w].step =
             IF sending[w].row \in wanted THEN "posting" ELSE "inactive"]
        /\ UNCHANGED faults
     \/ sending' = [sending EXCEPT ![w].step = "unloaded"] /\ Fault
  /\ UNCHANGED <<taskVars, configured, notice, wanted, delivered,
                 acknowledged, retries>>

(* SendGrid takes the message and its 202 arrives, or the answer is lost ...  *)
PostTaken(w) ==
  /\ sending[w].step = "posting"
  /\ delivered' = [delivered EXCEPT ![sending[w].row] = @ + 1]
  /\ \/ sending' = [sending EXCEPT ![w].step = "accepted"] /\ UNCHANGED faults
     \/ sending' = [sending EXCEPT ![w].step = "lost"] /\ Fault
  /\ UNCHANGED <<taskVars, configured, notice, wanted, acknowledged,
                 retries>>

(* ... or does not take it: busy (429, 5xx), refused for good, unreachable.   *)
PostRefused(w) ==
  /\ sending[w].step = "posting"
  /\ \E step \in {"refused", "rejected", "lost"} :
       sending' = [sending EXCEPT ![w].step = step]
  /\ UNCHANGED <<taskVars, configured, notice, wanted, delivered,
                 acknowledged, retries, faults>>

(* Seeded fault: a send whose answer was lost is tried again. *)
RetriesLost(w) ==
  CASE sending[w].step = "accepted" -> "accepted"
    [] sending[w].step = "inactive" -> "cancelled"
    [] sending[w].step \in {"unloaded", "lost"} -> "pending"
    [] sending[w].step = "refused" /\ notice[sending[w].row].attempts
                                        < MaxAttempts -> "pending"
    [] OTHER -> "failed"

(* sendReviewNotification: what each answer means for the row.                *)
Outcome(w) ==
  CASE sending[w].step = "accepted" -> "accepted"
    [] sending[w].step = "inactive" -> "cancelled"
    [] sending[w].step = "unloaded" -> "pending"
    [] sending[w].step = "lost"     -> "uncertain"
    [] sending[w].step = "refused" /\ notice[sending[w].row].attempts
                                        < MaxAttempts -> "pending"
    [] OTHER -> "failed"

(* finish, fenced by lease_token; the row may have been swept meanwhile.      *)
FinishNotice(w) ==
  /\ sending[w].step \notin {"idle", "started", "posting"}
  /\ notice' = [notice EXCEPT ![sending[w].row].status =
       IF /\ notice[sending[w].row].token = sending[w].token
          /\ @ = "sending"
       THEN Outcome(w) ELSE @]
  /\ sending' = [sending EXCEPT ![w] = Idle]
  /\ UNCHANGED <<taskVars, configured, wanted, delivered, acknowledged,
                 retries, faults>>

(* Two minutes passed: the next tick of a process with settings leaves a send *)
(* in doubt to the editor.                                                    *)
SweepNotice(n) ==
  /\ configured # {}
  /\ notice[n].status = "sending"
  /\ \/ Fault            \* its process is alive but slow
     \/ (\A w \in Workers : sending[w].row # n) /\ UNCHANGED faults
  /\ notice' = [notice EXCEPT ![n].status = "uncertain"]
  /\ UNCHANGED <<taskVars, configured, sending, wanted, delivered,
                 acknowledged, retries>>

(* retryReviewEmail: a failed send at will, one in doubt only when the editor *)
(* confirms a possible duplicate.                                             *)
RetryNotice(n) ==
  /\ retries < MaxRetries
  /\ notice[n].status \in {"failed", "uncertain"}
  /\ acknowledged' = [acknowledged EXCEPT ![n] =
       IF notice[n].status = "uncertain" THEN @ + 1 ELSE @]
  /\ notice' = [notice EXCEPT ![n].status = "pending", ![n].attempts = 0]
  /\ retries' = retries + 1
  /\ UNCHANGED <<taskVars, configured, sending, wanted, delivered, faults>>

-----------------------------------------------------------------------------
TaskStep(w) ==
  \/ \E r \in Receipts : Pick(w, r)
  \/ ReadReceipt(w) \/ StoreEnvelope(w) \/ FailTask(w) \/ FinishTask(w)

MailStep(w) ==
  \/ \E n \in Notices : PickNotice(w, n)
  \/ LoadNotice(w) \/ PostTaken(w) \/ PostRefused(w) \/ FinishNotice(w)

Next ==
  \/ \E r \in Receipts : Request(r) \/ LoseLease(r)
  \/ \E n \in Notices : Notify(n) \/ Resolve(n) \/ SweepNotice(n)
                          \/ RetryNotice(n)
  \/ \E w \in Workers : TaskStep(w) \/ MailStep(w) \/ Crash(w)
                          \/ Configure(w)

Spec == Init /\ [][Next]_vars

(* Both loops tick for ever in every process that is not paused, and the row  *)
(* with the oldest available_at is taken first; each tick also sweeps.        *)
Fairness ==
  /\ \A w \in Workers : WF_vars(TaskStep(w)) /\ WF_vars(MailStep(w))
  /\ \A r \in Receipts : SF_vars(\E w \in Workers : Pick(w, r))
  /\ \A n \in Notices : WF_vars(SweepNotice(n))

FairSpec == Spec /\ Fairness

-----------------------------------------------------------------------------
(* Properties *)

(* A receipt is signed once: the envelope a reader has seen is never replaced *)
(* by another attempt's signature, and no late attempt reopens a task that is *)
(* complete (signing.go:79, worker.go:74).                                    *)
SignedOnce ==
  [][\A r \in Receipts :
       /\ envelope[r] # 0 => envelope'[r] = envelope[r]
       /\ task[r].status = "complete" => task'[r].status = "complete"]_vars

(* The provider takes an email twice only after an editor acknowledged that a *)
(* send in doubt may be repeated, and a row says accepted only when it did    *)
(* (review_notifications.go:101,198).                                         *)
NoSilentDuplicate ==
  \A n \in Notices :
    /\ delivered[n] <= 1 + acknowledged[n]
    /\ notice[n].status = "accepted" => delivered[n] > 0

(* Every task is signed or put before an operator (worker.go:77).  Every      *)
(* notice is sent, cancelled or put before the editor, provided some process  *)
(* comes to keep valid mail settings; until then it stays pending and uses no *)
(* attempt, as docs/review-notifications.md:18 says and                       *)
(* TestReviewEmailUnconfiguredAndResolved checks (review_notifications.go).   *)
OutboxDrains ==
  /\ \A r \in Receipts : task[r].status = "queued" ~>
       \/ task[r].status = "complete" /\ envelope[r] # 0
       \/ task[r].status = "attention_required"
  /\ \A n \in Notices, w \in Workers : <>[](w \in configured) =>
       (notice[n].status = "pending" ~>
          notice[n].status \in {"accepted", "cancelled", "failed", "uncertain"})

(* What its first half rests on: a task that is complete has left its         *)
(* signature, and one that is not is due, or its lease is held by a process   *)
(* that works on it under the latest token, whoever died or came late before. *)
TaskHasHolder ==
  \A r \in Receipts :
    /\ task[r].status = "complete" => envelope[r] # 0
    /\ task[r].status \in {"queued", "retry", "running"} =>
         \/ Due(r)
         \/ \E w \in Workers :
              hand[w].step # "idle" /\ hand[w].row = r /\ HoldsToken(w)
=============================================================================
