-------------------------- MODULE WorkQueueProofs --------------------------
(* What is proved of the two outboxes, for any number of processes, receipts *)
(* and emails, and any bounds.                                               *)
EXTENDS WorkQueue, FiniteSetTheorems, TLAPS

Held(R, S)   == [row : R \cup {"none"}, token : Nat, step : S]
TaskRow      == [status : TaskStatus, attempts : Nat]
NoticeRow    == [status : NoticeStatus, attempts : Nat, token : Nat]

-----------------------------------------------------------------------------
(* Updates of one field of one row *)

LEMMA SetTask ==
  ASSUME task \in [Receipts -> TaskRow], NEW r \in Receipts, NEW s \in TaskStatus,
         task' = [task EXCEPT ![r].status = s]
  PROVE  /\ task' \in [Receipts -> TaskRow]
         /\ task'[r].status = s /\ task'[r].attempts = task[r].attempts
         /\ \A q \in Receipts : q # r => task'[q] = task[q]
BY DEF TaskRow

LEMMA SetNotice ==
  ASSUME notice \in [Notices -> NoticeRow], NEW n \in Notices, NEW s \in NoticeStatus,
         notice' = [notice EXCEPT ![n].status = s]
  PROVE  /\ notice' \in [Notices -> NoticeRow]
         /\ notice'[n].status = s /\ notice'[n].token = notice[n].token
         /\ \A m \in Notices : m # n => notice'[m] = notice[m]
BY DEF NoticeRow

LEMMA Steps ==
  /\ \A s : s \in HandSteps <=> s \in {"idle", "started", "signing", "succeeded", "failed"}
  /\ \A s : s \in SendSteps <=> s \in {"idle", "started", "posting", "accepted", "refused",
                                      "rejected", "lost", "unloaded", "inactive"}
BY DEF HandSteps, SendSteps

LEMMA TypeParts ==
  QueueTypeOK <=>
    /\ task \in [Receipts -> TaskRow]
    /\ leased \subseteq Receipts
    /\ hand \in [Workers -> Held(Receipts, HandSteps)]
    /\ envelope \in [Receipts -> Nat]
    /\ notice \in [Notices -> NoticeRow]
    /\ sending \in [Workers -> Held(Notices, SendSteps)]
    /\ configured \subseteq Workers
    /\ wanted \subseteq Notices
    /\ delivered \in [Notices -> Nat]
    /\ acknowledged \in [Notices -> Nat]
    /\ retries \in 0..MaxRetries
    /\ faults \in 0..MaxFaults
BY DEF QueueTypeOK, Held, TaskRow, NoticeRow

LEMMA NextTypeParts ==
  ASSUME task' \in [Receipts -> TaskRow],
         leased' \subseteq Receipts,
         hand' \in [Workers -> Held(Receipts, HandSteps)],
         envelope' \in [Receipts -> Nat],
         notice' \in [Notices -> NoticeRow],
         sending' \in [Workers -> Held(Notices, SendSteps)],
         configured' \subseteq Workers,
         wanted' \subseteq Notices,
         delivered' \in [Notices -> Nat],
         acknowledged' \in [Notices -> Nat],
         retries' \in 0..MaxRetries,
         faults' \in 0..MaxFaults
  PROVE  QueueTypeOK'
BY DEF QueueTypeOK, Held, TaskRow, NoticeRow

LEMMA FaultTyped == faults \in 0..MaxFaults /\ Fault => faults' \in 0..MaxFaults
BY QueueAssumption DEF Fault

-----------------------------------------------------------------------------
(* What the steps of a process do, in the form the proofs use *)

(* The process holds the same row, one step further. *)
HandMoves(w, s) ==
  /\ hand' \in [Workers -> Held(Receipts, HandSteps)]
  /\ hand'[w].row = hand[w].row /\ hand'[w].token = hand[w].token
  /\ hand'[w].step = s
  /\ \A v \in Workers : v # w => hand'[v] = hand[v]

SendMoves(w, s) ==
  /\ sending' \in [Workers -> Held(Notices, SendSteps)]
  /\ sending'[w].row = sending[w].row /\ sending'[w].token = sending[w].token
  /\ sending'[w].step = s
  /\ \A v \in Workers : v # w => sending'[v] = sending[v]

LEMMA Moves ==
  ASSUME QueueTypeOK, NEW w \in Workers
  PROVE  /\ \A s \in HandSteps : hand' = [hand EXCEPT ![w].step = s] => HandMoves(w, s)
         /\ \A s \in SendSteps : sending' = [sending EXCEPT ![w].step = s] => SendMoves(w, s)
<1>1. ASSUME NEW s \in HandSteps, hand' = [hand EXCEPT ![w].step = s]
      PROVE  HandMoves(w, s)
  BY <1>1, TypeParts DEF HandMoves, Held
<1>2. ASSUME NEW s \in SendSteps, sending' = [sending EXCEPT ![w].step = s]
      PROVE  SendMoves(w, s)
  BY <1>2, TypeParts DEF SendMoves, Held
<1>. QED
  BY <1>1, <1>2

LEMMA PickEffect ==
  ASSUME QueueTypeOK, NEW w \in Workers, NEW r \in Receipts, Pick(w, r)
  PROVE  /\ task[r].status # "complete"
         /\ task' \in [Receipts -> TaskRow]
         /\ task'[r].status = "running" /\ task'[r].attempts = task[r].attempts + 1
         /\ \A q \in Receipts : q # r => task'[q] = task[q]
         /\ hand' \in [Workers -> Held(Receipts, HandSteps)]
         /\ hand'[w].row = r /\ hand'[w].token = task[r].attempts + 1
         /\ hand'[w].step = "started"
         /\ \A v \in Workers : v # w => hand'[v] = hand[v]
         /\ leased' \subseteq Receipts
         /\ UNCHANGED <<envelope, mailVars, faults>>
<1>1. /\ task' = [task EXCEPT ![r].status = "running", ![r].attempts = @ + 1]
      /\ hand' = [hand EXCEPT ![w] = [row |-> r, token |-> task[r].attempts + 1,
                                      step |-> "started"]]
      /\ leased' = leased \cup {r}
      /\ UNCHANGED <<envelope, mailVars, faults>>
  BY DEF Pick
<1>2. task \in [Receipts -> TaskRow] /\ "running" \in TaskStatus /\ task[r].attempts \in Nat
  BY TypeParts DEF TaskRow, TaskStatus
<1>3. /\ task' \in [Receipts -> TaskRow]
      /\ task'[r].status = "running" /\ task'[r].attempts = task[r].attempts + 1
      /\ \A q \in Receipts : q # r => task'[q] = task[q]
  BY <1>1, <1>2 DEF TaskRow
<1>4. /\ hand' \in [Workers -> Held(Receipts, HandSteps)]
      /\ hand'[w].row = r /\ hand'[w].token = task[r].attempts + 1
      /\ hand'[w].step = "started"
      /\ \A v \in Workers : v # w => hand'[v] = hand[v]
  BY <1>1, <1>2, TypeParts, Steps DEF Held
<1>5. task[r].status # "complete"
  BY DEF Pick, Due
<1>6. leased' \subseteq Receipts
  BY <1>1, TypeParts
<1>. QED
  BY <1>1, <1>3, <1>4, <1>5, <1>6

LEMMA PickNoticeEffect ==
  ASSUME QueueTypeOK, NEW w \in Workers, NEW n \in Notices, PickNotice(w, n)
  PROVE  /\ notice[n].status = "pending" /\ sending[w].step = "idle"
         /\ notice' \in [Notices -> NoticeRow]
         /\ notice'[n].status = "sending"
         /\ \A m \in Notices : m # n => notice'[m] = notice[m]
         /\ sending' \in [Workers -> Held(Notices, SendSteps)]
         /\ sending'[w].row = n /\ sending'[w].step = "started"
         /\ \A v \in Workers : v # w => sending'[v] = sending[v]
         /\ UNCHANGED <<taskVars, configured, wanted, delivered, acknowledged, retries, faults>>
<1>1. /\ notice' = [notice EXCEPT ![n].status = "sending",
                                  ![n].attempts = @ + 1, ![n].token = @ + 1]
      /\ sending' = [sending EXCEPT ![w] = [row |-> n, token |-> notice[n].token + 1,
                                            step |-> "started"]]
      /\ sending[w] = Idle /\ notice[n].status = "pending"
      /\ UNCHANGED <<taskVars, configured, wanted, delivered, acknowledged, retries, faults>>
  BY DEF PickNotice
<1>2. /\ notice \in [Notices -> NoticeRow] /\ "sending" \in NoticeStatus
      /\ notice[n].token \in Nat /\ notice[n].attempts \in Nat
  BY TypeParts DEF NoticeRow, NoticeStatus
<1>3. /\ notice' \in [Notices -> NoticeRow]
      /\ notice'[n].status = "sending"
      /\ \A m \in Notices : m # n => notice'[m] = notice[m]
  BY <1>1, <1>2 DEF NoticeRow
<1>4. /\ sending' \in [Workers -> Held(Notices, SendSteps)]
      /\ sending'[w].row = n /\ sending'[w].step = "started"
      /\ \A v \in Workers : v # w => sending'[v] = sending[v]
  BY <1>1, <1>2, TypeParts, Steps DEF Held
<1>5. sending[w].step = "idle"
  BY <1>1 DEF Idle
<1>. QED
  BY <1>1, <1>3, <1>4, <1>5

LEMMA FinishTaskEffect ==
  ASSUME QueueTypeOK, NEW w \in Workers, FinishTask(w)
  PROVE  /\ hand[w].step \in {"succeeded", "failed"}
         /\ task' \in [Receipts -> TaskRow]
         /\ leased' \subseteq Receipts
         /\ \/ UNCHANGED task
            \/ HoldsToken(w) /\ task' = [task EXCEPT ![hand[w].row].status = Verdict(w)]
         /\ \A q \in Receipts : /\ task'[q].attempts = task[q].attempts
                                /\ task'[q].status # task[q].status =>
                                     HoldsToken(w) /\ hand[w].row = q
         /\ hand' \in [Workers -> Held(Receipts, HandSteps)]
         /\ hand'[w].step = "idle"
         /\ \A v \in Workers : v # w => hand'[v] = hand[v]
         /\ UNCHANGED <<envelope, mailVars, faults>>
<1>1. /\ hand[w].step \in {"succeeded", "failed"}
      /\ hand' = [hand EXCEPT ![w] = Idle]
      /\ UNCHANGED <<envelope, mailVars, faults>>
  BY DEF FinishTask
<1>2. /\ \/ UNCHANGED task
         \/ HoldsToken(w) /\ task' = [task EXCEPT ![hand[w].row].status = Verdict(w)]
      /\ leased' \in {leased, leased \ {hand[w].row}}
  BY Zenon DEF FinishTask
<1>3. /\ hand' \in [Workers -> Held(Receipts, HandSteps)]
      /\ hand'[w].step = "idle"
      /\ \A v \in Workers : v # w => hand'[v] = hand[v]
  BY <1>1, TypeParts, Steps DEF Held, Idle
<1>4. /\ task' \in [Receipts -> TaskRow]
      /\ \A q \in Receipts : /\ task'[q].attempts = task[q].attempts
                             /\ task'[q].status # task[q].status =>
                                  HoldsToken(w) /\ hand[w].row = q
  <2>1. CASE UNCHANGED task
    BY <2>1, TypeParts
  <2>2. CASE HoldsToken(w) /\ task' = [task EXCEPT ![hand[w].row].status = Verdict(w)]
    <3>1. Verdict(w) \in TaskStatus
      BY DEF Verdict, TaskStatus
    <3>2. task \in [Receipts -> TaskRow]
      BY TypeParts
    <3>3. CASE hand[w].row \in Receipts
      BY <2>2, <3>1, <3>2, <3>3, SetTask
    <3>4. CASE hand[w].row \notin Receipts
      BY <2>2, <3>2, <3>4
    <3>. QED
      BY <3>3, <3>4
  <2>. QED
    BY <1>2, <2>1, <2>2
<1>5. leased' \subseteq Receipts
  BY <1>2, TypeParts
<1>. QED
  BY <1>1, <1>2, <1>3, <1>4, <1>5

LEMMA FinishNoticeEffect ==
  ASSUME QueueTypeOK, NEW w \in Workers, FinishNotice(w)
  PROVE  /\ sending[w].step \notin {"idle", "started", "posting"}
         /\ notice' \in [Notices -> NoticeRow]
         /\ \A n \in Notices :
              \/ notice'[n] = notice[n]
              \/ /\ n = sending[w].row /\ notice[n].status = "sending"
                 /\ notice'[n].status = Outcome(w)
         /\ sending' \in [Workers -> Held(Notices, SendSteps)]
         /\ sending'[w].step = "idle"
         /\ \A v \in Workers : v # w => sending'[v] = sending[v]
         /\ UNCHANGED <<taskVars, configured, wanted, delivered, acknowledged, retries, faults>>
<1> DEFINE n == sending[w].row
           s == IF notice[n].token = sending[w].token /\ notice[n].status = "sending"
                THEN Outcome(w) ELSE notice[n].status
<1>1. /\ sending[w].step \notin {"idle", "started", "posting"}
      /\ sending' = [sending EXCEPT ![w] = Idle]
      /\ notice' = [notice EXCEPT ![n].status = s]
      /\ UNCHANGED <<taskVars, configured, wanted, delivered, acknowledged, retries, faults>>
  BY Zenon DEF FinishNotice
<1>2. /\ sending' \in [Workers -> Held(Notices, SendSteps)]
      /\ sending'[w].step = "idle"
      /\ \A v \in Workers : v # w => sending'[v] = sending[v]
  BY <1>1, TypeParts, Steps DEF Held, Idle
<1>3. /\ notice' \in [Notices -> NoticeRow]
      /\ \A m \in Notices :
           \/ notice'[m] = notice[m]
           \/ /\ m = n /\ notice[m].status = "sending" /\ notice'[m].status = Outcome(w)
  <2>1. notice \in [Notices -> NoticeRow]
    BY TypeParts
  <2>2. CASE n \in Notices
    <3>1. Outcome(w) \in NoticeStatus
      BY DEF Outcome, NoticeStatus
    <3>2. s \in NoticeStatus
      BY <2>1, <2>2, <3>1 DEF NoticeRow
    <3>3. /\ notice' \in [Notices -> NoticeRow]
          /\ \A m \in Notices : m # n => notice'[m] = notice[m]
          /\ notice'[n].status = s
      <4> HIDE DEF s, n
      <4>. QED BY <1>1, <2>1, <2>2, <3>2, SetNotice
    <3>4. s # Outcome(w) => notice'[n] = notice[n]
      <4>1. SUFFICES ASSUME s # Outcome(w) PROVE notice'[n] = notice[n]
        OBVIOUS
      <4>2. s = notice[n].status
        BY <4>1
      <4>3. notice' = [notice EXCEPT ![n].status = notice[n].status]
        BY <1>1, <4>2
      <4> HIDE DEF s, n
      <4>. QED BY <4>3, <2>1, <2>2 DEF NoticeRow
    <3>5. s = Outcome(w) =>
            notice'[n] = notice[n] \/ notice[n].status = "sending"
      <4>1. CASE notice[n].token = sending[w].token /\ notice[n].status = "sending"
        BY <4>1
      <4>2. CASE ~(notice[n].token = sending[w].token /\ notice[n].status = "sending")
        <5>1. s = notice[n].status
          BY <4>2
        <5>2. notice' = [notice EXCEPT ![n].status = notice[n].status]
          BY <1>1, <5>1
        <5> HIDE DEF s, n
        <5>. QED BY <5>2, <2>1, <2>2 DEF NoticeRow
      <4>. QED BY <4>1, <4>2
    <3>. HIDE DEF s, n
    <3>. QED
      BY <3>3, <3>4, <3>5
  <2>3. CASE n \notin Notices
    BY <1>1, <2>1, <2>3
  <2>. QED
    BY <2>2, <2>3
<1>. QED
  BY <1>1, <1>2, <1>3

(* A process dies: what it held is dropped, at most its lease with it. *)
LEMMA CrashEffect ==
  ASSUME QueueTypeOK, NEW w \in Workers, Crash(w)
  PROVE  /\ hand' \in [Workers -> Held(Receipts, HandSteps)] /\ hand'[w].step = "idle"
         /\ \A v \in Workers : v # w => hand'[v] = hand[v]
         /\ sending' \in [Workers -> Held(Notices, SendSteps)] /\ sending'[w].step = "idle"
         /\ \A v \in Workers : v # w => sending'[v] = sending[v]
         /\ leased' \subseteq Receipts
         /\ faults' \in 0..MaxFaults
         /\ UNCHANGED <<task, envelope, notice, configured, wanted, delivered, acknowledged,
                        retries>>
<1>1. /\ hand' = [hand EXCEPT ![w] = Idle] /\ sending' = [sending EXCEPT ![w] = Idle]
      /\ leased' \subseteq leased /\ Fault
      /\ UNCHANGED <<task, envelope, notice, configured, wanted, delivered, acknowledged, retries>>
  BY DEF Crash
<1>2. /\ hand' \in [Workers -> Held(Receipts, HandSteps)] /\ hand'[w].step = "idle"
      /\ \A v \in Workers : v # w => hand'[v] = hand[v]
  BY <1>1, TypeParts, Steps DEF Held, Idle
<1>3. /\ sending' \in [Workers -> Held(Notices, SendSteps)] /\ sending'[w].step = "idle"
      /\ \A v \in Workers : v # w => sending'[v] = sending[v]
  BY <1>1, TypeParts, Steps DEF Held, Idle
<1>. QED
  BY <1>1, <1>2, <1>3, TypeParts, FaultTyped

-----------------------------------------------------------------------------
(* Types *)

LEMMA InitTyped == Init => QueueTypeOK
BY QueueAssumption
   DEF Init, QueueTypeOK, Idle, TaskStatus, NoticeStatus, HandSteps, SendSteps

LEMMA TaskStepTyped ==
  ASSUME QueueTypeOK, NEW w \in Workers, TaskStep(w)
  PROVE  QueueTypeOK'
<1>. USE TypeParts, NextTypeParts
<1>1. ASSUME NEW r \in Receipts, Pick(w, r) PROVE QueueTypeOK'
  BY <1>1, PickEffect DEF mailVars
<1>2. CASE ReadReceipt(w)
  <2>1. \E t \in HandSteps : hand' = [hand EXCEPT ![w].step = t]
    BY <1>2, Steps DEF ReadReceipt
  <2>2. hand' \in [Workers -> Held(Receipts, HandSteps)]
    BY <2>1, Moves DEF HandMoves
  <2>. QED
    BY <1>2, <2>2 DEF ReadReceipt, mailVars
<1>3. CASE StoreEnvelope(w)
  <2>1. \E t \in HandSteps : hand' = [hand EXCEPT ![w].step = t]
    BY <1>3, Steps, Zenon DEF StoreEnvelope
  <2>2. hand' \in [Workers -> Held(Receipts, HandSteps)]
    BY <2>1, Moves DEF HandMoves
  <2>3. envelope' \in [Receipts -> Nat]
    <3>1. envelope' = Stores(w) /\ hand[w].token \in Nat
      BY <1>3 DEF StoreEnvelope, Held
    <3>. QED BY <3>1 DEF Stores
  <2>4. faults' \in 0..MaxFaults
    BY <1>3, FaultTyped, Zenon DEF StoreEnvelope
  <2>. QED
    BY <1>3, <2>2, <2>3, <2>4 DEF StoreEnvelope, mailVars
<1>4. CASE FailTask(w)
  <2>1. hand' \in [Workers -> Held(Receipts, HandSteps)]
    BY <1>4, Moves, Steps DEF FailTask, HandMoves
  <2>. QED
    BY <1>4, <2>1 DEF FailTask, mailVars
<1>5. CASE FinishTask(w)
  BY <1>5, FinishTaskEffect DEF mailVars
<1>. QED
  BY <1>1, <1>2, <1>3, <1>4, <1>5 DEF TaskStep

LEMMA SendMoved ==
  ASSUME QueueTypeOK, NEW w \in Workers, LoadNotice(w) \/ PostTaken(w) \/ PostRefused(w)
  PROVE  \E t \in SendSteps : sending' = [sending EXCEPT ![w].step = t] /\ SendMoves(w, t)
<1>1. \E t \in SendSteps : sending' = [sending EXCEPT ![w].step = t]
  <2>1. CASE LoadNotice(w)
    <3>1. (IF sending[w].row \in wanted THEN "posting" ELSE "inactive") \in SendSteps
      BY Steps
    <3>. QED BY <2>1, <3>1, Steps, Zenon DEF LoadNotice
  <2>2. CASE PostTaken(w)
    BY <2>2, Steps, Zenon DEF PostTaken
  <2>3. CASE PostRefused(w)
    <3>1. \A t \in {"refused", "rejected", "lost"} : t \in SendSteps
      BY Steps
    <3>. QED BY <2>3, <3>1, Zenon DEF PostRefused
  <2>. QED
    BY <2>1, <2>2, <2>3
<1>. QED
  BY <1>1, Moves

LEMMA MailStepTyped ==
  ASSUME QueueTypeOK, NEW w \in Workers, MailStep(w)
  PROVE  QueueTypeOK'
<1>. USE TypeParts, NextTypeParts
<1>1. ASSUME NEW n \in Notices, PickNotice(w, n) PROVE QueueTypeOK'
  BY <1>1, PickNoticeEffect DEF taskVars
<1>2. CASE LoadNotice(w)
  <2>1. sending' \in [Workers -> Held(Notices, SendSteps)]
    BY <1>2, SendMoved DEF SendMoves
  <2>2. faults' \in 0..MaxFaults
    BY <1>2, FaultTyped, Zenon DEF LoadNotice
  <2>. QED
    BY <1>2, <2>1, <2>2 DEF LoadNotice, taskVars
<1>3. CASE PostTaken(w)
  <2>1. sending' \in [Workers -> Held(Notices, SendSteps)]
    BY <1>3, SendMoved DEF SendMoves
  <2>2. faults' \in 0..MaxFaults
    BY <1>3, FaultTyped, Zenon DEF PostTaken
  <2>3. delivered' \in [Notices -> Nat]
    <3>1. delivered' = [delivered EXCEPT ![sending[w].row] = delivered[sending[w].row] + 1]
      BY <1>3 DEF PostTaken
    <3>2. CASE sending[w].row \in Notices
      BY <3>1, <3>2
    <3>3. CASE sending[w].row \notin Notices
      BY <3>1, <3>3
    <3>. QED BY <3>2, <3>3
  <2>. QED
    BY <1>3, <2>1, <2>2, <2>3 DEF PostTaken, taskVars
<1>4. CASE PostRefused(w)
  <2>1. sending' \in [Workers -> Held(Notices, SendSteps)]
    BY <1>4, SendMoved DEF SendMoves
  <2>. QED
    BY <1>4, <2>1 DEF PostRefused, taskVars
<1>5. CASE FinishNotice(w)
  BY <1>5, FinishNoticeEffect DEF taskVars
<1>. QED
  BY <1>1, <1>2, <1>3, <1>4, <1>5 DEF MailStep

LEMMA NoticeEffect ==
  ASSUME QueueTypeOK, NEW n \in Notices, Notify(n) \/ SweepNotice(n)
  PROVE  /\ notice' \in [Notices -> NoticeRow]
         /\ \A m \in Notices : m # n => notice'[m] = notice[m]
         /\ notice'[n].status = IF Notify(n) THEN "pending" ELSE "uncertain"
<1>1. notice \in [Notices -> NoticeRow]
  BY TypeParts
<1>2. CASE Notify(n)
  BY <1>1, <1>2, SetNotice DEF Notify, NoticeStatus
<1>3. CASE SweepNotice(n) /\ ~Notify(n)
  <2>1. notice' = [notice EXCEPT ![n].status = "uncertain"]
    BY <1>3, Zenon DEF SweepNotice
  <2>. QED BY <1>1, <1>3, <2>1, SetNotice DEF NoticeStatus
<1>. QED
  BY <1>2, <1>3

LEMMA RetryEffect ==
  ASSUME QueueTypeOK, NEW n \in Notices, RetryNotice(n)
  PROVE  /\ notice[n].status \in {"failed", "uncertain"}
         /\ notice' \in [Notices -> NoticeRow]
         /\ notice'[n].status = "pending"
         /\ \A m \in Notices : m # n => notice'[m] = notice[m]
         /\ acknowledged' \in [Notices -> Nat]
         /\ \A m \in Notices : acknowledged'[m] =
              IF m = n /\ notice[n].status = "uncertain" THEN acknowledged[m] + 1
              ELSE acknowledged[m]
         /\ retries' \in 0..MaxRetries
         /\ UNCHANGED <<taskVars, configured, sending, wanted, delivered, faults>>
<1>1. /\ notice[n].status \in {"failed", "uncertain"}
      /\ acknowledged' = [acknowledged EXCEPT ![n] =
           IF notice[n].status = "uncertain" THEN acknowledged[n] + 1 ELSE acknowledged[n]]
      /\ notice' = [notice EXCEPT ![n].status = "pending", ![n].attempts = 0]
      /\ retries < MaxRetries /\ retries' = retries + 1
      /\ UNCHANGED <<taskVars, configured, sending, wanted, delivered, faults>>
  BY DEF RetryNotice
<1>2. /\ notice' \in [Notices -> NoticeRow]
      /\ notice'[n].status = "pending"
      /\ \A m \in Notices : m # n => notice'[m] = notice[m]
  <2>1. notice \in [Notices -> NoticeRow] /\ "pending" \in NoticeStatus
    BY TypeParts DEF NoticeStatus
  <2>2. notice' = [notice EXCEPT ![n].status = "pending", ![n].attempts = 0]
    BY <1>1
  <2>. QED BY <2>1, <2>2 DEF NoticeRow
<1>3. acknowledged \in [Notices -> Nat] /\ retries \in 0..MaxRetries
  BY TypeParts
<1>4. /\ acknowledged' \in [Notices -> Nat]
      /\ \A m \in Notices : acknowledged'[m] =
           IF m = n /\ notice[n].status = "uncertain" THEN acknowledged[m] + 1
           ELSE acknowledged[m]
  BY <1>1, <1>3
<1>5. retries' \in 0..MaxRetries
  BY <1>1, <1>3, QueueAssumption
<1>. QED
  BY <1>1, <1>2, <1>4, <1>5

LEMMA NextTyped == QueueTypeOK /\ [Next]_vars => QueueTypeOK'
<1>. SUFFICES ASSUME QueueTypeOK, [Next]_vars PROVE QueueTypeOK'
  OBVIOUS
<1>. USE TypeParts, NextTypeParts
<1>1. ASSUME NEW r \in Receipts, Request(r) PROVE QueueTypeOK'
  BY <1>1, SetTask DEF Request, mailVars, TaskStatus
<1>2. ASSUME NEW r \in Receipts, LoseLease(r) PROVE QueueTypeOK'
  BY <1>2, FaultTyped DEF LoseLease, mailVars
<1>3. ASSUME NEW n \in Notices, Notify(n) PROVE QueueTypeOK'
  <2>1. /\ wanted' \subseteq Notices
        /\ UNCHANGED <<taskVars, configured, sending, delivered, acknowledged, retries, faults>>
    BY <1>3 DEF Notify
  <2>. QED BY <1>3, <2>1, NoticeEffect DEF taskVars
<1>4. ASSUME NEW n \in Notices, Resolve(n) PROVE QueueTypeOK'
  BY <1>4 DEF Resolve, taskVars
<1>5. ASSUME NEW n \in Notices, SweepNotice(n) PROVE QueueTypeOK'
  <2>1. /\ faults' \in 0..MaxFaults
        /\ UNCHANGED <<taskVars, configured, sending, wanted, delivered, acknowledged, retries>>
    BY <1>5, FaultTyped, Zenon DEF SweepNotice
  <2>. QED BY <1>5, <2>1, NoticeEffect DEF taskVars
<1>6. ASSUME NEW n \in Notices, RetryNotice(n) PROVE QueueTypeOK'
  BY <1>6, RetryEffect DEF taskVars
<1>7. ASSUME NEW w \in Workers, Crash(w) PROVE QueueTypeOK'
  BY <1>7, CrashEffect
<1>8. CASE UNCHANGED vars
  BY <1>8 DEF vars, taskVars, mailVars
<1>9. ASSUME NEW w \in Workers, Configure(w) PROVE QueueTypeOK'
  BY <1>9 DEF Configure, taskVars
<1>. QED
  BY <1>1, <1>2, <1>3, <1>4, <1>5, <1>6, <1>7, <1>8, <1>9, TaskStepTyped, MailStepTyped
     DEF Next

(* Rows, processes and counters are well typed in every reachable state,     *)
(* whatever crashes, lost leases and retries come in between.                *)
THEOREM QueueTypeCorrect == Spec => []QueueTypeOK
BY InitTyped, NextTyped, PTL DEF Spec

-----------------------------------------------------------------------------
(* Tokens: an attempt whose token is the latest works on a running task, and *)
(* no two attempts have the same one.                                        *)

Busy(w) == hand[w].step # "idle"

TokensFence ==
  /\ \A w \in Workers : Busy(w) =>
       /\ hand[w].row \in Receipts
       /\ hand[w].token <= task[hand[w].row].attempts
       /\ HoldsToken(w) => task[hand[w].row].status = "running"
  /\ \A v, w \in Workers :
       v # w /\ Busy(v) /\ Busy(w) /\ hand[v].row = hand[w].row =>
         hand[v].token # hand[w].token

(* Only the token of the latest lease changes a task, so a complete one stays. *)
SignedStep ==
  \A r \in Receipts :
    /\ envelope[r] # 0 => envelope'[r] = envelope[r]
    /\ task[r].status = "complete" => task'[r].status = "complete"

LEMMA InitFenced == Init => TokensFence
BY DEF Init, TokensFence, Busy, Idle

LEMMA HandTyped ==
  ASSUME QueueTypeOK
  PROVE  /\ \A w \in Workers : hand[w].token \in Nat
         /\ \A r \in Receipts : task[r].attempts \in Nat
BY TypeParts DEF Held, TaskRow

LEMMA MovedFenced ==
  ASSUME QueueTypeOK, TokensFence, NEW w \in Workers, NEW s, HandMoves(w, s),
         Busy(w), UNCHANGED task
  PROVE  TokensFence'
BY HandTyped DEF TokensFence, HandMoves, Busy, HoldsToken

LEMMA HandStep ==
  ASSUME QueueTypeOK, TokensFence, [Next]_vars
  PROVE  TokensFence' /\ SignedStep
<1>1. ASSUME NEW r \in Receipts, Request(r) PROVE TokensFence' /\ SignedStep
  <2>1. /\ \A q \in Receipts : q # r => task'[q] = task[q]
        /\ task'[r].attempts = task[r].attempts /\ task[r].status = "none"
        /\ UNCHANGED <<hand, envelope>>
    BY <1>1, TypeParts, SetTask DEF Request, TaskStatus
  <2>. QED
    BY <2>1 DEF TokensFence, SignedStep, Busy, HoldsToken
<1>2. ASSUME NEW w \in Workers, NEW r \in Receipts, Pick(w, r)
      PROVE  TokensFence' /\ SignedStep
  <2>1. SignedStep
    BY <1>2, PickEffect DEF SignedStep
  <2>2. ASSUME NEW v \in Workers, Busy(v)'
        PROVE  /\ hand'[v].row \in Receipts
               /\ hand'[v].token <= task'[hand'[v].row].attempts
               /\ HoldsToken(v)' => task'[hand'[v].row].status = "running"
               /\ v # w => ~(hand'[v].row = r /\ hand'[v].token = hand'[w].token)
    <3>1. CASE v = w
      BY <1>2, <3>1, PickEffect, HandTyped DEF HoldsToken
    <3>2. CASE v # w
      <4>1. hand'[v] = hand[v] /\ Busy(v)
        BY <1>2, <2>2, <3>2, PickEffect DEF Busy
      <4>2. CASE hand[v].row = r
        BY <1>2, <4>1, <4>2, PickEffect, HandTyped DEF TokensFence, HoldsToken
      <4>3. CASE hand[v].row # r
        BY <1>2, <4>1, <4>3, PickEffect, HandTyped DEF TokensFence, HoldsToken
      <4>. QED
        BY <4>2, <4>3
    <3>. QED
      BY <3>1, <3>2
  <2>3. ASSUME NEW u \in Workers, NEW v \in Workers, u # v, Busy(u)', Busy(v)',
               hand'[u].row = hand'[v].row
        PROVE  hand'[u].token # hand'[v].token
    <3>1. CASE u = w \/ v = w
      BY <1>2, <2>2, <2>3, <3>1, PickEffect
    <3>2. CASE u # w /\ v # w
      BY <1>2, <2>3, <3>2, PickEffect DEF TokensFence, Busy
    <3>. QED
      BY <3>1, <3>2
  <2>. QED
    BY <2>1, <2>2, <2>3 DEF TokensFence
<1>3. ASSUME NEW w \in Workers, ReadReceipt(w) \/ FailTask(w)
      PROVE  TokensFence' /\ SignedStep
  <2>1. /\ \E t \in HandSteps : hand' = [hand EXCEPT ![w].step = t]
        /\ Busy(w) /\ UNCHANGED <<task, envelope>>
    BY <1>3, Steps DEF ReadReceipt, FailTask, Busy
  <2>. QED
    BY <2>1, Moves, MovedFenced DEF SignedStep
<1>4. ASSUME NEW w \in Workers, StoreEnvelope(w) PROVE TokensFence' /\ SignedStep
  <2>1. /\ \E t \in HandSteps : hand' = [hand EXCEPT ![w].step = t]
        /\ hand[w].step = "signing" /\ UNCHANGED task
        /\ envelope' = Stores(w)
    BY <1>4, Steps, Zenon DEF StoreEnvelope
  <2>2. SignedStep
    <3>1. envelope \in [Receipts -> Nat]
      BY TypeParts
    <3>. QED BY <2>1, <3>1 DEF Stores, SignedStep
  <2>. QED
    BY <2>1, <2>2, Moves, MovedFenced DEF Busy
<1>5. ASSUME NEW w \in Workers, FinishTask(w) PROVE TokensFence' /\ SignedStep
  <2>1. Busy(w)
    BY <1>5, FinishTaskEffect DEF Busy
  <2>2. SignedStep
    BY <1>5, <2>1, FinishTaskEffect DEF SignedStep, TokensFence
  <2>3. ASSUME NEW v \in Workers, Busy(v)'
        PROVE  /\ v # w /\ hand'[v] = hand[v] /\ Busy(v)
               /\ hand'[v].row \in Receipts
               /\ hand'[v].token <= task'[hand'[v].row].attempts
               /\ HoldsToken(v)' => task'[hand'[v].row].status = "running"
    <3>1. v # w /\ hand'[v] = hand[v] /\ Busy(v)
      BY <1>5, <2>3, FinishTaskEffect DEF Busy
    <3>2. /\ hand[v].row \in Receipts
          /\ task'[hand[v].row].attempts = task[hand[v].row].attempts
      BY <1>5, <3>1, FinishTaskEffect DEF TokensFence
    <3>3. ~(HoldsToken(v) /\ HoldsToken(w) /\ hand[v].row = hand[w].row)
      BY <2>1, <3>1 DEF TokensFence, HoldsToken
    <3>4. /\ hand[v].token <= task[hand[v].row].attempts
          /\ HoldsToken(v) => task[hand[v].row].status = "running"
      BY <3>1 DEF TokensFence
    <3>5. HoldsToken(v)' <=> HoldsToken(v)
      BY <3>1, <3>2 DEF HoldsToken
    <3>6. HoldsToken(v) => task'[hand[v].row].status = task[hand[v].row].status
      BY <1>5, <3>2, <3>3, FinishTaskEffect
    <3>. QED
      BY <3>1, <3>2, <3>4, <3>5, <3>6
  <2>. QED
    BY <2>2, <2>3 DEF TokensFence
<1>6. ASSUME NEW w \in Workers, Crash(w) PROVE TokensFence' /\ SignedStep
  BY <1>6, CrashEffect DEF TokensFence, SignedStep, Busy, HoldsToken
<1>7. ASSUME UNCHANGED <<task, hand, envelope>> PROVE TokensFence' /\ SignedStep
  BY <1>7 DEF TokensFence, SignedStep, Busy, HoldsToken
<1>8. ASSUME NEW r \in Receipts, LoseLease(r) PROVE UNCHANGED <<task, hand, envelope>>
  BY <1>8 DEF LoseLease
<1>9. ASSUME NEW n \in Notices,
             Notify(n) \/ Resolve(n) \/ SweepNotice(n) \/ RetryNotice(n)
      PROVE  UNCHANGED <<task, hand, envelope>>
  BY <1>9, Zenon DEF Notify, Resolve, SweepNotice, RetryNotice, taskVars
<1>10. ASSUME NEW w \in Workers, MailStep(w) PROVE UNCHANGED <<task, hand, envelope>>
  BY <1>10, Zenon
     DEF MailStep, PickNotice, LoadNotice, PostTaken, PostRefused, FinishNotice, taskVars
<1>11. CASE UNCHANGED vars
  BY <1>7, <1>11 DEF vars, taskVars
<1>12. ASSUME NEW w \in Workers, Configure(w) PROVE UNCHANGED <<task, hand, envelope>>
  BY <1>12 DEF Configure, taskVars
<1>. QED
  BY <1>1, <1>2, <1>3, <1>4, <1>5, <1>6, <1>7, <1>8, <1>9, <1>10, <1>11, <1>12
     DEF Next, TaskStep

(* A stored signature is never replaced and a complete task never reopened,  *)
(* for any number of worker processes, lost leases and late attempts.        *)
THEOREM ReceiptsAreSignedOnce == Spec => SignedOnce
<1>1. Spec => [](QueueTypeOK /\ TokensFence)
  BY InitTyped, NextTyped, InitFenced, HandStep, PTL DEF Spec
<1>2. QueueTypeOK /\ TokensFence /\ [Next]_vars => [SignedStep]_vars
  BY HandStep
<1>. QED
  BY <1>1, <1>2, PTL DEF Spec, SignedOnce, SignedStep

-----------------------------------------------------------------------------
(* Credits: whoever may still make the provider take the email of a notice   *)
(* holds a credit for it, and a retry of a doubtful send brings a new one.   *)

MaySpend == {"started", "posting", "refused", "rejected", "unloaded"}
Spenders(n) == {w \in Workers : sending[w].row = n /\ sending[w].step \in MaySpend}
Owed(n) == IF notice[n].status \in {"none", "pending", "failed"} THEN 1 ELSE 0

CreditsKept ==
  \A n \in Notices :
    delivered[n] + Cardinality(Spenders(n)) + Owed(n) <= 1 + acknowledged[n]

AcceptedTaken ==
  /\ \A w \in Workers : sending[w].step # "idle" => sending[w].row \in Notices
  /\ \A w \in Workers : sending[w].step = "accepted" => delivered[sending[w].row] > 0
  /\ \A n \in Notices : notice[n].status = "accepted" => delivered[n] > 0

MailInv == CreditsKept /\ AcceptedTaken

LEMMA SpendersFinite ==
  ASSUME NEW n
  PROVE  /\ IsFiniteSet(Spenders(n)) /\ Cardinality(Spenders(n)) \in Nat
         /\ IsFiniteSet(Spenders(n)') /\ Cardinality(Spenders(n)') \in Nat
<1>1. /\ IsFiniteSet(Workers) /\ Spenders(n) \subseteq Workers
      /\ Spenders(n)' \subseteq Workers
  BY QueueAssumption DEF Spenders
<1>2. IsFiniteSet(Spenders(n)) /\ IsFiniteSet(Spenders(n)')
  BY <1>1, FS_Subset
<1>. QED
  BY <1>2, FS_CardinalityType

(* Sets that differ at most in w. *)
LEMMA CountOne ==
  ASSUME NEW S, NEW T, IsFiniteSet(S), IsFiniteSet(T), NEW w, S \ {w} = T \ {w}
  PROVE  Cardinality(T) + (IF w \in S THEN 1 ELSE 0)
           = Cardinality(S) + (IF w \in T THEN 1 ELSE 0)
<1>1. \A U : IsFiniteSet(U) =>
        Cardinality(U) = Cardinality(U \ {w}) + (IF w \in U THEN 1 ELSE 0)
  <2> SUFFICES ASSUME NEW U, IsFiniteSet(U)
               PROVE  Cardinality(U) = Cardinality(U \ {w}) + (IF w \in U THEN 1 ELSE 0)
    OBVIOUS
  <2>1. Cardinality(U) \in Nat
    BY FS_CardinalityType
  <2>2. CASE w \in U
    <3>1. Cardinality(U \ {w}) = Cardinality(U) - 1
      BY <2>2, FS_RemoveElement
    <3>2. Cardinality(U) = Cardinality(U \ {w}) + 1
      BY <2>1, <3>1
    <3>. QED BY <2>2, <3>2
  <2>3. CASE w \notin U
    <3>1. U \ {w} = U
      BY <2>3
    <3>2. Cardinality(U \ {w}) = Cardinality(U)
      BY <3>1
    <3>. QED BY <2>1, <2>3, <3>2
  <2>. QED BY <2>2, <2>3
<1>2. IsFiniteSet(S \ {w}) /\ Cardinality(S \ {w}) \in Nat
  BY FS_Subset, FS_CardinalityType
<1>. QED
  BY <1>1, <1>2

LEMMA CreditsTyped ==
  ASSUME QueueTypeOK
  PROVE  \A n \in Notices : /\ delivered[n] \in Nat /\ acknowledged[n] \in Nat
                           /\ Owed(n) \in Nat /\ Owed(n)' \in Nat
BY TypeParts DEF Owed

(* A step of w alone changes the spenders of a notice at most in w. *)
LEMMA OneSpender ==
  ASSUME NEW w \in Workers, \A v \in Workers : v # w => sending'[v] = sending[v], NEW n
  PROVE  Cardinality(Spenders(n)') + (IF w \in Spenders(n) THEN 1 ELSE 0)
           = Cardinality(Spenders(n)) + (IF w \in Spenders(n)' THEN 1 ELSE 0)
<1>1. Spenders(n) \ {w} = Spenders(n)' \ {w}
  BY DEF Spenders
<1>. QED
  BY <1>1, SpendersFinite, CountOne

LEMMA InitCredits == Init => MailInv
<1> SUFFICES ASSUME Init PROVE MailInv
  OBVIOUS
<1>1. \A n : Spenders(n) = {}
  BY DEF Init, Idle, Spenders, MaySpend
<1>2. \A n : Cardinality(Spenders(n)) = 0
  BY <1>1, FS_EmptySet
<1>3. CreditsKept
  BY <1>2 DEF Init, CreditsKept, Owed
<1>. QED
  BY <1>3 DEF Init, MailInv, AcceptedTaken, Idle

(* No step that leaves emails alone matters. *)
LEMMA MailUntouched ==
  ASSUME MailInv, UNCHANGED <<notice, sending, delivered, acknowledged>>
  PROVE  MailInv'
<1>1. \A n : Spenders(n)' = Spenders(n) /\ Owed(n)' = Owed(n)
  BY DEF Spenders, Owed
<1>. QED
  BY <1>1 DEF MailInv, CreditsKept, AcceptedTaken

LEMMA MailStepCredits ==
  ASSUME QueueTypeOK, MailInv, NEW w \in Workers, MailStep(w)
  PROVE  MailInv'
<1>. USE CreditsTyped, SpendersFinite
<1>1. ASSUME NEW n \in Notices, PickNotice(w, n) PROVE MailInv'
  <2>1. ASSUME NEW m \in Notices
        PROVE  delivered'[m] + Cardinality(Spenders(m)') + Owed(m)' <= 1 + acknowledged'[m]
    <3>1. /\ w \notin Spenders(m) /\ (w \in Spenders(m)' <=> m = n)
          /\ delivered' = delivered /\ acknowledged' = acknowledged
      BY <1>1, PickNoticeEffect DEF Spenders, MaySpend
    <3>2. Cardinality(Spenders(m)') = Cardinality(Spenders(m)) + (IF m = n THEN 1 ELSE 0)
      BY <1>1, <3>1, PickNoticeEffect, OneSpender
    <3>3. Owed(m)' = IF m = n THEN 0 ELSE Owed(m)
      BY <1>1, PickNoticeEffect DEF Owed
    <3>4. m = n => Owed(m) = 1
      BY <1>1, PickNoticeEffect DEF Owed
    <3>. QED
      BY <3>1, <3>2, <3>3, <3>4 DEF MailInv, CreditsKept
  <2>. QED
    BY <1>1, <2>1, PickNoticeEffect DEF MailInv, CreditsKept, AcceptedTaken
<1>2. CASE LoadNotice(w) \/ PostRefused(w)
  <2>1. PICK t \in SendSteps : SendMoves(w, t)
    BY <1>2, SendMoved
  <2>2. /\ sending[w].step \in {"started", "posting"}
        /\ UNCHANGED <<notice, delivered, acknowledged>>
    BY <1>2, Zenon DEF LoadNotice, PostRefused
  <2>3. t \notin {"idle", "accepted"}
    <3>1. PICK s \in {"posting", "inactive", "unloaded", "refused", "rejected", "lost"} :
            sending' = [sending EXCEPT ![w].step = s]
      <4>1. (IF sending[w].row \in wanted THEN "posting" ELSE "inactive")
              \in {"posting", "inactive"}
        OBVIOUS
      <4>2. CASE LoadNotice(w)
        BY <4>1, <4>2, Zenon DEF LoadNotice
      <4>3. CASE PostRefused(w)
        BY <4>3, Zenon DEF PostRefused
      <4>. QED
        BY <1>2, <4>2, <4>3
    <3>2. SendMoves(w, s)
      BY <3>1, Moves, Steps
    <3>. QED
      BY <2>1, <3>1, <3>2 DEF SendMoves
  <2>4. ASSUME NEW m \in Notices
        PROVE  delivered'[m] + Cardinality(Spenders(m)') + Owed(m)' <= 1 + acknowledged'[m]
    <3>1. w \in Spenders(m)' => w \in Spenders(m)
      BY <2>1, <2>2 DEF Spenders, MaySpend, SendMoves
    <3>2. Cardinality(Spenders(m)') <= Cardinality(Spenders(m))
      BY <2>1, <3>1, OneSpender DEF SendMoves
    <3>3. Owed(m)' = Owed(m)
      BY <2>2 DEF Owed
    <3>. QED
      BY <2>2, <3>2, <3>3 DEF MailInv, CreditsKept
  <2>5. AcceptedTaken'
    BY <2>1, <2>2, <2>3 DEF MailInv, AcceptedTaken, SendMoves
  <2>. QED
    BY <2>4, <2>5 DEF MailInv, CreditsKept
<1>3. CASE PostTaken(w)
  <2>1. PICK t \in {"accepted", "lost"} : SendMoves(w, t)
    <3>1. PICK t \in {"accepted", "lost"} : sending' = [sending EXCEPT ![w].step = t]
      BY <1>3, Zenon DEF PostTaken
    <3>. QED
      BY <3>1, Moves, Steps
  <2>2. /\ sending[w].step = "posting"
        /\ delivered' = [delivered EXCEPT ![sending[w].row] = delivered[sending[w].row] + 1]
        /\ UNCHANGED <<notice, acknowledged>>
    BY <1>3, Zenon DEF PostTaken
  <2>3. delivered \in [Notices -> Nat] /\ sending[w].row \in Notices
    BY <2>2, TypeParts DEF MailInv, AcceptedTaken
  <2>4. \A m \in Notices : delivered'[m] =
          delivered[m] + (IF m = sending[w].row THEN 1 ELSE 0)
    BY <2>2, <2>3
  <2>5. ASSUME NEW m \in Notices
        PROVE  delivered'[m] + Cardinality(Spenders(m)') + Owed(m)' <= 1 + acknowledged'[m]
    <3>1. w \notin Spenders(m)' /\ (w \in Spenders(m) <=> m = sending[w].row)
      BY <2>1, <2>2 DEF Spenders, MaySpend, SendMoves
    <3>2. Cardinality(Spenders(m)') + (IF m = sending[w].row THEN 1 ELSE 0)
            = Cardinality(Spenders(m))
      BY <2>1, <3>1, OneSpender DEF SendMoves
    <3>3. Owed(m)' = Owed(m)
      BY <2>2 DEF Owed
    <3>. QED
      BY <2>2, <2>4, <3>2, <3>3 DEF MailInv, CreditsKept
  <2>6. AcceptedTaken'
    BY <2>1, <2>2, <2>3, <2>4 DEF MailInv, AcceptedTaken, SendMoves
  <2>. QED
    BY <2>5, <2>6 DEF MailInv, CreditsKept
<1>4. CASE FinishNotice(w)
  <2>1. ASSUME NEW m \in Notices
        PROVE  delivered'[m] + Cardinality(Spenders(m)') + Owed(m)' <= 1 + acknowledged'[m]
    <3>1. w \notin Spenders(m)'
      BY <1>4, FinishNoticeEffect DEF Spenders, MaySpend
    <3>2. Cardinality(Spenders(m)') + (IF w \in Spenders(m) THEN 1 ELSE 0)
            = Cardinality(Spenders(m))
      BY <1>4, <3>1, FinishNoticeEffect, OneSpender
    <3>3. Owed(m)' <= Owed(m) + (IF w \in Spenders(m) THEN 1 ELSE 0)
      <4>1. CASE notice'[m] = notice[m]
        BY <4>1 DEF Owed
      <4>2. CASE notice'[m].status = Outcome(w) /\ m = sending[w].row
                 /\ notice[m].status = "sending"
        <5>1. Outcome(w) \in {"none", "pending", "failed"} =>
                sending[w].step \notin {"accepted", "inactive", "lost"}
          BY DEF Outcome
        <5>2. sending[w].step \in SendSteps
          BY TypeParts DEF Held
        <5>3. Outcome(w) \in {"none", "pending", "failed"} => w \in Spenders(m)
          BY <1>4, <4>2, <5>1, <5>2, Steps, FinishNoticeEffect DEF Spenders, MaySpend
        <5>. QED
          BY <4>2, <5>3 DEF Owed
      <4>. QED
        BY <1>4, <4>1, <4>2, FinishNoticeEffect
    <3>. QED
      BY <1>4, <3>2, <3>3, FinishNoticeEffect DEF MailInv, CreditsKept
  <2>2. ASSUME NEW m \in Notices, notice'[m].status = "accepted"
        PROVE  delivered'[m] > 0
    <3>1. Outcome(w) = "accepted" => sending[w].step = "accepted"
      BY DEF Outcome
    <3>. QED
      BY <1>4, <2>2, <3>1, FinishNoticeEffect DEF MailInv, AcceptedTaken
  <2>. QED
    BY <1>4, <2>1, <2>2, FinishNoticeEffect DEF MailInv, CreditsKept, AcceptedTaken
<1>. QED
  BY <1>1, <1>2, <1>3, <1>4 DEF MailStep

LEMMA NextCredits == QueueTypeOK /\ MailInv /\ [Next]_vars => MailInv'
<1>. SUFFICES ASSUME QueueTypeOK, MailInv, [Next]_vars PROVE MailInv'
  OBVIOUS
<1>1. ASSUME NEW n \in Notices, Notify(n) \/ SweepNotice(n) PROVE MailInv'
  <2>1. /\ UNCHANGED <<sending, delivered, acknowledged>>
        /\ Notify(n) => notice[n].status = "none"
    BY <1>1, Zenon DEF Notify, SweepNotice
  <2>2. \A m : Spenders(m)' = Spenders(m)
    BY <2>1 DEF Spenders
  <2>3. \A m \in Notices : Owed(m)' <= Owed(m)
    BY <1>1, <2>1, NoticeEffect DEF Owed
  <2>4. \A m \in Notices : notice'[m].status = "accepted" => notice[m].status = "accepted"
    BY <1>1, NoticeEffect
  <2>. QED
    BY <2>1, <2>2, <2>3, <2>4, CreditsTyped, SpendersFinite
       DEF MailInv, CreditsKept, AcceptedTaken
<1>2. ASSUME NEW n \in Notices, RetryNotice(n) PROVE MailInv'
  <2>1. \A m : Spenders(m)' = Spenders(m)
    BY <1>2, RetryEffect DEF Spenders
  <2>2. \A m \in Notices : Owed(m)' <= Owed(m) + (acknowledged'[m] - acknowledged[m])
    BY <1>2, RetryEffect, CreditsTyped DEF Owed
  <2>3. \A m \in Notices : notice'[m].status = "accepted" => notice[m].status = "accepted"
    BY <1>2, RetryEffect
  <2>4. \A m \in Notices : acknowledged'[m] \in Nat
    BY <1>2, RetryEffect
  <2>. QED
    BY <1>2, <2>1, <2>2, <2>3, <2>4, RetryEffect, CreditsTyped, SpendersFinite
       DEF MailInv, CreditsKept, AcceptedTaken
<1>3. ASSUME NEW w \in Workers, Crash(w) PROVE MailInv'
  <2>1. ASSUME NEW m \in Notices
        PROVE  /\ Cardinality(Spenders(m)') <= Cardinality(Spenders(m))
               /\ Owed(m)' = Owed(m)
    <3>1. w \notin Spenders(m)'
      BY <1>3, CrashEffect DEF Spenders, MaySpend
    <3>2. Owed(m)' = Owed(m)
      BY <1>3, CrashEffect DEF Owed
    <3>. QED
      BY <1>3, <3>1, <3>2, CrashEffect, OneSpender, SpendersFinite
  <2>. QED
    BY <1>3, <2>1, CrashEffect, CreditsTyped, SpendersFinite
       DEF MailInv, CreditsKept, AcceptedTaken
<1>4. ASSUME NEW r \in Receipts, Request(r) \/ LoseLease(r) PROVE MailInv'
  BY <1>4, MailUntouched DEF Request, LoseLease, mailVars
<1>5. ASSUME NEW w \in Workers, TaskStep(w) PROVE MailInv'
  <2>1. UNCHANGED mailVars
    BY <1>5, Zenon DEF TaskStep, Pick, ReadReceipt, StoreEnvelope, FailTask, FinishTask
  <2>. QED
    BY <2>1, MailUntouched DEF mailVars
<1>6. ASSUME NEW n \in Notices, Resolve(n) PROVE MailInv'
  BY <1>6, MailUntouched DEF Resolve
<1>7. CASE UNCHANGED vars
  BY <1>7, MailUntouched DEF vars, mailVars
<1>8. ASSUME NEW w \in Workers, Configure(w) PROVE MailInv'
  BY <1>8, MailUntouched DEF Configure
<1>. QED
  BY <1>1, <1>2, <1>3, <1>4, <1>5, <1>6, <1>7, <1>8, MailStepCredits DEF Next

(* The provider takes an email once, and once more for each acknowledged     *)
(* retry of a send in doubt, for any number of processes, crashes and sweeps *)
(* of sends that are merely slow.                                            *)
THEOREM EmailsAreNotRepeatedSilently == Spec => []NoSilentDuplicate
<1>1. Spec => [](QueueTypeOK /\ MailInv)
  BY InitTyped, NextTyped, InitCredits, NextCredits, PTL DEF Spec
<1>2. QueueTypeOK /\ MailInv => NoSilentDuplicate
  BY CreditsTyped, SpendersFinite DEF MailInv, CreditsKept, AcceptedTaken, NoSilentDuplicate
<1>. QED
  BY <1>1, <1>2, PTL
-----------------------------------------------------------------------------
(* No task is forgotten *)

(* A lease of a running task is held under the latest token, and what a      *)
(* process calls succeeded is signed.                                        *)
Holding(r) == \E w \in Workers : Busy(w) /\ hand[w].row = r /\ HoldsToken(w)

HolderInv ==
  /\ \A w \in Workers : Busy(w) => hand[w].token > 0
  /\ \A w \in Workers : hand[w].step = "succeeded" => envelope[hand[w].row] # 0
  /\ \A r \in Receipts : task[r].status = "complete" => envelope[r] # 0
  /\ \A r \in Receipts : task[r].status = "running" /\ r \in leased => Holding(r)

LEMMA InitHolder == Init => HolderInv
BY DEF Init, HolderInv, Busy, Idle

(* A process goes on with its row. *)
LEMMA MovedHolder ==
  ASSUME HolderInv, NEW w \in Workers, NEW s, HandMoves(w, s), Busy(w), s # "idle",
         UNCHANGED <<task, leased>>,
         \A r : envelope[r] # 0 => envelope'[r] # 0,
         s = "succeeded" => envelope'[hand[w].row] # 0
  PROVE  HolderInv'
<1>1. \A v \in Workers : /\ hand'[v].row = hand[v].row /\ hand'[v].token = hand[v].token
                         /\ Busy(v)' <=> Busy(v)
  BY DEF HandMoves, Busy
<1>2. \A r \in Receipts : Holding(r) => Holding(r)'
  BY <1>1 DEF Holding, HoldsToken
<1>3. \A v \in Workers : hand'[v].step = "succeeded" => envelope'[hand'[v].row] # 0
  BY <1>1 DEF HandMoves, HolderInv
<1>. QED
  BY <1>1, <1>2, <1>3 DEF HolderInv

LEMMA NextHolder ==
  ASSUME QueueTypeOK, TokensFence, HolderInv, [Next]_vars
  PROVE  HolderInv'
<1>1. ASSUME NEW r \in Receipts, Request(r) PROVE HolderInv'
  <2>1. /\ \A q \in Receipts : q # r => task'[q] = task[q]
        /\ task'[r].attempts = task[r].attempts /\ task'[r].status = "queued"
        /\ UNCHANGED <<hand, envelope, leased>>
    BY <1>1, TypeParts, SetTask DEF Request, TaskStatus
  <2>2. \A q \in Receipts : Holding(q) => Holding(q)'
    BY <2>1 DEF Holding, Busy, HoldsToken
  <2>. QED
    BY <2>1, <2>2 DEF HolderInv, Busy
<1>2. ASSUME NEW w \in Workers, NEW r \in Receipts, Pick(w, r) PROVE HolderInv'
  <2>1. hand[w].step = "idle" /\ leased' = leased \cup {r}
    BY <1>2 DEF Pick, Idle
  <2>2. Holding(r)'
    BY <1>2, PickEffect DEF Holding, Busy, HoldsToken
  <2>3. ASSUME NEW q \in Receipts, q # r, Holding(q) PROVE Holding(q)'
    BY <1>2, <2>1, <2>3, PickEffect DEF Holding, Busy, HoldsToken
  <2>4. \A v \in Workers : Busy(v)' => hand'[v].token > 0
    BY <1>2, PickEffect, HandTyped DEF HolderInv, Busy
  <2>5. UNCHANGED envelope
    BY <1>2, PickEffect
  <2>6. \A v \in Workers : hand'[v].step = "succeeded" => envelope'[hand'[v].row] # 0
    BY <1>2, <2>5, PickEffect DEF HolderInv
  <2>7. \A q \in Receipts : q # r => task'[q] = task[q]
    BY <1>2, PickEffect
  <2>8. task'[r].status = "running"
    BY <1>2, PickEffect
  <2>. QED
    BY <2>1, <2>2, <2>3, <2>4, <2>5, <2>6, <2>7, <2>8 DEF HolderInv
<1>3. ASSUME NEW w \in Workers, ReadReceipt(w) PROVE HolderInv'
  <2>. DEFINE s == IF envelope[hand[w].row] = 0 THEN "signing" ELSE "succeeded"
  <2>1. /\ hand' = [hand EXCEPT ![w].step = s] /\ hand[w].step = "started"
        /\ UNCHANGED <<task, leased, envelope>>
    BY <1>3 DEF ReadReceipt
  <2>2. s \in HandSteps /\ s # "idle" /\ (s = "succeeded" => envelope[hand[w].row] # 0)
    BY Steps
  <2>. HIDE DEF s
  <2>. QED
    BY <2>1, <2>2, Moves, MovedHolder DEF Busy
<1>4. ASSUME NEW w \in Workers, FailTask(w) PROVE HolderInv'
  <2>1. HandMoves(w, "failed")
    BY <1>4, Moves, Steps DEF FailTask
  <2>. QED
    BY <1>4, <2>1, MovedHolder DEF FailTask, Busy
<1>5. ASSUME NEW w \in Workers, StoreEnvelope(w) PROVE HolderInv'
  <2>1. /\ \E t \in {"succeeded", "failed"} : HandMoves(w, t)
        /\ hand[w].step = "signing" /\ UNCHANGED <<task, leased>>
        /\ envelope' = Stores(w)
    BY <1>5, Moves, Steps, Zenon DEF StoreEnvelope
  <2>2. hand[w].row \in Receipts /\ hand[w].token > 0 /\ hand[w].token \in Nat
    BY <2>1, HandTyped DEF TokensFence, HolderInv, Busy
  <2>3. /\ \A r : envelope[r] # 0 => envelope'[r] # 0
        /\ envelope'[hand[w].row] # 0
    <3>1. envelope \in [Receipts -> Nat]
      BY TypeParts
    <3>. QED BY <2>1, <2>2, <3>1 DEF Stores
  <2>. QED
    BY <2>1, <2>3, MovedHolder DEF Busy
<1>6. ASSUME NEW w \in Workers, FinishTask(w) PROVE HolderInv'
  <2>1. /\ Busy(w) /\ UNCHANGED envelope
        /\ hand'[w].step = "idle" /\ \A v \in Workers : v # w => hand'[v] = hand[v]
    BY <1>6, FinishTaskEffect DEF Busy
  <2>2. leased' \subseteq leased
    BY <1>6 DEF FinishTask
  <2>3. ASSUME HoldsToken(w)
        PROVE  /\ task'[hand[w].row].status = Verdict(w)
               /\ Verdict(w) = "complete" => envelope[hand[w].row] # 0
               /\ Verdict(w) # "running"
    <3>1. task' = [task EXCEPT ![hand[w].row].status = Verdict(w)]
      BY <1>6, <2>3, Zenon DEF FinishTask
    <3>2. hand[w].row \in Receipts /\ Verdict(w) \in TaskStatus
      BY <2>1 DEF TokensFence, Verdict, TaskStatus
    <3>3. task'[hand[w].row].status = Verdict(w)
      BY <3>1, <3>2, TypeParts, SetTask
    <3>. QED
      BY <3>3 DEF Verdict, HolderInv
  <2>4. \A q \in Receipts : /\ task'[q].attempts = task[q].attempts
                            /\ task'[q].status # task[q].status =>
                                 HoldsToken(w) /\ hand[w].row = q
    BY <1>6, FinishTaskEffect
  <2>5. ASSUME NEW q \in Receipts, task'[q].status = "running", q \in leased'
        PROVE  Holding(q)'
    <3>1. ~(HoldsToken(w) /\ hand[w].row = q)
      BY <2>3, <2>5
    <3>2. task[q].status = "running" /\ q \in leased
      BY <2>2, <2>4, <2>5, <3>1
    <3>3. PICK v \in Workers : Busy(v) /\ hand[v].row = q /\ HoldsToken(v)
      BY <3>2 DEF HolderInv, Holding
    <3>4. v # w /\ hand'[v] = hand[v]
      BY <2>1, <3>1, <3>3
    <3>. QED
      BY <2>4, <3>3, <3>4 DEF Holding, Busy, HoldsToken
  <2>6. \A q \in Receipts : task'[q].status = "complete" => envelope'[q] # 0
    BY <2>1, <2>3, <2>4 DEF HolderInv
  <2>. QED
    BY <2>1, <2>5, <2>6 DEF HolderInv, Busy
<1>7. ASSUME NEW w \in Workers, Crash(w) PROVE HolderInv'
  <2>1. /\ hand'[w].step = "idle" /\ \A v \in Workers : v # w => hand'[v] = hand[v]
        /\ UNCHANGED <<task, envelope>>
    BY <1>7, CrashEffect
  <2>2. \A r \in leased' : r \in leased /\ ~(hand[w].row = r /\ HoldsToken(w))
    BY <1>7 DEF Crash
  <2>3. ASSUME NEW r \in leased', Holding(r) PROVE Holding(r)'
    BY <2>1, <2>2, <2>3 DEF Holding, Busy, HoldsToken
  <2>. QED
    BY <2>1, <2>2, <2>3 DEF HolderInv, Busy
<1>8. ASSUME UNCHANGED <<task, hand, envelope>>, leased' \subseteq leased PROVE HolderInv'
  <2>1. \A r \in Receipts : Holding(r) => Holding(r)'
    BY <1>8 DEF Holding, Busy, HoldsToken
  <2>. QED
    BY <1>8, <2>1 DEF HolderInv, Busy
<1>9. ASSUME NEW r \in Receipts, LoseLease(r) PROVE HolderInv'
  BY <1>8, <1>9 DEF LoseLease
<1>10. ASSUME NEW n \in Notices,
              Notify(n) \/ Resolve(n) \/ SweepNotice(n) \/ RetryNotice(n)
       PROVE  HolderInv'
  <2>1. UNCHANGED taskVars
    BY <1>10, Zenon DEF Notify, Resolve, SweepNotice, RetryNotice
  <2>. QED BY <1>8, <2>1 DEF taskVars
<1>11. ASSUME NEW w \in Workers, MailStep(w) PROVE HolderInv'
  <2>1. UNCHANGED taskVars
    BY <1>11, Zenon DEF MailStep, PickNotice, LoadNotice, PostTaken, PostRefused, FinishNotice
  <2>. QED BY <1>8, <2>1 DEF taskVars
<1>12. CASE UNCHANGED vars
  BY <1>8, <1>12 DEF vars, taskVars
<1>13. ASSUME NEW w \in Workers, Configure(w) PROVE HolderInv'
  BY <1>8, <1>13 DEF Configure, taskVars
<1>. QED
  BY <1>1, <1>2, <1>3, <1>4, <1>5, <1>6, <1>7, <1>9, <1>10, <1>11, <1>12, <1>13 DEF Next, TaskStep

(* A task ends with its effect, and until it ends it is due or a process has *)
(* it under the latest token: a process that dies, is paused past its lease  *)
(* or comes late leaves no task that nobody would take.                      *)
THEOREM TasksAreNotForgotten == Spec => []TaskHasHolder
<1>1. Spec => [](QueueTypeOK /\ TokensFence /\ HolderInv)
  BY InitTyped, NextTyped, InitFenced, HandStep, InitHolder, NextHolder, PTL DEF Spec
<1>2. HolderInv => TaskHasHolder
  BY DEF HolderInv, Holding, TaskHasHolder, Due, Busy
<1>. QED
  BY <1>1, <1>2, PTL
=============================================================================
