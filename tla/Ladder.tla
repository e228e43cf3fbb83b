------------------------------- MODULE Ladder -------------------------------
(***************************************************************************)
(* The competitive core of Science Ladder: acceptance of a prepared        *)
(* submission, its primary and confirmation runs on the trusted hosts,     *)
(* receipt-ordered adjudication, publication, and the editorial decisions  *)
(* that pause, retire or resolve a challenge version.                      *)
(*                                                                         *)
(* State is the control database (migrations/001_initial.sql); an action   *)
(* is one database transaction, which the row locks its handler takes make *)
(* atomic.  A submission is identified by the intent it was accepted from  *)
(* (submissions.intent_id is unique).  The lease a host holds on a runner  *)
(* job is its host_id here; fences, result tokens, expiry instants and the *)
(* late results they refuse are the subject of module RunnerLease.         *)
(***************************************************************************)
EXTENDS Scores, FiniteSets

CONSTANTS
  Intents,           \* submission intents whose artifact is ready
  Versions,          \* published challenge versions
  Milestones,        \* milestone tiers
  Hosts,             \* enabled runner hosts matching the execution profile
  VersionOf,         \* intent  -> version
  OwnerOf,           \* intent  -> account
  ArtifactOf,        \* intent  -> artifact digest
  PublishRequested,  \* intent  -> BOOLEAN, the publish flag of its request
  GroupOf,           \* host    -> host group
  PolicyOf,          \* version -> locked verification policy
  MetricOf,          \* version -> locked metric
  Threshold,         \* version -> (mapped milestone -> threshold ticks)
  Ticks,             \* score ticks a run may report
  Performance,       \* versions whose evaluation mode is "performance"
  Requires,          \* version -> mapped milestones with required properties
  Reports,           \* outcomes the runs of this instance may report
  Decisions,         \* editorial decisions taken in this instance
  Expiring,          \* versions whose deadline may pass in this instance
  ActiveLimit,       \* unresolved submissions one account may hold
  MaximumUnits,      \* capacity.maximum_units
  MaxAttempts,       \* claims after which an expired lease needs attention (8)
  NULL               \* SQL NULL

Policies  == {"platform", "independent"}
Purposes  == {"submission", "confirmation"}
RunFailures == {"hard_gate_failed", "invalid_output", "resource_limit",
                "declared_timeout", "nondeterministic", "malicious",
                "measurement_inconclusive"}
RunOutcomes == RunFailures \cup {"valid", "challenge_fault"}
EditorActions == {"pause", "resume", "reject", "withdraw", "compromise",
                  "resolve_unscorable"}

ASSUME LadderAssumption ==
  /\ IsFiniteSet(Intents) /\ IsFiniteSet(Hosts)
  /\ VersionOf \in [Intents -> Versions]
  /\ PublishRequested \in [Intents -> BOOLEAN]
  /\ PolicyOf \in [Versions -> Policies]
  /\ MetricOf \in [Versions -> Metric]
  /\ \A v \in Versions : /\ DOMAIN Threshold[v] \subseteq Milestones
                         /\ Threshold[v] \in [DOMAIN Threshold[v] -> Int]
  /\ Ticks \subseteq Int
  /\ Performance \subseteq Versions
  /\ \A v \in Performance : MetricOf[v].direction = "maximize"
  /\ \A v \in Versions : Requires[v] \subseteq DOMAIN Threshold[v]
  /\ Reports \subseteq RunOutcomes \cup {"infrastructure_fault"}
  /\ Decisions \subseteq EditorActions
  /\ Expiring \subseteq Versions
  /\ ActiveLimit \in Nat /\ MaximumUnits \in Nat /\ MaxAttempts \in Nat
  /\ NULL \notin Int /\ NULL \notin Intents /\ NULL \notin Hosts

VARIABLES
  vstatus,        \* challenge_versions.status
  intake,         \* challenge_versions.intake_status
  deadlinePassed, \* challenge_versions.deadline <= now()
  nextSequence,   \* challenge_versions.next_sequence
  watermark,      \* challenge_versions.watermark
  best,           \* challenge_versions.verified_best_id
  frontier,       \* challenge_versions.public_frontier_id
  status,         \* submissions.status, "none" before acceptance
  outcome,        \* submissions.outcome
  score,          \* submissions.score_ticks
  sequence,       \* submissions.sequence, 0 before acceptance
  public,         \* submissions.public
  receipt,        \* the AdjudicationReceipt of submissions.adjudication_digest
  grant,          \* validation_grants.status
  reservation,    \* capacity_reservations row: none, held or released
  reserved,       \* capacity.reserved_units
  job,            \* runner_jobs with their runner_results, per intent and purpose
  claim,          \* milestone_claims: milestone -> submission
  task            \* jobs rows of the worker, per kind and submission

versionVars    == <<vstatus, intake, deadlinePassed, nextSequence, watermark,
                    best, frontier>>
submissionVars == <<status, outcome, score, sequence, public, receipt>>
capacityVars   == <<grant, reservation, reserved>>
vars == <<versionVars, submissionVars, capacityVars, job, claim, task>>

-----------------------------------------------------------------------------
(* Types *)

VersionStatus    == {"published", "withdrawn", "compromised"}
IntakeStatus     == {"open", "paused", "closed"}
SubmissionStatus == {"none", "accepted", "queued", "confirmation_running",
                     "challenge_fault", "validated", "finalized"}
Outcome     == {"pending", "challenge_unscorable", "valid"} \cup RunFailures
JobStatus   == {"none", "queued", "running", "complete",
                "attention_required", "cancelled"}
Groups      == {GroupOf[h] : h \in Hosts}
Job == [status : JobStatus, host : Hosts \cup {NULL}, attempts : Nat,
        excluded : SUBSET Hosts, excludedGroup : Groups \cup {NULL},
        outcome : RunOutcomes \cup {NULL}, score : Int \cup {NULL},
        meets : SUBSET Milestones]
Receipt == [outcome : Outcome, score : Int \cup {NULL}, record : BOOLEAN,
            advance : BOOLEAN, milestones : SUBSET Milestones]
TaskKinds   == {"validate_submission", "adjudicate"}
TaskStatus  == {"none", "queued", "complete"}

ASSUME NullAssumption == NULL \notin Receipt

TypeOK ==
  /\ vstatus \in [Versions -> VersionStatus]
  /\ intake \in [Versions -> IntakeStatus]
  /\ deadlinePassed \in [Versions -> BOOLEAN]
  /\ nextSequence \in [Versions -> Nat]
  /\ watermark \in [Versions -> Nat]
  /\ best \in [Versions -> Intents \cup {NULL}]
  /\ frontier \in [Versions -> Intents \cup {NULL}]
  /\ status \in [Intents -> SubmissionStatus]
  /\ outcome \in [Intents -> Outcome]
  /\ score \in [Intents -> Int \cup {NULL}]
  /\ sequence \in [Intents -> Nat]
  /\ public \in [Intents -> BOOLEAN]
  /\ receipt \in [Intents -> Receipt \cup {NULL}]
  /\ grant \in [Intents -> {"none", "reserved", "consumed"}]
  /\ reservation \in [Intents -> {"none", "held", "released"}]
  /\ reserved \in Int
  /\ job \in [Intents -> [Purposes -> Job]]
  /\ claim \in [Milestones -> Intents \cup {NULL}]
  /\ task \in [TaskKinds -> [Intents -> TaskStatus]]

NoJob == [status |-> "none", host |-> NULL, attempts |-> 0, excluded |-> {},
          excludedGroup |-> NULL, outcome |-> NULL, score |-> NULL, meets |-> {}]

(* The row a runner_jobs INSERT creates. *)
QueuedJob(excluded, group) ==
  [NoJob EXCEPT !.status = "queued", !.excluded = excluded,
                !.excludedGroup = group]

Init ==
  /\ vstatus = [v \in Versions |-> "published"]
  /\ intake = [v \in Versions |-> "open"]
  /\ deadlinePassed = [v \in Versions |-> FALSE]
  /\ nextSequence = [v \in Versions |-> 0]
  /\ watermark = [v \in Versions |-> 0]
  /\ best = [v \in Versions |-> NULL]
  /\ frontier = [v \in Versions |-> NULL]
  /\ status = [i \in Intents |-> "none"]
  /\ outcome = [i \in Intents |-> "pending"]
  /\ score = [i \in Intents |-> NULL]
  /\ sequence = [i \in Intents |-> 0]
  /\ public = [i \in Intents |-> FALSE]
  /\ receipt = [i \in Intents |-> NULL]
  /\ grant = [i \in Intents |-> "none"]
  /\ reservation = [i \in Intents |-> "none"]
  /\ reserved = 0
  /\ job = [i \in Intents |-> [p \in Purposes |-> NoJob]]
  /\ claim = [m \in Milestones |-> NULL]
  /\ task = [k \in TaskKinds |-> [i \in Intents |-> "none"]]

-----------------------------------------------------------------------------
(* Acceptance: acceptIntent *)

Accepted(i)  == status[i] # "none"

Active(owner) == {i \in Intents : /\ OwnerOf[i] = owner
                                  /\ status[i] \notin {"none", "finalized"}}
MinimumGroups(v) == IF PolicyOf[v] = "independent" THEN 2 ELSE 1

(* An artifact already accepted on the version is refused, or answered with  *)
(* the original submission when the same account owns it; neither writes.    *)
Duplicate(i) ==
  \E j \in Intents : /\ Accepted(j)
                     /\ VersionOf[j] = VersionOf[i]
                     /\ ArtifactOf[j] = ArtifactOf[i]

AcceptIntent(i) ==
  LET v == VersionOf[i] IN
  /\ ~Accepted(i)
  /\ intake[v] = "open" /\ ~deadlinePassed[v]
  /\ Cardinality(Active(OwnerOf[i])) < ActiveLimit
  /\ Cardinality(Groups) >= MinimumGroups(v)
  /\ ~Duplicate(i)
  /\ reserved + 2 <= MaximumUnits
  /\ reserved' = reserved + 2
  /\ grant' = [grant EXCEPT ![i] = "reserved"]
  /\ status' = [status EXCEPT ![i] = "accepted"]
  /\ sequence' = [sequence EXCEPT ![i] = nextSequence[v] + 1]
  /\ reservation' = [reservation EXCEPT ![i] = "held"]
  /\ nextSequence' = [nextSequence EXCEPT ![v] = nextSequence[v] + 1]
  /\ task' = [task EXCEPT !["validate_submission"][i] = "queued"]
  /\ UNCHANGED <<vstatus, intake, deadlinePassed, watermark, best, frontier,
                 outcome, score, public, receipt, job, claim>>

-----------------------------------------------------------------------------
(* The worker.  Its handler commits first and the jobs row is marked         *)
(* complete in a second statement, so a worker that dies in between leaves   *)
(* the row to be leased and run again (workOne).                             *)

WorkOne(kind, i) ==
  /\ task[kind][i] = "queued"
  /\ \E after \in {"queued", "complete"} :
       task' = [task EXCEPT ![kind][i] = after]

(* Seeded fault: the follow-up task is never enqueued. *)
EnqueueForgotten(kind, S) == UNCHANGED task

(* enqueue: UNIQUE(kind, resource_id), ON CONFLICT DO NOTHING *)
Enqueue(kind, S) ==
  task' = [task EXCEPT ![kind] =
             [i \in Intents |-> IF i \in S /\ @[i] = "none" THEN "queued"
                                                            ELSE @[i]]]

(* queueSubmission, the validate_submission task *)
QueueSubmission(i) ==
  /\ WorkOne("validate_submission", i)
  /\ IF job[i]["submission"].status # "none"
     THEN UNCHANGED <<job, grant, status>>
     ELSE /\ job' = [job EXCEPT ![i]["submission"] = QueuedJob({}, NULL)]
          /\ grant' = [grant EXCEPT ![i] =
                         IF @ = "reserved" THEN "consumed" ELSE @]
          /\ status' = [status EXCEPT ![i] = "queued"]
  /\ UNCHANGED <<versionVars, outcome, score, sequence, public, receipt,
                 reservation, reserved, claim>>

-----------------------------------------------------------------------------
(* Runner jobs *)

(* claimRunnerJob: the row a host's SELECT may return, leased by the CAS *)
MayClaim(i, p, h) == /\ job[i][p].status = "queued"
                     /\ h \notin job[i][p].excluded
                     /\ job[i][p].excludedGroup # GroupOf[h]

ClaimRunnerJob(i, p, h) ==
  /\ MayClaim(i, p, h)
  /\ job' = [job EXCEPT ![i][p] =
       [job[i][p] EXCEPT !.status = "running", !.host = h,
                         !.attempts = job[i][p].attempts + 1]]
  /\ UNCHANGED <<versionVars, submissionVars, capacityVars, claim, task>>

(* recoverRunnerLeases, for a lease that expired without a result *)
RecoverRunnerLease(i, p) ==
  /\ job[i][p].status = "running"
  /\ job' = [job EXCEPT ![i][p] =
       [job[i][p] EXCEPT
         !.status = IF job[i][p].attempts >= MaxAttempts
                    THEN "attention_required" ELSE "queued",
         !.excluded = IF PolicyOf[VersionOf[i]] = "platform" THEN job[i][p].excluded
                      ELSE job[i][p].excluded \cup {job[i][p].host},
         !.host = NULL]]
  /\ UNCHANGED <<versionVars, submissionVars, capacityVars, claim, task>>

(* runnerResult with outcome infrastructure_fault: another host retries *)
InfrastructureFault(i, p) ==
  /\ "infrastructure_fault" \in Reports
  /\ job[i][p].status = "running"
  /\ job' = [job EXCEPT ![i][p] =
       [job[i][p] EXCEPT !.status = "queued",
                         !.excluded = job[i][p].excluded \cup {job[i][p].host},
                         !.host = NULL]]
  /\ UNCHANGED <<versionVars, submissionVars, capacityVars, claim, task>>

(* The runner_results row, and the job it completes.  The measurements of a *)
(* valid run are kept as the milestones whose required properties they meet. *)
Completed(i, p, o, t, met) ==
  [job[i][p] EXCEPT !.status = "complete", !.outcome = o, !.score = t,
                    !.meets = met]

(* runnerResult with outcome challenge_fault: an incident, not a result *)
ChallengeFault(i, p) ==
  /\ "challenge_fault" \in Reports
  /\ job[i][p].status = "running"
  /\ job' = [job EXCEPT ![i][p] = Completed(i, p, "challenge_fault", NULL, {})]
  /\ status' = [status EXCEPT ![i] = "challenge_fault"]
  /\ outcome' = [outcome EXCEPT ![i] = "pending"]
  /\ intake' = [intake EXCEPT ![VersionOf[i]] = "paused"]
  /\ UNCHANGED <<vstatus, deadlinePassed, nextSequence, watermark, best,
                 frontier, score, sequence, public, receipt, capacityVars,
                 claim, task>>

(* runnerResult, a valid primary run: a fresh confirmation is queued *)
PrimaryValid(i, t, met) ==
  LET host == job[i]["submission"].host
      apart == PolicyOf[VersionOf[i]] = "independent" IN
  /\ job[i]["submission"].status = "running"
  /\ job' = [job EXCEPT
       ![i] = [p \in Purposes |->
                 IF p = "submission" THEN Completed(i, p, "valid", t, met)
                 ELSE QueuedJob(IF apart THEN {host} ELSE {},
                                IF apart THEN GroupOf[host] ELSE NULL)]]
  /\ status' = [status EXCEPT ![i] = "confirmation_running"]
  /\ UNCHANGED <<versionVars, outcome, score, sequence, public, receipt,
                 capacityVars, claim, task>>

(* The final part of runnerResult: the submission is validated with outcome *)
(* o and, only when valid, the score t; unstable outcomes pause intake.     *)
Validated(i, o, t) ==
  /\ status' = [status EXCEPT ![i] = "validated"]
  /\ outcome' = [outcome EXCEPT ![i] = o]
  /\ score' = [score EXCEPT ![i] = IF o = "valid" THEN t ELSE NULL]
  /\ intake' = IF o = "nondeterministic"
               THEN [intake EXCEPT ![VersionOf[i]] = "paused"] ELSE intake
  /\ Enqueue("adjudicate", {i})

PrimaryFailed(i, o) ==
  /\ job[i]["submission"].status = "running"
  /\ job' = [job EXCEPT ![i]["submission"] =
                Completed(i, "submission", o, NULL, {})]
  /\ Validated(i, o, NULL)
  /\ UNCHANGED <<vstatus, deadlinePassed, nextSequence, watermark, best,
                 frontier, sequence, public, receipt, capacityVars, claim>>

(* runnerResult, the confirmation run.  The primary it is compared with was *)
(* valid.  Two valid runs agree when their scores are within the tolerance   *)
(* (ConfirmedScore) or, for a timing measurement, when their confidence      *)
(* intervals overlap (ConfirmMeasuredRuns; the intervals are not part of     *)
(* the state, so either answer is possible).                                 *)
Agree(v, a, b, overlap) ==
  IF v \in Performance THEN overlap ELSE WithinTolerance(a, b, MetricOf[v])

(* Seeded fault: the confirmation's score replaces the primary's. *)
ConfirmedLatest(v, a, b) == b

Confirmed(v, a, b) ==
  IF v \in Performance THEN IF a < b THEN a ELSE b
  ELSE ConfirmedScore(a, b, MetricOf[v])

Disagreement(v) ==
  IF v \in Performance THEN "measurement_inconclusive" ELSE "nondeterministic"

ConfirmationResult(i, o, t, met, overlap) ==
  LET first == job[i]["submission"]
      v == VersionOf[i] IN
  /\ job[i]["confirmation"].status = "running"
  /\ PolicyOf[v] = "independent" =>
       GroupOf[first.host] # GroupOf[job[i]["confirmation"].host]
  /\ job' = [job EXCEPT ![i]["confirmation"] =
                Completed(i, "confirmation", o, t, met)]
  /\ IF o = "valid" /\ Agree(v, first.score, t, overlap)
     THEN Validated(i, "valid", Confirmed(v, first.score, t))
     ELSE Validated(i, Disagreement(v), NULL)
  /\ UNCHANGED <<vstatus, deadlinePassed, nextSequence, watermark, best,
                 frontier, sequence, public, receipt, capacityVars, claim>>

RunnerResult(i) ==
  \/ \E p \in Purposes : InfrastructureFault(i, p) \/ ChallengeFault(i, p)
  \/ /\ "valid" \in Reports
     /\ \E t \in Ticks, met \in SUBSET Requires[VersionOf[i]] :
          \/ PrimaryValid(i, t, met)
          \/ \E overlap \in BOOLEAN :
               ConfirmationResult(i, "valid", t, met, overlap)
  \/ \E o \in Reports \cap RunFailures :
       PrimaryFailed(i, o) \/ ConfirmationResult(i, o, NULL, {}, FALSE)

-----------------------------------------------------------------------------
(* Adjudication: adjudicate locks the version row and processes the          *)
(* contiguous validated receipts after the watermark in one transaction.     *)

Ready(v, n) == \E i \in Intents : /\ VersionOf[i] = v /\ sequence[i] = n
                                  /\ status[i] = "validated"

(* Seeded fault: receipts behind an unfinished one are processed too. *)
BatchSkippingGaps(v, w) ==
  {i \in Intents : /\ VersionOf[i] = v /\ sequence[i] > watermark[v]
                   /\ status[i] = "validated"}

(* The receipts the loop processes when it stops at watermark w. *)
Batch(v, w) == {i \in Intents : /\ VersionOf[i] = v
                                /\ sequence[i] \in (watermark[v] + 1)..w}

Valid(i) == outcome[i] = "valid" /\ score[i] # NULL
Before(S, i) == {j \in S : sequence[j] < sequence[i]}
Latest(S) == CHOOSE i \in S : \A j \in S : sequence[j] <= sequence[i]

TicksOf(v, id) == IF id = NULL THEN MetricOf[v].baseline ELSE score[id]

(* ConfirmedAchievement: both runs show every property the milestone needs. *)
ConfirmedAchievement(i, m) ==
  m \in Requires[VersionOf[i]] => \A p \in Purposes : m \in job[i][p].meets

Crossed(i) ==
  LET v == VersionOf[i] IN
  {m \in DOMAIN Threshold[v] :
     /\ Valid(i) /\ ConfirmedAchievement(i, m)
     /\ crosses(score[i], Threshold[v][m], MetricOf[v].direction)}

(* Seeded fault: receipts of one batch do not see each other's claims. *)
ClaimsIgnoringBatch(B, i) == {m \in Crossed(i) : claim[m] = NULL}

(* i claims the unclaimed milestones it crosses that no earlier receipt of   *)
(* the batch has just claimed.                                               *)
Claims(B, i) == {m \in Crossed(i) : /\ claim[m] = NULL
                                    /\ \A j \in Before(B, i) : m \notin Crossed(j)}

(* Seeded fault: equalling the best counts as a record. *)
RecordOnTie(v, B, i) ==
  /\ Valid(i)
  /\ \A t \in {TicksOf(v, best[v])} \cup {score[j] : j \in {k \in Before(B, i) : Valid(k)}} :
       crosses(score[i], t, MetricOf[v].direction)

(* i beats the verified best and every earlier valid receipt of the batch. *)
Record(v, B, i) ==
  LET beats(t) == better(score[i], t, MetricOf[v].direction) IN
  /\ Valid(i)
  /\ beats(TicksOf(v, best[v]))
  /\ \A j \in Before(B, i) : Valid(j) => beats(score[j])

Publishes(B, i) == PublishRequested[i] \/ Claims(B, i) # {}

Published(B) == {i \in B : Valid(i) /\ Publishes(B, i)}

(* Seeded fault: every receipt is compared with the frontier the batch        *)
(* started from.                                                              *)
AdvancesFromStart(v, B, A) ==
  A = {i \in Published(B) :
         meaningful(score[i], TicksOf(v, frontier[v]), MetricOf[v])}

(* A is the set of receipts of the batch that advance the public frontier:   *)
(* those published with a meaningful gain over the frontier as the previous  *)
(* advance left it.                                                          *)
Advances(v, B, A) ==
  LET prior(i) == IF Before(A, i) = {} THEN TicksOf(v, frontier[v])
                                       ELSE score[Latest(Before(A, i))] IN
  \A i \in Published(B) :
    i \in A <=> meaningful(score[i], prior(i), MetricOf[v])

(* Seeded fault: failed submissions keep their capacity. *)
ReleaseCapacityOfValid(B) ==
  /\ reservation' = [i \in Intents |-> IF i \in B THEN "released" ELSE reservation[i]]
  /\ reserved' = reserved - 2 * Cardinality({i \in B : Valid(i)})

(* A reservation is released once; its two units return to the pool. *)
ReleaseCapacity(B) ==
  /\ reservation' = [i \in Intents |-> IF i \in B /\ reservation[i] = "held"
                                       THEN "released" ELSE reservation[i]]
  /\ reserved' = reserved - 2 * Cardinality({i \in B : reservation[i] = "held"})

AdjudicateBatch(v, w, B, A) ==
  LET records == {i \in B : Record(v, B, i)} IN
  /\ watermark' = [watermark EXCEPT ![v] = w]
  /\ best' = [best EXCEPT ![v] = IF records = {} THEN @ ELSE Latest(records)]
  /\ frontier' = [frontier EXCEPT ![v] = IF A = {} THEN @ ELSE Latest(A)]
  /\ receipt' = [i \in Intents |->
       IF i \in B
       THEN [outcome |-> outcome[i], score |-> score[i],
             record |-> i \in records, advance |-> i \in A,
             milestones |-> Claims(B, i)]
       ELSE receipt[i]]
  /\ claim' = [m \in Milestones |->
       IF \E i \in B : m \in Claims(B, i)
       THEN CHOOSE i \in B : m \in Claims(B, i) ELSE claim[m]]
  /\ status' = [i \in Intents |-> IF i \in B THEN "finalized" ELSE status[i]]
  /\ public' = [i \in Intents |-> IF i \in B THEN Publishes(B, i) ELSE public[i]]
  /\ ReleaseCapacity(B)

Adjudicate(i) ==
  LET v == VersionOf[i] IN
  /\ WorkOne("adjudicate", i)
  /\ \E w \in watermark[v]..nextSequence[v] :
       /\ \A n \in (watermark[v] + 1)..w : Ready(v, n)
       /\ ~Ready(v, w + 1)
       /\ \E A \in SUBSET Published(Batch(v, w)) :
            /\ Advances(v, Batch(v, w), A)
            /\ AdjudicateBatch(v, w, Batch(v, w), A)
  /\ UNCHANGED <<vstatus, intake, deadlinePassed, nextSequence, outcome, score,
                 sequence, grant, job>>

(* Seeded fault: any published result becomes the frontier. *)
FrontierTakenByLatest(v, i) == i

(* publishSubmission: the owner publishes a finalized valid artifact.  It may *)
(* advance the frontier but never claims a milestone.                         *)
FrontierAfterPublishing(v, i) ==
  IF meaningful(score[i], TicksOf(v, frontier[v]), MetricOf[v]) THEN i
                                                          ELSE frontier[v]

PublishSubmission(i) ==
  LET v == VersionOf[i] IN
  /\ status[i] = "finalized" /\ outcome[i] = "valid" /\ ~public[i]
  /\ frontier' = [frontier EXCEPT ![v] = FrontierAfterPublishing(v, i)]
  /\ public' = [public EXCEPT ![i] = TRUE]
  /\ UNCHANGED <<vstatus, intake, deadlinePassed, nextSequence, watermark, best,
                 status, outcome, score, sequence, receipt, capacityVars, job,
                 claim, task>>

-----------------------------------------------------------------------------
(* Editorial decisions on a published version: editorDecision *)

Pause(v) ==
  /\ vstatus[v] = "published"
  /\ intake' = [intake EXCEPT ![v] = "paused"]
  /\ UNCHANGED <<vstatus, deadlinePassed, nextSequence, watermark, best,
                 frontier, submissionVars, capacityVars, job, claim, task>>

(* Seeded fault: resume looks at the intake only. *)
ResumeAnyStatus(v) ==
  /\ intake[v] = "paused" /\ ~deadlinePassed[v]
  /\ intake' = [intake EXCEPT ![v] = "open"]
  /\ UNCHANGED <<vstatus, deadlinePassed, nextSequence, watermark, best,
                 frontier, submissionVars, capacityVars, job, claim, task>>

Resume(v) ==
  /\ vstatus[v] = "published" /\ intake[v] = "paused" /\ ~deadlinePassed[v]
  /\ intake' = [intake EXCEPT ![v] = "open"]
  /\ UNCHANGED <<vstatus, deadlinePassed, nextSequence, watermark, best,
                 frontier, submissionVars, capacityVars, job, claim, task>>

(* reject also closes the intake of a version that is already published *)
Reject(v) ==
  /\ intake' = [intake EXCEPT ![v] = "closed"]
  /\ UNCHANGED <<vstatus, deadlinePassed, nextSequence, watermark, best,
                 frontier, submissionVars, capacityVars, job, claim, task>>

Retire(v, s) ==
  /\ vstatus' = [vstatus EXCEPT ![v] = s]
  /\ intake' = [intake EXCEPT ![v] = "closed"]

Withdraw(v) ==
  /\ vstatus[v] = "published"
  /\ Retire(v, "withdrawn")
  /\ UNCHANGED <<deadlinePassed, nextSequence, watermark, best, frontier,
                 submissionVars, capacityVars, job, claim, task>>

Compromise(v) ==
  /\ Retire(v, "compromised")
  /\ UNCHANGED <<deadlinePassed, nextSequence, watermark, best, frontier,
                 submissionVars, capacityVars, job, claim, task>>

(* resolve_unscorable: every unresolved receipt of a version whose checker   *)
(* faulted ends as challenge_unscorable and its runner jobs are cancelled.   *)
ResolveUnscorable(v) ==
  LET open == {i \in Intents : /\ VersionOf[i] = v
                               /\ status[i] \notin {"none", "finalized"}}
      live == {"queued", "running", "attention_required"} IN
  /\ \E i \in open : status[i] = "challenge_fault"
  /\ Retire(v, "compromised")
  /\ status' = [i \in Intents |-> IF i \in open THEN "validated" ELSE status[i]]
  /\ outcome' = [i \in Intents |->
                   IF i \in open THEN "challenge_unscorable" ELSE outcome[i]]
  /\ score' = [i \in Intents |-> IF i \in open THEN NULL ELSE score[i]]
  /\ job' = [i \in Intents |-> [p \in Purposes |->
       IF VersionOf[i] = v /\ job[i][p].status \in live
       THEN [job[i][p] EXCEPT !.status = "cancelled"] ELSE job[i][p]]]
  /\ Enqueue("adjudicate", open)
  /\ UNCHANGED <<deadlinePassed, nextSequence, watermark, best, frontier,
                 sequence, public, receipt, capacityVars, claim>>

EditorDecision(v) ==
  \/ "pause" \in Decisions /\ Pause(v)
  \/ "resume" \in Decisions /\ Resume(v)
  \/ "reject" \in Decisions /\ Reject(v)
  \/ "withdraw" \in Decisions /\ Withdraw(v)
  \/ "compromise" \in Decisions /\ Compromise(v)
  \/ "resolve_unscorable" \in Decisions /\ ResolveUnscorable(v)

DeadlinePasses(v) ==
  /\ v \in Expiring /\ ~deadlinePassed[v]
  /\ deadlinePassed' = [deadlinePassed EXCEPT ![v] = TRUE]
  /\ UNCHANGED <<vstatus, intake, nextSequence, watermark, best, frontier,
                 submissionVars, capacityVars, job, claim, task>>

-----------------------------------------------------------------------------
Next ==
  \/ \E i \in Intents :
       \/ AcceptIntent(i) \/ QueueSubmission(i)
       \/ \E p \in Purposes : \/ \E h \in Hosts : ClaimRunnerJob(i, p, h)
                              \/ RecoverRunnerLease(i, p)
       \/ RunnerResult(i) \/ Adjudicate(i) \/ PublishSubmission(i)
  \/ \E v \in Versions : EditorDecision(v) \/ DeadlinePasses(v)

Spec == Init /\ [][Next]_vars

(* Fairness: the worker loop runs every task it can lease, hosts poll for     *)
(* work, and a host that runs a job reports something about it.               *)
FairSpec ==
  /\ Spec
  /\ \A i \in Intents :
       /\ WF_vars(QueueSubmission(i)) /\ WF_vars(Adjudicate(i))
       /\ WF_vars(RunnerResult(i))
       /\ \A p \in Purposes : WF_vars(\E h \in Hosts : ClaimRunnerJob(i, p, h))

-----------------------------------------------------------------------------
(* Properties *)

ValidReceipts(v) == {i \in Intents : /\ VersionOf[i] = v /\ receipt[i] # NULL
                                     /\ receipt[i].outcome = "valid"}

(* Receipts are adjudicated exactly in acceptance order: whatever order the   *)
(* runs finish in, the adjudicated submissions of a version are those with    *)
(* sequence 1 up to its watermark, and the watermark never passes the last    *)
(* accepted one (adjudicate's loop over watermark+1).                         *)
WatermarkOrder ==
  /\ \A i \in Intents :
       receipt[i] # NULL <=> sequence[i] \in 1..watermark[VersionOf[i]]
  /\ \A v \in Versions : watermark[v] <= nextSequence[v]

(* A milestone belongs to the first accepted submission that crosses it: the  *)
(* claim names a valid receipt that crosses the threshold with the required   *)
(* properties shown by both runs, no receipt of its version with an earlier   *)
(* sequence does, no other receipt of any version names the milestone, and a  *)
(* crossed milestone is always claimed, even when one transaction adjudicates *)
(* several crossing receipts.                                                 *)
FirstCrosserClaims ==
  LET shown(v, i, m) == m \in Requires[v] =>
        m \in job[i]["submission"].meets \cap job[i]["confirmation"].meets
      cross(v, m) == {i \in ValidReceipts(v) :
        /\ shown(v, i, m)
        /\ crosses(receipt[i].score, Threshold[v][m], MetricOf[v].direction)} IN
  \A v \in Versions : \A m \in DOMAIN Threshold[v] :
    /\ cross(v, m) # {} => claim[m] # NULL
    /\ \A i \in Intents : receipt[i] # NULL /\ m \in receipt[i].milestones
                           => claim[m] = i
    /\ claim[m] # NULL /\ VersionOf[claim[m]] = v =>
         /\ claim[m] \in cross(v, m)
         /\ \A j \in cross(v, m) : sequence[claim[m]] <= sequence[j]

(* The verified best is what a sequential reading of the receipts gives: the  *)
(* earliest of the best valid scores, and none while no score beats the       *)
(* baseline (record in adjudicate is a strict improvement).                   *)
VerifiedBest ==
  \A v \in Versions :
    LET d == MetricOf[v].direction
        ahead == {i \in ValidReceipts(v) :
                    better(receipt[i].score, MetricOf[v].baseline, d)} IN
    /\ best[v] = NULL <=> ahead = {}
    /\ best[v] # NULL =>
         /\ best[v] \in ahead
         /\ \A j \in ahead \ {best[v]} :
              \/ better(receipt[best[v]].score, receipt[j].score, d)
              \/ /\ receipt[best[v]].score = receipt[j].score
                 /\ sequence[best[v]] < sequence[j]

(* A valid adjudication rests on two completed valid runs, on hosts of        *)
(* different groups when the locked policy is independent, and its score is   *)
(* one of theirs and better than neither (runnerResult, ConfirmedScore).      *)
ConfirmedTwice ==
  \A v \in Versions : \A i \in ValidReceipts(v) :
    LET a == job[i]["submission"]
        b == job[i]["confirmation"]
        s == receipt[i].score IN
    /\ a.status = "complete" /\ b.status = "complete"
    /\ a.outcome = "valid" /\ b.outcome = "valid"
    /\ PolicyOf[v] = "independent" => GroupOf[a.host] # GroupOf[b.host]
    /\ s \in {a.score, b.score}
    /\ ~better(s, a.score, MetricOf[v].direction)
    /\ ~better(s, b.score, MetricOf[v].direction)

(* Two capacity units stay reserved for exactly the accepted submissions not  *)
(* yet adjudicated, through every retry, fault, cancellation and repeated     *)
(* worker run, and never more than the pool holds.                            *)
CapacityConserved ==
  /\ reserved = 2 * Cardinality({i \in Intents : Accepted(i) /\ receipt[i] = NULL})
  /\ reserved <= MaximumUnits

(* No account has more than ActiveLimit accepted submissions waiting for      *)
(* adjudication (the count under the users row lock in acceptIntent).         *)
ActiveLimitHolds ==
  \A i \in Intents :
    Cardinality({j \in Intents : /\ OwnerOf[j] = OwnerOf[i]
                                 /\ Accepted(j) /\ receipt[j] = NULL}) <= ActiveLimit

(* The public frontier is a public valid result ahead of the baseline by the  *)
(* minimum delta, no better than the verified best, and no public result is   *)
(* a meaningful improvement over it, whether it became public in adjudication *)
(* or by a later voluntary publication.                                       *)
FrontierIsPublicBest ==
  \A v \in Versions :
    LET m == MetricOf[v]
        at == IF frontier[v] = NULL THEN m.baseline
                                    ELSE receipt[frontier[v]].score IN
    /\ frontier[v] # NULL =>
         /\ frontier[v] \in ValidReceipts(v) /\ public[frontier[v]]
         /\ meaningful(at, m.baseline, m)
         /\ best[v] # NULL /\ ~better(at, receipt[best[v]].score, m.direction)
    /\ \A i \in ValidReceipts(v) : public[i] => ~meaningful(receipt[i].score, at, m)

(* A submission that holds a milestone is public: adjudicate publishes what   *)
(* claims, whatever its owner asked for.                                      *)
ClaimsArePublic == \A m \in Milestones : claim[m] # NULL => public[claim[m]]

(* The frontier only ever moves by a gain of at least the minimum delta, even *)
(* when a voluntary publication follows later adjudications.                  *)
FrontierMonotone ==
  [][\A v \in Versions : frontier'[v] # frontier[v] =>
       Gain(score'[frontier'[v]],
            IF frontier[v] = NULL THEN MetricOf[v].baseline ELSE score[frontier[v]],
            MetricOf[v].direction) >= MetricOf[v].minimumDelta]_vars

(* A withdrawn or compromised version accepts nothing more, although a late   *)
(* run result may overwrite its closed intake with paused.                    *)
RetiredRefuses ==
  [][\A v \in Versions :
       vstatus[v] # "published" => nextSequence'[v] = nextSequence[v]]_vars

(* The job statuses in which a run is still to come or to be decided. *)
Unfinal == {"queued", "running", "attention_required"}

Unresolved(v) ==
  \A i \in Intents : VersionOf[i] = v => outcome[i] # "challenge_unscorable"

(* The receipt after the watermark waits for an operator: its checker         *)
(* faulted, its lease attempts are used up, or every host is excluded.        *)
Blocked(v) ==
  \E i \in Intents :
    /\ VersionOf[i] = v /\ sequence[i] = watermark[v] + 1
    /\ \/ status[i] = "challenge_fault"
       \/ \E p \in Purposes :
            \/ job[i][p].status = "attention_required"
            \/ /\ job[i][p].status = "queued"
               /\ ~\E h \in Hosts : MayClaim(i, p, h)

(* The ladder never stalls silently: a version's watermark keeps reaching the *)
(* last accepted receipt unless the next one visibly waits for an operator.   *)
NoSilentStall ==
  \A v \in Versions : []<>(watermark[v] = nextSequence[v] \/ Blocked(v))

(* What NoSilentStall rests on: no wakeup is lost.  Until the version is      *)
(* resolved unscorable, the receipt after the watermark has its validation    *)
(* task or its adjudication task queued or a run that is not over, or its     *)
(* checker faulted; the tasks are inserted once per receipt (enqueue).        *)
NextHasWork ==
  \A i \in Intents :
    Unresolved(VersionOf[i]) /\ sequence[i] = watermark[VersionOf[i]] + 1 =>
      \/ status[i] = "accepted" /\ task["validate_submission"][i] = "queued"
      \/ \E p \in Purposes : job[i][p].status \in Unfinal
      \/ status[i] = "challenge_fault"
      \/ status[i] = "validated" /\ task["adjudicate"][i] = "queued"

=============================================================================
