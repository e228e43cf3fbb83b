------------------------------- MODULE Review -------------------------------
(***************************************************************************)
(* A challenge version before it is locked: machine preflight on the       *)
(* trusted builders, the scientific review by an outside model, the        *)
(* creator's requests for another review, the editor's decisions, and the  *)
(* lock that freezes the contract.                                         *)
(*                                                                         *)
(* An action is one database transaction; a review is two steps, because   *)
(* scientificReviewAttempt reads the version, waits for minutes on the     *)
(* provider, and only then takes the row lock and stores what it was told. *)
(* Leases and retries of worker tasks are the subject of module WorkQueue; *)
(* here a task ends complete, or attention_required after MaxTries.        *)
(***************************************************************************)
EXTENDS Naturals, FiniteSets

CONSTANTS
  VersionIds,      \* versions of one challenge, in order of creation: 1..n
  V2,              \* versions whose manifest is v2 (metric assessment needed)
  Elevated,        \* versions whose safety class is "review-required"
  Independent,     \* versions whose policy asks for two builders
  MaxPreflights,   \* bound: preflights of one version
  MaxRequests,     \* bound: re-review requests of one version
  MaxTries,        \* worker attempts before a task needs attention (8)
  MaxLost,         \* bound: attempts of a task up to which its worker may die
  MaxDecisions,    \* bound: editor decisions
  Verdicts         \* editor decisions taken in this instance

Preflights == 1..MaxPreflights
Kinds      == {"initial", "rereview"}
ReviewOutcomes  == {"automated_pass", "human_review_required", "changes_required"}
MetricDecisions == {"accepted", "needs_work", "unsupported", "invalid"}
SourceStatus    == {"ready", "human_review_required", "failed"}
Accepting       == {"automated_pass", "human_approved"}

ASSUME ReviewAssumption ==
  /\ MaxPreflights \in Nat /\ MaxRequests \in Nat
  /\ MaxTries \in Nat \ {0} /\ MaxLost \in Nat /\ MaxDecisions \in Nat
  /\ V2 \subseteq VersionIds /\ Elevated \subseteq VersionIds
  /\ Independent \subseteq VersionIds
  /\ Verdicts \subseteq {"approve_review", "changes_required", "reject",
                         "compromise", "pause", "resume", "withdraw"}

VARIABLES
  status,       \* challenge_versions.status, "none" before the row exists
  review,       \* challenge_versions.review_status
  intake,       \* challenge_versions.intake_status
  lock,         \* the lock receipt of lock_digest: none, pending, signed
  preflight,    \* preflights.status
  build,        \* the outstanding runner job of a preflight
  machine,      \* the machine conformance receipt of a preflight
  task,         \* jobs rows scientific_review and scientific_rereview
  tries,        \* attempts of those rows
  asking,       \* review attempts waiting for the provider
  request,      \* scientific_review_requests so far, and whether one is queued
  latest,       \* the newest scientific-legibility run
  approval,     \* the accepted scientific-metric run against that run
  runs,         \* rows of review_runs
  boundRuns,    \* rows of review_runs listed in the lock
  decisions     \* editorial_decisions rows

reviewState == <<task, tries, asking, request, latest, approval, runs>>
buildState  == <<preflight, build, machine>>
reviewVars  == <<status, review, intake, lock, buildState, reviewState,
                 boundRuns, decisions>>

-----------------------------------------------------------------------------
(* Types *)

VersionStatus == {"none", "draft", "machine_preflight", "changes_required",
                  "review_ready", "locked", "migration_signing", "published",
                  "superseded", "withdrawn", "compromised"}
ReviewStatus  == {"pending", "human_approved", "rejected"} \cup ReviewOutcomes
IntakeStatus  == {"unavailable", "open", "paused", "closed"}
PreflightStatus == {"none", "queued", "waiting_for_quarantine", "pass",
                    "independent_confirmation", "fail_with_actionable_findings"}
TaskStatus  == {"none", "queued", "complete", "attention_required"}
BuildStatus == TaskStatus \cup {"stranded"}  \* queued, and no host may claim it
Signature   == {"none", "pending", "signed"}
NoRun       == [outcome |-> "none", accepted |-> FALSE]
Run         == [outcome : ReviewOutcomes \cup {"none"}, accepted : BOOLEAN]

ReviewTypeOK ==
  /\ status \in [VersionIds -> VersionStatus]
  /\ review \in [VersionIds -> ReviewStatus]
  /\ intake \in [VersionIds -> IntakeStatus]
  /\ lock \in [VersionIds -> Signature]
  /\ preflight \in [VersionIds -> [Preflights -> PreflightStatus]]
  /\ build \in [VersionIds -> [Preflights -> BuildStatus]]
  /\ machine \in [VersionIds -> [Preflights -> Signature]]
  /\ task \in [VersionIds -> [Kinds -> TaskStatus]]
  /\ tries \in [VersionIds -> [Kinds -> Nat]]
  /\ asking \in [VersionIds -> SUBSET Kinds]
  /\ request \in [VersionIds -> [made : Nat, queued : BOOLEAN]]
  /\ latest \in [VersionIds -> Run]
  /\ approval \in [VersionIds -> {"none", "fresh", "stale"}]
  /\ runs \in [VersionIds -> Nat]
  /\ boundRuns \in [VersionIds -> Nat]
  /\ decisions \in Nat

(* The first version is the row createChallenge has just inserted.            *)
ReviewInit ==
  /\ status = [v \in VersionIds |-> IF v = 1 THEN "draft" ELSE "none"]
  /\ review = [v \in VersionIds |-> "pending"]
  /\ intake = [v \in VersionIds |-> "unavailable"]
  /\ lock = [v \in VersionIds |-> "none"]
  /\ preflight = [v \in VersionIds |-> [p \in Preflights |-> "none"]]
  /\ build = [v \in VersionIds |-> [p \in Preflights |-> "none"]]
  /\ machine = [v \in VersionIds |-> [p \in Preflights |-> "none"]]
  /\ task = [v \in VersionIds |-> [k \in Kinds |-> "none"]]
  /\ tries = [v \in VersionIds |-> [k \in Kinds |-> 0]]
  /\ asking = [v \in VersionIds |-> {}]
  /\ request = [v \in VersionIds |-> [made |-> 0, queued |-> FALSE]]
  /\ latest = [v \in VersionIds |-> NoRun]
  /\ approval = [v \in VersionIds |-> "none"]
  /\ runs = [v \in VersionIds |-> 0]
  /\ boundRuns = [v \in VersionIds |-> 0]
  /\ decisions = 0

-----------------------------------------------------------------------------
(* What a review concludes *)

(* resolveSources: one retrieval that fails spoils the whole evidence; a      *)
(* quotation that is not found, a citation date that differs, or no paper of  *)
(* the last five years sends it to a person.                                  *)
Observation == [retrieved : BOOLEAN, quoted : BOOLEAN, misdated : BOOLEAN,
                recent : BOOLEAN]
ResolveSources(seen) ==
  IF \E s \in seen : ~s.retrieved THEN "failed"
  ELSE IF \/ \E s \in seen : ~s.quoted \/ s.misdated
          \/ \A s \in seen : ~s.recent
       THEN "human_review_required"
       ELSE "ready"

ApplyMetricAssessment(outcome, v2, metric) ==
  IF v2 /\ metric # "accepted" THEN "changes_required" ELSE outcome

(* The corrections scientificReviewAttempt makes to the provider's outcome,   *)
(* in the code's order: safety class, metric assessment, education sections,  *)
(* finding severities, source evidence.                                       *)
ReviewOutcome(provided, v2, elevated, metric, taught, severities, sources) ==
  LET safe == IF elevated /\ provided = "automated_pass"
              THEN "human_review_required" ELSE provided
      metricked == ApplyMetricAssessment(safe, v2, metric)
      educated  == IF taught THEN metricked ELSE "changes_required"
      graded == IF "error" \in severities THEN "changes_required"
                ELSE IF "review" \in severities /\ educated = "automated_pass"
                     THEN "human_review_required" ELSE educated
      sourced == IF sources = "failed" THEN "changes_required" ELSE graded
  IN  IF sources # "ready" /\ sourced = "automated_pass"
      THEN "human_review_required" ELSE sourced

(* Everything a review of version v may conclude. *)
Conclusions ==
  [v \in VersionIds |->
     {[outcome |-> ReviewOutcome(o, v \in V2, v \in Elevated, m, t, s, r),
       accepted |-> v \in V2 /\ m = "accepted"] :
        o \in ReviewOutcomes, m \in MetricDecisions, t \in BOOLEAN,
        s \in SUBSET {"review", "error"},
        r \in {ResolveSources(seen) : seen \in {{x} : x \in Observation}}}]

-----------------------------------------------------------------------------
(* Machine preflight *)

(* A decision of the editor is counted; the bound is the instance's. *)
Decide(v, verdict) ==
  /\ verdict \in Verdicts /\ status[v] # "none"
  /\ decisions < MaxDecisions
  /\ decisions' = decisions + 1

(* startPreflight *)
StartPreflight(v) ==
  \E p \in Preflights :
    /\ preflight[v][p] = "none" /\ \A q \in 1..(p - 1) : preflight[v][q] # "none"
    /\ status[v] \in {"draft", "changes_required"}
    /\ preflight' = [preflight EXCEPT ![v][p] = "queued"]
    /\ status' = [status EXCEPT ![v] = "machine_preflight"]
    /\ UNCHANGED <<review, intake, lock, build, machine, reviewState, boundRuns,
                   decisions>>

(* The worker's preflight task: the builder job is inserted once. *)
QueuePreflightBuild(v, p) ==
  /\ preflight[v][p] = "queued"
  /\ preflight' = [preflight EXCEPT ![v][p] = "waiting_for_quarantine"]
  /\ build' = [build EXCEPT ![v][p] = "queued"]
  /\ UNCHANGED <<status, review, intake, lock, machine, reviewState, boundRuns,
                 decisions>>

(* Seeded fault: a failed build leaves the version in preflight. *)
StatusWhenPassed(v, s) ==
  IF s = "review_ready" /\ lock[v] = "none" THEN [status EXCEPT ![v] = s] ELSE status

(* The status is written while the contract is not locked, whatever it was. *)
StatusUnlessLocked(v, s) ==
  IF lock[v] = "none" THEN [status EXCEPT ![v] = s] ELSE status

(* commitBuild, a report that did not pass *)
CommitFailedBuild(v, p) ==
  /\ build[v][p] = "queued"
  /\ build' = [build EXCEPT ![v][p] = "complete"]
  /\ preflight' = [preflight EXCEPT ![v][p] = "fail_with_actionable_findings"]
  /\ status' = StatusUnlessLocked(v, "changes_required")
  /\ UNCHANGED <<review, intake, lock, machine, reviewState, boundRuns, decisions>>

(* commitBuild, the first of two independent builders: a second job for       *)
(* another host and group takes the place of the first, and there may be none *)
(* that serves it.                                                            *)
CommitFirstBuild(v, p) ==
  /\ build[v][p] = "queued" /\ v \in Independent
  /\ preflight[v][p] = "waiting_for_quarantine"
  /\ preflight' = [preflight EXCEPT ![v][p] = "independent_confirmation"]
  /\ \E b \in {"queued", "stranded"} : build' = [build EXCEPT ![v][p] = b]
  /\ UNCHANGED <<status, review, intake, lock, machine, reviewState, boundRuns,
                 decisions>>

(* enqueue(scientific_review, version): one row for ever, whatever its state. *)
EnqueueReview(v) ==
  IF task[v]["initial"] = "none"
  THEN [task EXCEPT ![v]["initial"] = "queued"] ELSE task

(* commitBuild, the deciding report: a signed conformance receipt is on its   *)
(* way, the version is ready for review, and the review is queued.            *)
CommitBuild(v, p) ==
  /\ build[v][p] = "queued"
  /\ v \in Independent => preflight[v][p] = "independent_confirmation"
  /\ build' = [build EXCEPT ![v][p] = "complete"]
  /\ preflight' = [preflight EXCEPT ![v][p] = "pass"]
  /\ machine' = [machine EXCEPT ![v][p] = "pending"]
  /\ status' = StatusUnlessLocked(v, "review_ready")
  /\ task' = EnqueueReview(v)
  /\ UNCHANGED <<review, intake, lock, tries, asking, request, latest, approval,
                 runs, boundRuns, decisions>>

(* The builders keep failing to report, or their reports are refused (invalid *)
(* or in disagreement): the job runs out of attempts.                         *)
BuildExhausted(v, p) ==
  /\ build[v][p] = "queued"
  /\ build' = [build EXCEPT ![v][p] = "attention_required"]
  /\ UNCHANGED <<status, review, intake, lock, preflight, machine, reviewState,
                 boundRuns, decisions>>

(* A host that loses its lease or reports a fault is excluded for good, and   *)
(* the job goes back to queued with attempts left; when it was the last host  *)
(* of the pool that could take the job, nobody is left to claim it ...        *)
StrandBuild(v, p) ==
  /\ build[v][p] = "queued"
  /\ build' = [build EXCEPT ![v][p] = "stranded"]
  /\ UNCHANGED <<status, review, intake, lock, preflight, machine, reviewState,
                 boundRuns, decisions>>

(* ... until an operator enrolls another one.                                 *)
EnrollBuilder(v, p) ==
  /\ build[v][p] = "stranded"
  /\ build' = [build EXCEPT ![v][p] = "queued"]
  /\ UNCHANGED <<status, review, intake, lock, preflight, machine, reviewState,
                 boundRuns, decisions>>

(* signReceipt of a conformance receipt and of the lock *)
SignMachine(v, p) ==
  /\ machine[v][p] = "pending"
  /\ machine' = [machine EXCEPT ![v][p] = "signed"]
  /\ UNCHANGED <<status, review, intake, lock, preflight, build, reviewState,
                 boundRuns, decisions>>

SignLock(v) ==
  /\ lock[v] = "pending"
  /\ lock' = [lock EXCEPT ![v] = "signed"]
  /\ UNCHANGED <<status, review, intake, buildState, reviewState, boundRuns,
                 decisions>>
-----------------------------------------------------------------------------
(* Scientific review *)

(* A second initial review, or the answer to a completed request, is dropped. *)
AlreadyReviewed(v, k) ==
  IF k = "initial" THEN latest[v].outcome # "none" ELSE ~request[v].queued

(* scientificReviewAttempt up to the call of the provider *)
BeginReview(v, k) ==
  /\ task[v][k] = "queued" /\ k \notin asking[v]
  /\ \/ /\ AlreadyReviewed(v, k)
        /\ task' = [task EXCEPT ![v][k] = "complete"]
        /\ UNCHANGED asking
     \/ /\ ~AlreadyReviewed(v, k)
        /\ asking' = [asking EXCEPT ![v] = @ \cup {k}]
        /\ UNCHANGED task
  /\ UNCHANGED <<status, review, intake, lock, buildState, tries, request, latest,
                 approval, runs, boundRuns, decisions>>

(* Seeded fault: a failed attempt is not counted. *)
TriesKept(v, k) == tries

TriesAfter(v, k) == [tries EXCEPT ![v][k] = @ + 1]

(* The provider or a source does not answer, or the answer is malformed:      *)
(* nothing is stored, and the task is retried until its attempts are used up. *)
AbandonReview(v, k) ==
  /\ k \in asking[v]
  /\ asking' = [asking EXCEPT ![v] = @ \ {k}]
  /\ tries' = TriesAfter(v, k)
  /\ task' = [task EXCEPT ![v][k] = IF tries'[v][k] >= MaxTries
                                    THEN "attention_required" ELSE "queued"]
  /\ UNCHANGED <<status, review, intake, lock, buildState, request, latest,
                 approval, runs, boundRuns, decisions>>

(* The worker dies: its lease expires and workOne takes the task again, which *)
(* counts as an attempt, however many there were (it looks at no limit).      *)
LoseReviewer(v, k) ==
  /\ k \in asking[v] /\ tries[v][k] < MaxLost
  /\ asking' = [asking EXCEPT ![v] = @ \ {k}]
  /\ tries' = TriesAfter(v, k)
  /\ UNCHANGED <<status, review, intake, lock, buildState, task, request, latest,
                 approval, runs, boundRuns, decisions>>

(* scientificReviewAttempt's transaction.  The worker may die after it and    *)
(* before the task row is marked: the task then runs again.                   *)
FinishReview(v, k) ==
  /\ k \in asking[v]
  /\ asking' = [asking EXCEPT ![v] = @ \ {k}]
  /\ \E died \in BOOLEAN :
       task' = [task EXCEPT ![v][k] = IF died THEN "queued" ELSE "complete"]
  /\ \/ /\ AlreadyReviewed(v, k)
        /\ UNCHANGED <<review, request, latest, approval, runs>>
     \/ /\ ~AlreadyReviewed(v, k)
        /\ \E c \in Conclusions[v] :
             /\ latest' = [latest EXCEPT ![v] = c]
             /\ review' = IF lock[v] = "none"
                          THEN [review EXCEPT ![v] = c.outcome] ELSE review
        /\ approval' = [approval EXCEPT ![v] = IF @ = "none" THEN @ ELSE "stale"]
        /\ runs' = [runs EXCEPT ![v] = @ + 1]
        /\ request' = [request EXCEPT ![v].queued =
                         IF k = "rereview" THEN FALSE ELSE @]
  /\ UNCHANGED <<status, intake, lock, buildState, tries, boundRuns, decisions>>

(* Seeded fault: the last verdict stands until the new one arrives. *)
VerdictKept(v) == review

VerdictWithdrawn(v) == [review EXCEPT ![v] = "pending"]

(* requestScientificReview: a new task row for every request *)
RequestScientificReview(v) ==
  /\ status[v] # "none" /\ lock[v] = "none"
  /\ latest[v].outcome # "none" /\ ~request[v].queued
  /\ request[v].made < MaxRequests
  /\ request' = [request EXCEPT ![v] = [made |-> @.made + 1, queued |-> TRUE]]
  /\ review' = VerdictWithdrawn(v)
  /\ task' = [task EXCEPT ![v]["rereview"] = "queued"]
  /\ tries' = [tries EXCEPT ![v]["rereview"] = 0]
  /\ UNCHANGED <<status, intake, lock, buildState, asking, latest, approval, runs,
                 boundRuns, decisions>>

-----------------------------------------------------------------------------
(* Editorial decisions before publication: editorDecision *)

(* The accepted metric assessment is dated by the start of the editor's       *)
(* transaction, which may precede the review it waited for: it then does not  *)
(* count as newer than that review.                                           *)
ApproveReview(v) ==
  /\ Decide(v, "approve_review")
  /\ review[v] = "human_review_required"
  /\ review' = [review EXCEPT ![v] = "human_approved"]
  /\ IF v \in V2
     THEN /\ \E age \in {"fresh", "stale"} :
               approval' = [approval EXCEPT ![v] = age]
          /\ runs' = [runs EXCEPT ![v] = @ + 1]
     ELSE UNCHANGED <<approval, runs>>
  /\ UNCHANGED <<status, intake, lock, buildState, task, tries, asking, request,
                 latest, boundRuns>>

RequireChanges(v) ==
  /\ Decide(v, "changes_required") /\ lock[v] = "none"
  /\ review' = [review EXCEPT ![v] = "changes_required"]
  /\ status' = [status EXCEPT ![v] = "changes_required"]
  /\ UNCHANGED <<intake, lock, buildState, reviewState, boundRuns>>

(* reject leaves the status of the version alone *)
Reject(v) ==
  /\ Decide(v, "reject")
  /\ review' = [review EXCEPT ![v] = "rejected"]
  /\ intake' = [intake EXCEPT ![v] = "closed"]
  /\ UNCHANGED <<status, lock, buildState, reviewState, boundRuns>>

Compromise(v) ==
  /\ Decide(v, "compromise")
  /\ status' = [status EXCEPT ![v] = "compromised"]
  /\ intake' = [intake EXCEPT ![v] = "closed"]
  /\ UNCHANGED <<review, lock, buildState, reviewState, boundRuns>>

-----------------------------------------------------------------------------
(* lockChallenge *)

Passing(v) == {p \in Preflights : preflight[v][p] = "pass"}
LatestPassing(v, p) == p \in Passing(v) /\ \A q \in Passing(v) : q <= p

(* metricReviewAccepted *)
MetricReviewAccepted(v) == latest[v].accepted \/ approval[v] = "fresh"

ReviewAccepted(v) == review[v] \in Accepting

LockChallenge(v) ==
  /\ status[v] = "review_ready" /\ ReviewAccepted(v)
  /\ \E p \in Preflights : LatestPassing(v, p) /\ machine[v][p] = "signed"
  /\ v \in V2 => MetricReviewAccepted(v)
  /\ status' = [status EXCEPT ![v] = "locked"]
  /\ lock' = [lock EXCEPT ![v] = "pending"]
  /\ boundRuns' = [boundRuns EXCEPT ![v] = runs[v]]
  /\ UNCHANGED <<review, intake, buildState, reviewState, decisions>>

ReviewStep(v) ==
  \/ StartPreflight(v) \/ LockChallenge(v) \/ SignLock(v)
  \/ \E p \in Preflights :
       \/ QueuePreflightBuild(v, p) \/ CommitFailedBuild(v, p)
       \/ CommitFirstBuild(v, p) \/ CommitBuild(v, p) \/ BuildExhausted(v, p)
       \/ StrandBuild(v, p) \/ EnrollBuilder(v, p) \/ SignMachine(v, p)
  \/ \E k \in Kinds : \/ BeginReview(v, k) \/ AbandonReview(v, k)
                      \/ LoseReviewer(v, k) \/ FinishReview(v, k)
  \/ RequestScientificReview(v)
  \/ ApproveReview(v) \/ RequireChanges(v) \/ Reject(v) \/ Compromise(v)

ReviewNext == \E v \in VersionIds : ReviewStep(v)

ReviewSpec == ReviewInit /\ [][ReviewNext]_reviewVars

(* The worker loop runs every task it can lease; the hosts poll, so a builder *)
(* job that some host may still claim does not circle for ever: it is         *)
(* committed, runs out of attempts or out of hosts (JobsSettle of RunnerLease *)
(* is the same alternative).  Nothing says that an operator enrolls a host.   *)
(* An attempt at a review ends within the eight minutes of its context.       *)
ReviewFairness ==
  \A v \in VersionIds :
    /\ \A p \in Preflights :
         /\ WF_reviewVars(QueuePreflightBuild(v, p))
         /\ WF_reviewVars(CommitFailedBuild(v, p) \/ CommitBuild(v, p)
                            \/ CommitFirstBuild(v, p) \/ BuildExhausted(v, p)
                            \/ StrandBuild(v, p))
    /\ \A k \in Kinds : /\ WF_reviewVars(BeginReview(v, k))
                       /\ WF_reviewVars(AbandonReview(v, k) \/ FinishReview(v, k))

FairReviewSpec == ReviewSpec /\ ReviewFairness

-----------------------------------------------------------------------------
(* Properties *)

Locked(v) == lock[v] # "none"

(* The contract a lock freezes is the one that was reviewed: whatever         *)
(* reviews, requests and decisions interleave, the newest review of a locked  *)
(* version is the one that let it through (a pass, or one a person approved), *)
(* no review is stored after the lock, and the lock lists every run           *)
(* (lockChallenge's ReviewDigests).                                           *)
LockBindsReview ==
  \A v \in VersionIds : Locked(v) =>
    /\ boundRuns[v] = runs[v]
    /\ ~request[v].queued
    /\ latest[v].outcome \in {"automated_pass", "human_review_required"}
    /\ review[v] = "human_approved" => latest[v].outcome = "human_review_required"
    /\ review[v] = "automated_pass" => latest[v].outcome = "automated_pass"

(* A version does not stay in machine_preflight (where no successor can be    *)
(* created) unless a builder job has run out of attempts or out of hosts:     *)
(* each host that lost a lease or reported a fault stays excluded             *)
(* (runners.go:75, 373), and so does the group of the first build             *)
(* (preparation.go:242).  A build that fails or comes late resolves it.       *)
PreflightResolves ==
  \A v \in VersionIds :
    status[v] = "machine_preflight" ~>
      \/ status[v] # "machine_preflight"
      \/ \E p \in Preflights : build[v][p] \in {"attention_required", "stranded"}

(* A version whose build passed is reviewed, and a request for another review *)
(* is answered, unless the task has run out of attempts.                      *)
ReviewAnswered ==
  \A v \in VersionIds :
    /\ task[v]["initial"] = "queued" ~>
         latest[v].outcome # "none" \/ task[v]["initial"] = "attention_required"
    /\ request[v].queued ~>
         ~request[v].queued \/ task[v]["rereview"] = "attention_required"

(* What the two rest on: no version waits for work that does not exist.  One  *)
(* in preflight has its task or a builder job, one whose build passed has its *)
(* review or the task for it, which is inserted once, and a request has its   *)
(* task; a job or task that ran out of attempts, or a job out of hosts, waits *)
(* for an operator.                                                           *)
ReviewHasWork ==
  \A v \in VersionIds :
    /\ status[v] = "machine_preflight" =>
         \E p \in Preflights :
           \/ preflight[v][p] = "queued"
           \/ build[v][p] \in {"queued", "attention_required", "stranded"}
    /\ Passing(v) # {} =>
         latest[v].outcome # "none" \/ task[v]["initial"] \in {"queued", "attention_required"}
    /\ request[v].queued => task[v]["rereview"] \in {"queued", "attention_required"}
=============================================================================
