--------------------------- MODULE VersionsProofs ---------------------------
(* What is proved of the versions of a challenge, for any number of versions,  *)
(* preflights, review requests, decisions, receipts and milestones: the lock   *)
(* binds the review, the signed evidence of a migration stays true, milestones *)
(* are claimed in the newest version that lists them, and a hidden suite is    *)
(* secret while a version accepts solutions.                                   *)
EXTENDS Versions, TLAPS

-----------------------------------------------------------------------------
(* Reviews *)

LEMMA OutcomeTyped ==
  ASSUME NEW p \in ReviewOutcomes, NEW v2, NEW e, NEW m, NEW t, NEW s, NEW r
  PROVE  ReviewOutcome(p, v2, e, m, t, s, r) \in ReviewOutcomes
BY DEF ReviewOutcome, ApplyMetricAssessment, ReviewOutcomes

LEMMA ConclusionTyped ==
  ASSUME NEW v \in VersionIds, NEW c \in Conclusions[v]
  PROVE  c \in Run /\ c.outcome \in ReviewOutcomes
<1>1. PICK o \in ReviewOutcomes, m \in MetricDecisions, t \in BOOLEAN,
           s \in SUBSET {"review", "error"},
           r \in {ResolveSources(seen) : seen \in {{x} : x \in Observation}} :
             c = [outcome |-> ReviewOutcome(o, v \in V2, v \in Elevated, m, t, s, r),
                  accepted |-> v \in V2 /\ m = "accepted"]
  BY DEF Conclusions
<1>2. ReviewOutcome(o, v \in V2, v \in Elevated, m, t, s, r) \in ReviewOutcomes
  BY OutcomeTyped
<1>3. (v \in V2 /\ m = "accepted") \in BOOLEAN
  OBVIOUS
<1>. QED BY <1>1, <1>2, <1>3 DEF Run

(* How the verdict, the newest run, the requests and the lock of a version     *)
(* stand to each other: an accepting verdict is the newest run's, a queued     *)
(* request has withdrawn it, and a lock has frozen both.                       *)
Bound4(q, l, rv, lk, rn, bd) ==
  /\ rv \in {"automated_pass", "human_review_required"} => l.outcome = rv /\ ~q.queued
  /\ rv = "human_approved" => l.outcome = "human_review_required" /\ ~q.queued
  /\ q.queued => l.outcome # "none"
  /\ lk # "none" => /\ bd = rn /\ ~q.queued
                    /\ l.outcome \in {"automated_pass", "human_review_required"}
                    /\ rv \in Accepting \cup {"rejected"}

BoundAt(v) == Bound4(request[v], latest[v], review[v], lock[v], runs[v], boundRuns[v])

(* A version that does not exist has no preflight. *)
NothingBuilt ==
  \A v \in VersionIds, p \in Preflights :
    status[v] = "none" => preflight[v][p] = "none" /\ build[v][p] = "none"

ReviewInv == ReviewTypeOK /\ (\A v \in VersionIds : BoundAt(v)) /\ NothingBuilt

LEMMA ReviewInvInit == ReviewInit => ReviewInv
<1>. SUFFICES ASSUME ReviewInit PROVE ReviewInv
  OBVIOUS
<1>1. ReviewTypeOK
  BY DEF ReviewInit, ReviewTypeOK, VersionStatus, ReviewStatus, IntakeStatus, Signature,
         PreflightStatus, TaskStatus, BuildStatus, Run, NoRun
<1>2. \A v \in VersionIds : BoundAt(v)
  BY DEF ReviewInit, BoundAt, Bound4, NoRun
<1>3. NothingBuilt
  BY DEF ReviewInit, NothingBuilt
<1>. QED BY <1>1, <1>2, <1>3 DEF ReviewInv

(* What a step of one version before its lock leaves to the rest. *)
Within(v) ==
  /\ \A w \in VersionIds : status'[w] = "none" <=> status[w] = "none"
  /\ \A w \in VersionIds : intake'[w] \in {intake[w], "closed"}
  /\ \A w \in VersionIds : lock[w] # "none" => lock'[w] # "none"
  /\ \A w \in VersionIds : status'[w] = status[w] \/ (w = v /\ status'[w] # "migration_signing"
         /\ (lock[w] = "none" \/ status[w] \in {"draft", "changes_required", "review_ready"}
             \/ status'[w] = "compromised"))

ReviewOK(v) == ReviewInv' /\ Within(v)

(* Verdicts, runs and requests are left alone, and so is what is locked. *)
LEMMA VerdictsKept ==
  ASSUME ReviewInv, ReviewTypeOK', NothingBuilt',
         UNCHANGED <<request, latest, review, runs, boundRuns>>,
         \A w \in VersionIds : lock'[w] # "none" => lock[w] # "none"
  PROVE  ReviewInv'
<1>1. \A w \in VersionIds : BoundAt(w)'
  <2>. SUFFICES ASSUME NEW w \in VersionIds
                PROVE  Bound4(request[w], latest[w], review[w], lock'[w], runs[w], boundRuns[w])
    BY DEF BoundAt
  <2>1. Bound4(request[w], latest[w], review[w], lock[w], runs[w], boundRuns[w])
    BY DEF ReviewInv, BoundAt
  <2>. QED BY <2>1 DEF Bound4
<1>. QED BY <1>1 DEF ReviewInv

(* One entry of a table of tables is written, or none. *)
LEMMA EntryWritten ==
  ASSUME NEW A, NEW B, NEW S, NEW f \in [A -> [B -> S]], NEW a \in A, NEW b \in B,
         NEW T \in SUBSET S, NEW g,
         g = f \/ \E s \in T : g = [f EXCEPT ![a][b] = s]
  PROVE  g \in [A -> [B -> S]] /\ \A x \in A : x # a => g[x] = f[x]
<1>1. CASE g = f
  BY <1>1
<1>2. ASSUME NEW s \in T, g = [f EXCEPT ![a][b] = s]
      PROVE  g \in [A -> [B -> S]] /\ \A x \in A : x # a => g[x] = f[x]
  BY <1>2
<1>. QED BY <1>1, <1>2

(* Steps of the machine preflight. *)
LEMMA StartStep ==
  ASSUME ReviewInv, NEW v \in VersionIds, StartPreflight(v)
  PROVE  ReviewOK(v)
<1>1. PICK p \in Preflights :
        /\ status[v] \in {"draft", "changes_required"}
        /\ preflight' = [preflight EXCEPT ![v][p] = "queued"]
        /\ status' = [status EXCEPT ![v] = "machine_preflight"]
        /\ UNCHANGED <<review, intake, lock, build, machine, reviewState, boundRuns, decisions>>
  BY DEF StartPreflight
<1>2. ReviewTypeOK'
  BY <1>1 DEF ReviewInv, ReviewTypeOK, VersionStatus, PreflightStatus, reviewState
<1>3. NothingBuilt'
  BY <1>1 DEF ReviewInv, ReviewTypeOK, NothingBuilt
<1>4. ReviewInv'
  BY <1>1, <1>2, <1>3, VerdictsKept DEF reviewState
<1>. QED BY <1>1, <1>4 DEF ReviewOK, Within, ReviewInv, ReviewTypeOK

LEMMA SignSteps ==
  ASSUME ReviewInv, NEW v \in VersionIds,
         SignLock(v) \/ \E p \in Preflights : SignMachine(v, p)
  PROVE  ReviewOK(v)
<1>. DEFINE Signs ==
       /\ UNCHANGED <<status, review, intake, preflight, build, reviewState, boundRuns, decisions>>
       /\ machine' \in [VersionIds -> [Preflights -> Signature]]
       /\ lock' \in [VersionIds -> Signature]
       /\ \A w \in VersionIds : lock'[w] # "none" <=> lock[w] # "none"
<1>1. Signs
  <2>1. CASE SignLock(v)
    BY <2>1 DEF SignLock, ReviewInv, ReviewTypeOK, buildState, Signature
  <2>2. ASSUME NEW p \in Preflights, SignMachine(v, p)
        PROVE  Signs
    BY <2>2 DEF SignMachine, ReviewInv, ReviewTypeOK, Signature
  <2>. QED BY <2>1, <2>2
<1>2. ReviewTypeOK'
  BY <1>1 DEF ReviewInv, ReviewTypeOK, reviewState
<1>3. NothingBuilt'
  BY <1>1 DEF ReviewInv, NothingBuilt
<1>4. ReviewInv'
  BY <1>1, <1>2, <1>3, VerdictsKept DEF reviewState
<1>. QED BY <1>1, <1>4 DEF ReviewOK, Within, ReviewInv, ReviewTypeOK

LEMMA BuildSteps ==
  ASSUME ReviewInv, NEW v \in VersionIds, NEW p \in Preflights,
         \/ QueuePreflightBuild(v, p) \/ CommitFailedBuild(v, p)
         \/ CommitFirstBuild(v, p) \/ CommitBuild(v, p) \/ BuildExhausted(v, p)
         \/ StrandBuild(v, p) \/ EnrollBuilder(v, p)
  PROVE  ReviewOK(v)
<1>1. preflight[v][p] # "none" \/ build[v][p] # "none"
  BY DEF QueuePreflightBuild, CommitFailedBuild, CommitFirstBuild, CommitBuild, BuildExhausted,
         StrandBuild, EnrollBuilder
<1>2. status[v] # "none"
  BY <1>1 DEF ReviewInv, NothingBuilt
<1>3. /\ UNCHANGED <<review, intake, lock, tries, asking, request, latest, approval, runs,
                     boundRuns, decisions>>
      /\ \/ status' = status
         \/ /\ lock[v] = "none"
            /\ \E s \in {"changes_required", "review_ready"} : status' = [status EXCEPT ![v] = s]
  BY DEF QueuePreflightBuild, CommitFailedBuild, CommitFirstBuild, CommitBuild, BuildExhausted,
         StrandBuild, EnrollBuilder,
         StatusUnlessLocked, reviewState
<1>4. \/ preflight' = preflight
      \/ \E s \in {"waiting_for_quarantine", "fail_with_actionable_findings",
                   "independent_confirmation", "pass"} :
           preflight' = [preflight EXCEPT ![v][p] = s]
  BY DEF QueuePreflightBuild, CommitFailedBuild, CommitFirstBuild, CommitBuild, BuildExhausted,
         StrandBuild, EnrollBuilder
<1>5. \/ build' = build
      \/ \E s \in {"queued", "complete", "attention_required", "stranded"} :
           build' = [build EXCEPT ![v][p] = s]
  BY DEF QueuePreflightBuild, CommitFailedBuild, CommitFirstBuild, CommitBuild, BuildExhausted,
         StrandBuild, EnrollBuilder
<1>41. /\ preflight' \in [VersionIds -> [Preflights -> PreflightStatus]]
       /\ \A w \in VersionIds : w # v => preflight'[w] = preflight[w]
  <2>. DEFINE T == {"waiting_for_quarantine", "fail_with_actionable_findings",
                    "independent_confirmation", "pass"}
  <2>1. preflight \in [VersionIds -> [Preflights -> PreflightStatus]]
        /\ T \subseteq PreflightStatus
    BY DEF ReviewInv, ReviewTypeOK, PreflightStatus
  <2>2. preflight' = preflight \/ \E s \in T : preflight' = [preflight EXCEPT ![v][p] = s]
    BY <1>4
  <2>. HIDE DEF T
  <2>3. CASE preflight' = preflight
    BY <2>1, <2>3
  <2>4. ASSUME NEW s \in T, preflight' = [preflight EXCEPT ![v][p] = s]
        PROVE  /\ preflight' \in [VersionIds -> [Preflights -> PreflightStatus]]
               /\ \A w \in VersionIds : w # v => preflight'[w] = preflight[w]
    BY <2>1, <2>4
  <2>. QED BY <2>2, <2>3, <2>4
<1>51. /\ build' \in [VersionIds -> [Preflights -> BuildStatus]]
       /\ \A w \in VersionIds : w # v => build'[w] = build[w]
  <2>. DEFINE T == {"queued", "complete", "attention_required", "stranded"}
  <2>1. build \in [VersionIds -> [Preflights -> BuildStatus]] /\ T \subseteq BuildStatus
    BY DEF ReviewInv, ReviewTypeOK, TaskStatus, BuildStatus
  <2>2. build' = build \/ \E s \in T : build' = [build EXCEPT ![v][p] = s]
    BY <1>5
  <2>. HIDE DEF T
  <2>3. CASE build' = build
    BY <2>1, <2>3
  <2>4. ASSUME NEW s \in T, build' = [build EXCEPT ![v][p] = s]
        PROVE  /\ build' \in [VersionIds -> [Preflights -> BuildStatus]]
               /\ \A w \in VersionIds : w # v => build'[w] = build[w]
    BY <2>1, <2>4
  <2>. QED BY <2>2, <2>3, <2>4
<1>6. machine' = machine \/ machine' = [machine EXCEPT ![v][p] = "pending"]
  BY DEF QueuePreflightBuild, CommitFailedBuild, CommitFirstBuild, CommitBuild, BuildExhausted,
         StrandBuild, EnrollBuilder
<1>7. task' = task \/ task' = [task EXCEPT ![v]["initial"] = "queued"]
  BY DEF QueuePreflightBuild, CommitFailedBuild, CommitFirstBuild, CommitBuild, BuildExhausted,
         StrandBuild, EnrollBuilder,
         EnqueueReview, reviewState
<1>8. ReviewTypeOK'
  <2>1. status' \in [VersionIds -> VersionStatus]
    BY <1>3 DEF ReviewInv, ReviewTypeOK, VersionStatus
  <2>4. machine' \in [VersionIds -> [Preflights -> Signature]]
    <3>1. machine \in [VersionIds -> [Preflights -> Signature]] /\ {"pending"} \subseteq Signature
      BY DEF ReviewInv, ReviewTypeOK, Signature
    <3>2. machine' = machine \/ \E s \in {"pending"} : machine' = [machine EXCEPT ![v][p] = s]
      BY <1>6
    <3>. QED BY <3>1, <3>2, EntryWritten
  <2>5. task' \in [VersionIds -> [Kinds -> TaskStatus]]
    <3>1. task \in [VersionIds -> [Kinds -> TaskStatus]] /\ {"queued"} \subseteq TaskStatus
          /\ "initial" \in Kinds
      BY DEF ReviewInv, ReviewTypeOK, TaskStatus, Kinds
    <3>2. task' = task \/ \E s \in {"queued"} : task' = [task EXCEPT ![v]["initial"] = s]
      BY <1>7
    <3>. QED BY <3>1, <3>2, EntryWritten
  <2>. QED BY <1>3, <1>41, <1>51, <2>1, <2>4, <2>5 DEF ReviewInv, ReviewTypeOK
<1>9. \A w \in VersionIds : status'[w] = "none" <=> status[w] = "none"
  BY <1>2, <1>3 DEF ReviewInv, ReviewTypeOK
<1>10. NothingBuilt'
  <2>. SUFFICES ASSUME NEW w \in VersionIds, NEW q \in Preflights, status'[w] = "none"
                PROVE  preflight'[w][q] = "none" /\ build'[w][q] = "none"
    BY DEF NothingBuilt
  <2>1. w # v /\ preflight[w][q] = "none" /\ build[w][q] = "none"
    BY <1>2, <1>9 DEF ReviewInv, NothingBuilt
  <2>2. preflight'[w] = preflight[w] /\ build'[w] = build[w]
    BY <1>41, <1>51, <2>1
  <2>. QED BY <2>1, <2>2
<1>11. ReviewInv'
  BY <1>3, <1>8, <1>10, VerdictsKept
<1>12. \A w \in VersionIds : \/ status'[w] = status[w]
                             \/ w = v /\ lock[w] = "none" /\ status'[w] # "migration_signing"
  <2>1. CASE status' = status
    BY <2>1
  <2>2. ASSUME lock[v] = "none", NEW s \in {"changes_required", "review_ready"},
               status' = [status EXCEPT ![v] = s]
        PROVE  \A w \in VersionIds :
                 \/ status'[w] = status[w]
                 \/ w = v /\ lock[w] = "none" /\ status'[w] # "migration_signing"
    BY <2>2 DEF ReviewInv, ReviewTypeOK
  <2>. QED BY <1>3, <2>1, <2>2
<1>. QED BY <1>3, <1>9, <1>11, <1>12 DEF ReviewOK, Within

(* Status, intake, lock and builds are left alone. *)
LEMMA StatusKept ==
  ASSUME NEW v \in VersionIds, ReviewInv, UNCHANGED <<status, intake, lock, buildState>>
  PROVE  Within(v) /\ NothingBuilt'
BY DEF Within, ReviewInv, NothingBuilt, buildState

(* The start of an attempt, and its loss *)
LEMMA AttemptSteps ==
  ASSUME ReviewInv, NEW v \in VersionIds, NEW k \in Kinds,
         BeginReview(v, k) \/ AbandonReview(v, k) \/ LoseReviewer(v, k)
  PROVE  ReviewOK(v)
<1>1. UNCHANGED <<status, review, intake, lock, buildState, request, latest, approval, runs,
                  boundRuns, decisions>>
  BY DEF BeginReview, AbandonReview, LoseReviewer
<1>2. /\ task \in [VersionIds -> [Kinds -> TaskStatus]]
      /\ tries \in [VersionIds -> [Kinds -> Nat]]
      /\ asking \in [VersionIds -> SUBSET Kinds]
  BY DEF ReviewInv, ReviewTypeOK
<1>3. /\ task' \in [VersionIds -> [Kinds -> TaskStatus]]
      /\ tries' \in [VersionIds -> [Kinds -> Nat]]
      /\ asking' \in [VersionIds -> SUBSET Kinds]
  <2>1. CASE BeginReview(v, k)
    <3>1. tries' = tries
      BY <2>1 DEF BeginReview
    <3>2. CASE task' = [task EXCEPT ![v][k] = "complete"] /\ asking' = asking
      BY <1>2, <3>1, <3>2 DEF TaskStatus
    <3>3. CASE asking' = [asking EXCEPT ![v] = asking[v] \cup {k}] /\ task' = task
      BY <1>2, <3>1, <3>3
    <3>. QED BY <2>1, <3>2, <3>3 DEF BeginReview
  <2>2. CASE AbandonReview(v, k) \/ LoseReviewer(v, k)
    <3>1. asking' = [asking EXCEPT ![v] = asking[v] \ {k}]
      BY <2>2 DEF AbandonReview, LoseReviewer
    <3>2. tries' = [tries EXCEPT ![v][k] = tries[v][k] + 1]
      BY <2>2 DEF AbandonReview, LoseReviewer, TriesAfter
    <3>3. \/ task' = task
          \/ \E s \in {"attention_required", "queued"} : task' = [task EXCEPT ![v][k] = s]
      BY <2>2 DEF AbandonReview, LoseReviewer
    <3>4. {"attention_required", "queued"} \subseteq TaskStatus
      BY DEF TaskStatus
    <3>5. task' \in [VersionIds -> [Kinds -> TaskStatus]]
      <4>1. ASSUME NEW s \in TaskStatus, task' = [task EXCEPT ![v][k] = s]
            PROVE  task' \in [VersionIds -> [Kinds -> TaskStatus]]
        BY <1>2, <4>1
      <4>. QED BY <1>2, <3>3, <3>4, <4>1
    <3>6. tries' \in [VersionIds -> [Kinds -> Nat]]
      BY <1>2, <3>2
    <3>7. asking' \in [VersionIds -> SUBSET Kinds]
      BY <1>2, <3>1
    <3>. QED BY <3>5, <3>6, <3>7
  <2>. QED BY <2>1, <2>2
<1>4. ReviewTypeOK'
  BY <1>1, <1>3 DEF ReviewInv, ReviewTypeOK, buildState
<1>5. Within(v) /\ NothingBuilt'
  BY <1>1, StatusKept
<1>6. ReviewInv'
  BY <1>1, <1>4, <1>5, VerdictsKept
<1>. QED BY <1>5, <1>6 DEF ReviewOK

(* Every other version keeps its verdict, run and request. *)
LEMMA OneVersion ==
  ASSUME ReviewInv, NEW v \in VersionIds, ReviewTypeOK', NothingBuilt', BoundAt(v)',
         \A w \in VersionIds : w # v =>
           /\ request'[w] = request[w] /\ latest'[w] = latest[w] /\ review'[w] = review[w]
           /\ runs'[w] = runs[w] /\ boundRuns'[w] = boundRuns[w] /\ lock'[w] = lock[w]
  PROVE  ReviewInv'
<1>1. ASSUME NEW w \in VersionIds, w # v PROVE BoundAt(w)'
  BY <1>1 DEF ReviewInv, BoundAt
<1>. QED BY <1>1 DEF ReviewInv

(* A review is stored: the newest run and the verdict change together, and     *)
(* only while the version is not locked.                                       *)
LEMMA FinishReviewStep ==
  ASSUME ReviewInv, NEW v \in VersionIds, NEW k \in Kinds, FinishReview(v, k)
  PROVE  ReviewOK(v)
<1>1. /\ asking' = [asking EXCEPT ![v] = asking[v] \ {k}]
      /\ \E s \in {"queued", "complete"} : task' = [task EXCEPT ![v][k] = s]
      /\ UNCHANGED <<status, intake, lock, buildState, tries, boundRuns, decisions>>
  BY DEF FinishReview
<1>2. Within(v) /\ NothingBuilt'
  BY <1>1, StatusKept
<1>3. /\ asking' \in [VersionIds -> SUBSET Kinds]
      /\ task' \in [VersionIds -> [Kinds -> TaskStatus]]
  <2>1. PICK s \in {"queued", "complete"} : task' = [task EXCEPT ![v][k] = s]
    BY <1>1
  <2>2. s \in TaskStatus
    BY DEF TaskStatus
  <2>. QED BY <1>1, <2>1, <2>2 DEF ReviewInv, ReviewTypeOK
<1>4. CASE UNCHANGED <<review, request, latest, approval, runs>>
  <2>1. ReviewTypeOK'
    BY <1>1, <1>3, <1>4 DEF ReviewInv, ReviewTypeOK, buildState
  <2>. QED BY <1>1, <1>2, <1>4, <2>1, VerdictsKept DEF ReviewOK
<1>5. ASSUME ~AlreadyReviewed(v, k), NEW c \in Conclusions[v],
             latest' = [latest EXCEPT ![v] = c],
             review' = (IF lock[v] = "none" THEN [review EXCEPT ![v] = c.outcome] ELSE review),
             approval' = [approval EXCEPT ![v] = IF approval[v] = "none" THEN approval[v]
                                                 ELSE "stale"],
             runs' = [runs EXCEPT ![v] = runs[v] + 1],
             request' = [request EXCEPT ![v].queued =
                           IF k = "rereview" THEN FALSE ELSE request[v].queued]
      PROVE  ReviewOK(v)
  <2>1. c \in Run /\ c.outcome \in ReviewOutcomes
    BY ConclusionTyped
  <2>2. Bound4(request[v], latest[v], review[v], lock[v], runs[v], boundRuns[v])
    BY DEF ReviewInv, BoundAt
  <2>3. lock[v] = "none"
    BY <1>5, <2>2 DEF AlreadyReviewed, Bound4
  <2>4. review' = [review EXCEPT ![v] = c.outcome]
    BY <1>5, <2>3
  <2>. DEFINE b == IF k = "rereview" THEN FALSE ELSE request[v].queued
  <2>5. /\ request[v] \in [made : Nat, queued : BOOLEAN] /\ b \in BOOLEAN
    BY DEF ReviewInv, ReviewTypeOK
  <2>6. ~b
    BY <1>5, <2>2 DEF AlreadyReviewed, Bound4, Kinds
  <2>7. request' = [request EXCEPT ![v] = [request[v] EXCEPT !.queued = b]]
    BY <1>5
  <2>. HIDE DEF b
  <2>8. /\ [request[v] EXCEPT !.queued = b] \in [made : Nat, queued : BOOLEAN]
        /\ [request[v] EXCEPT !.queued = b].queued = b
    BY <2>5
  <2>9. /\ request' \in [VersionIds -> [made : Nat, queued : BOOLEAN]]
        /\ request'[v].queued = b
        /\ \A w \in VersionIds : w # v => request'[w] = request[w]
    BY <2>7, <2>8 DEF ReviewInv, ReviewTypeOK
  <2>10. /\ latest' \in [VersionIds -> Run] /\ latest'[v] = c
         /\ \A w \in VersionIds : w # v => latest'[w] = latest[w]
    BY <1>5, <2>1 DEF ReviewInv, ReviewTypeOK
  <2>11. /\ review' \in [VersionIds -> ReviewStatus] /\ review'[v] = c.outcome
         /\ \A w \in VersionIds : w # v => review'[w] = review[w]
    BY <2>1, <2>4 DEF ReviewInv, ReviewTypeOK, ReviewStatus
  <2>12. /\ runs' \in [VersionIds -> Nat]
         /\ \A w \in VersionIds : w # v => runs'[w] = runs[w]
    BY <1>5 DEF ReviewInv, ReviewTypeOK
  <2>13. approval' \in [VersionIds -> {"none", "fresh", "stale"}]
    BY <1>5 DEF ReviewInv, ReviewTypeOK
  <2>14. ReviewTypeOK'
    BY <1>1, <1>3, <2>9, <2>10, <2>11, <2>12, <2>13 DEF ReviewInv, ReviewTypeOK, buildState
  <2>15. BoundAt(v)'
    <3>1. Bound4(request'[v], latest'[v], review'[v], lock'[v], runs'[v], boundRuns'[v])
      BY <1>1, <2>1, <2>3, <2>6, <2>9, <2>10, <2>11 DEF Bound4, ReviewOutcomes
    <3>. QED BY <3>1 DEF BoundAt
  <2>16. ReviewInv'
    BY <1>1, <1>2, <2>9, <2>10, <2>11, <2>12, <2>14, <2>15, OneVersion
  <2>. QED BY <1>2, <2>16 DEF ReviewOK
<1>. QED BY <1>4, <1>5 DEF FinishReview

LEMMA RequestStep ==
  ASSUME ReviewInv, NEW v \in VersionIds, RequestScientificReview(v)
  PROVE  ReviewOK(v)
<1>1. /\ lock[v] = "none" /\ latest[v].outcome # "none"
      /\ request' = [request EXCEPT ![v] = [made |-> request[v].made + 1, queued |-> TRUE]]
      /\ review' = [review EXCEPT ![v] = "pending"]
      /\ task' = [task EXCEPT ![v]["rereview"] = "queued"]
      /\ tries' = [tries EXCEPT ![v]["rereview"] = 0]
      /\ UNCHANGED <<status, intake, lock, buildState, asking, latest, approval, runs, boundRuns,
                     decisions>>
  BY DEF RequestScientificReview, VerdictWithdrawn
<1>2. Within(v) /\ NothingBuilt'
  BY <1>1, StatusKept
<1>3. /\ request' \in [VersionIds -> [made : Nat, queued : BOOLEAN]]
      /\ request'[v].queued = TRUE
      /\ \A w \in VersionIds : w # v => request'[w] = request[w]
  <2>1. [made |-> request[v].made + 1, queued |-> TRUE] \in [made : Nat, queued : BOOLEAN]
    BY DEF ReviewInv, ReviewTypeOK
  <2>. QED BY <1>1, <2>1 DEF ReviewInv, ReviewTypeOK
<1>4. /\ review' \in [VersionIds -> ReviewStatus] /\ review'[v] = "pending"
      /\ \A w \in VersionIds : w # v => review'[w] = review[w]
  BY <1>1 DEF ReviewInv, ReviewTypeOK, ReviewStatus
<1>5. /\ task' \in [VersionIds -> [Kinds -> TaskStatus]]
      /\ tries' \in [VersionIds -> [Kinds -> Nat]]
  BY <1>1 DEF ReviewInv, ReviewTypeOK, TaskStatus, Kinds
<1>6. ReviewTypeOK'
  BY <1>1, <1>3, <1>4, <1>5 DEF ReviewInv, ReviewTypeOK, buildState
<1>7. BoundAt(v)'
  <2>1. Bound4(request'[v], latest'[v], review'[v], lock'[v], runs'[v], boundRuns'[v])
    BY <1>1, <1>3, <1>4 DEF Bound4
  <2>. QED BY <2>1 DEF BoundAt
<1>8. ReviewInv'
  BY <1>1, <1>2, <1>3, <1>4, <1>6, <1>7, OneVersion
<1>. QED BY <1>2, <1>8 DEF ReviewOK

(* The editor's decisions.  An approval needs an open verdict, which no locked *)
(* version has: the run it adds is always among those the lock will list.      *)
LEMMA ApproveStep ==
  ASSUME ReviewInv, NEW v \in VersionIds, ApproveReview(v)
  PROVE  ReviewOK(v)
<1>1. /\ review[v] = "human_review_required"
      /\ review' = [review EXCEPT ![v] = "human_approved"]
      /\ decisions' = decisions + 1
      /\ UNCHANGED <<status, intake, lock, buildState, task, tries, asking, request, latest,
                     boundRuns>>
  BY DEF ApproveReview, Decide
<1>2. \/ approval' = approval /\ runs' = runs
      \/ \E a \in {"fresh", "stale"} :
           approval' = [approval EXCEPT ![v] = a] /\ runs' = [runs EXCEPT ![v] = runs[v] + 1]
  BY DEF ApproveReview
<1>3. Within(v) /\ NothingBuilt'
  BY <1>1, StatusKept
<1>4. /\ approval' \in [VersionIds -> {"none", "fresh", "stale"}]
      /\ runs' \in [VersionIds -> Nat]
      /\ \A w \in VersionIds : w # v => runs'[w] = runs[w]
  <2>1. CASE approval' = approval /\ runs' = runs
    BY <2>1 DEF ReviewInv, ReviewTypeOK
  <2>2. ASSUME NEW a \in {"fresh", "stale"}, approval' = [approval EXCEPT ![v] = a],
               runs' = [runs EXCEPT ![v] = runs[v] + 1]
        PROVE  /\ approval' \in [VersionIds -> {"none", "fresh", "stale"}]
               /\ runs' \in [VersionIds -> Nat]
               /\ \A w \in VersionIds : w # v => runs'[w] = runs[w]
    BY <2>2 DEF ReviewInv, ReviewTypeOK
  <2>. QED BY <1>2, <2>1, <2>2
<1>5. /\ review' \in [VersionIds -> ReviewStatus] /\ review'[v] = "human_approved"
      /\ \A w \in VersionIds : w # v => review'[w] = review[w]
  BY <1>1 DEF ReviewInv, ReviewTypeOK, ReviewStatus
<1>6. ReviewTypeOK'
  BY <1>1, <1>4, <1>5 DEF ReviewInv, ReviewTypeOK, buildState
<1>7. BoundAt(v)'
  <2>1. Bound4(request[v], latest[v], review[v], lock[v], runs[v], boundRuns[v])
    BY DEF ReviewInv, BoundAt
  <2>2. Bound4(request'[v], latest'[v], review'[v], lock'[v], runs'[v], boundRuns'[v])
    BY <1>1, <1>5, <2>1 DEF Bound4, Accepting
  <2>. QED BY <2>2 DEF BoundAt
<1>8. ReviewInv'
  BY <1>1, <1>3, <1>4, <1>5, <1>6, <1>7, OneVersion
<1>. QED BY <1>3, <1>8 DEF ReviewOK

LEMMA DecisionSteps ==
  ASSUME ReviewInv, NEW v \in VersionIds, RequireChanges(v) \/ Reject(v) \/ Compromise(v)
  PROVE  ReviewOK(v)
<1>1. /\ status[v] # "none" /\ decisions' = decisions + 1
      /\ UNCHANGED <<lock, buildState, reviewState, boundRuns>>
  BY DEF RequireChanges, Reject, Compromise, Decide
<1>2. /\ \/ review' = review
         \/ review' = [review EXCEPT ![v] = "changes_required"] /\ lock[v] = "none"
         \/ review' = [review EXCEPT ![v] = "rejected"]
      /\ \/ status' = status
         \/ status' = [status EXCEPT ![v] = "changes_required"] /\ lock[v] = "none"
         \/ status' = [status EXCEPT ![v] = "compromised"]
      /\ \/ intake' = intake
         \/ intake' = [intake EXCEPT ![v] = "closed"]
  BY DEF RequireChanges, Reject, Compromise
<1>3. /\ status' \in [VersionIds -> VersionStatus]
      /\ intake' \in [VersionIds -> IntakeStatus]
      /\ review' \in [VersionIds -> ReviewStatus]
  BY <1>2 DEF ReviewInv, ReviewTypeOK, VersionStatus, IntakeStatus, ReviewStatus, ReviewOutcomes
<1>4. ReviewTypeOK'
  BY <1>1, <1>3 DEF ReviewInv, ReviewTypeOK, buildState, reviewState
<1>5. \A w \in VersionIds : status'[w] = "none" <=> status[w] = "none"
  BY <1>1, <1>2 DEF ReviewInv, ReviewTypeOK
<1>6. NothingBuilt'
  BY <1>1, <1>5 DEF ReviewInv, NothingBuilt, buildState
<1>7. \A w \in VersionIds : w # v => review'[w] = review[w]
  BY <1>2 DEF ReviewInv, ReviewTypeOK
<1>8. BoundAt(v)'
  <2>1. Bound4(request[v], latest[v], review[v], lock[v], runs[v], boundRuns[v])
    BY DEF ReviewInv, BoundAt
  <2>2. review'[v] = review[v] \/ review'[v] = "rejected"
        \/ (review'[v] = "changes_required" /\ lock[v] = "none")
    <3>1. CASE review' = review
      BY <3>1
    <3>2. CASE review' = [review EXCEPT ![v] = "changes_required"] /\ lock[v] = "none"
      BY <3>2 DEF ReviewInv, ReviewTypeOK
    <3>3. CASE review' = [review EXCEPT ![v] = "rejected"]
      BY <3>3 DEF ReviewInv, ReviewTypeOK
    <3>. QED BY <1>2, <3>1, <3>2, <3>3
  <2>3. Bound4(request'[v], latest'[v], review'[v], lock'[v], runs'[v], boundRuns'[v])
    <3>1. /\ request'[v] = request[v] /\ latest'[v] = latest[v] /\ lock'[v] = lock[v]
          /\ runs'[v] = runs[v] /\ boundRuns'[v] = boundRuns[v]
      BY <1>1 DEF reviewState
    <3>. QED BY <2>1, <2>2, <3>1 DEF Bound4, Accepting
  <2>. QED BY <2>3 DEF BoundAt
<1>9. ReviewInv'
  BY <1>1, <1>4, <1>6, <1>7, <1>8, OneVersion DEF reviewState
<1>10. Within(v)
  <2>1. \A w \in VersionIds : intake'[w] \in {intake[w], "closed"}
    BY <1>2 DEF ReviewInv, ReviewTypeOK
  <2>2. \A w \in VersionIds : status'[w] = status[w]
          \/ (w = v /\ status'[w] = "changes_required" /\ lock[w] = "none")
          \/ (w = v /\ status'[w] = "compromised")
    BY <1>2 DEF ReviewInv, ReviewTypeOK
  <2>. QED BY <1>1, <1>5, <2>1, <2>2 DEF Within
<1>. QED BY <1>9, <1>10 DEF ReviewOK

(* The lock: an accepting verdict is the newest run's, with no request open. *)
LEMMA LockStep ==
  ASSUME ReviewInv, NEW v \in VersionIds, LockChallenge(v)
  PROVE  ReviewOK(v)
<1>1. /\ status[v] = "review_ready" /\ review[v] \in Accepting
      /\ status' = [status EXCEPT ![v] = "locked"]
      /\ lock' = [lock EXCEPT ![v] = "pending"]
      /\ boundRuns' = [boundRuns EXCEPT ![v] = runs[v]]
      /\ UNCHANGED <<review, intake, buildState, reviewState, decisions>>
  BY DEF LockChallenge, ReviewAccepted
<1>2. /\ status' \in [VersionIds -> VersionStatus] /\ lock' \in [VersionIds -> Signature]
      /\ boundRuns' \in [VersionIds -> Nat]
  BY <1>1 DEF ReviewInv, ReviewTypeOK, VersionStatus, Signature
<1>3. ReviewTypeOK'
  BY <1>1, <1>2 DEF ReviewInv, ReviewTypeOK, buildState, reviewState
<1>4. /\ \A w \in VersionIds : status'[w] = "none" <=> status[w] = "none"
      /\ \A w \in VersionIds : w # v =>
           status'[w] = status[w] /\ lock'[w] = lock[w] /\ boundRuns'[w] = boundRuns[w]
      /\ status'[v] = "locked" /\ lock'[v] = "pending" /\ boundRuns'[v] = runs[v]
  BY <1>1 DEF ReviewInv, ReviewTypeOK
<1>5. NothingBuilt'
  BY <1>1, <1>4 DEF ReviewInv, NothingBuilt, buildState
<1>6. BoundAt(v)'
  <2>1. Bound4(request[v], latest[v], review[v], lock[v], runs[v], boundRuns[v])
    BY DEF ReviewInv, BoundAt
  <2>2. Bound4(request'[v], latest'[v], review'[v], lock'[v], runs'[v], boundRuns'[v])
    BY <1>1, <1>4, <2>1 DEF Bound4, Accepting, reviewState
  <2>. QED BY <2>2 DEF BoundAt
<1>7. ReviewInv'
  BY <1>1, <1>3, <1>4, <1>5, <1>6, OneVersion DEF reviewState
<1>8. Within(v)
  BY <1>1, <1>4 DEF Within
<1>. QED BY <1>7, <1>8 DEF ReviewOK

LEMMA ReviewStepOK ==
  ASSUME ReviewInv, NEW v \in VersionIds, ReviewStep(v)
  PROVE  ReviewOK(v)
BY StartStep, SignSteps, BuildSteps, AttemptSteps, FinishReviewStep, RequestStep, ApproveStep,
   DecisionSteps, LockStep
   DEF ReviewStep

LEMMA ReviewNextOK == ReviewInv /\ [ReviewNext]_reviewVars => ReviewInv'
<1>. SUFFICES ASSUME ReviewInv, [ReviewNext]_reviewVars PROVE ReviewInv'
  OBVIOUS
<1>1. CASE UNCHANGED reviewVars
  BY <1>1 DEF ReviewInv, ReviewTypeOK, BoundAt, NothingBuilt, reviewVars, buildState, reviewState
<1>2. CASE ReviewNext
  BY <1>2, ReviewStepOK DEF ReviewNext, ReviewOK
<1>. QED BY <1>1, <1>2

LEMMA BoundLocks == ReviewInv => LockBindsReview
<1>. SUFFICES ASSUME ReviewInv, NEW v \in VersionIds, lock[v] # "none"
              PROVE  /\ boundRuns[v] = runs[v]
                     /\ ~request[v].queued
                     /\ latest[v].outcome \in {"automated_pass", "human_review_required"}
                     /\ review[v] = "human_approved" => latest[v].outcome = "human_review_required"
                     /\ review[v] = "automated_pass" => latest[v].outcome = "automated_pass"
  BY DEF LockBindsReview, Locked
<1>1. Bound4(request[v], latest[v], review[v], lock[v], runs[v], boundRuns[v])
  BY DEF ReviewInv, BoundAt
<1>. QED BY <1>1 DEF Bound4

(* Whatever reviews, requests and decisions interleave, a lock freezes the     *)
(* contract that was reviewed and lists every review (lockChallenge).          *)
THEOREM LocksBindReviews == ReviewSpec => []LockBindsReview
BY ReviewInvInit, ReviewNextOK, BoundLocks, PTL DEF ReviewSpec

-----------------------------------------------------------------------------
(* No review waits for nothing *)

Waits  == {"queued", "attention_required"}
BWaits == {"queued", "attention_required", "stranded"}

(* How the status, lock, preflights, builds, tasks, request and newest run of  *)
(* a version stand to each other.  A locked version is past its preflights,    *)
(* so every build that ends takes one that is not out of machine_preflight.    *)
Work(s, lk, pf, bd, tk, q, l) ==
  /\ lk # "none" => s \notin {"draft", "changes_required", "machine_preflight"}
  /\ s = "machine_preflight" => \E p \in Preflights : pf[p] = "queued" \/ bd[p] \in BWaits
  /\ (\E p \in Preflights : pf[p] = "pass") => tk["initial"] # "none"
  /\ tk["initial"] = "complete" => l.outcome # "none"
  /\ q.queued => tk["rereview"] \in Waits

WorkAt(v) ==
  Work(status[v], lock[v], preflight[v], build[v], task[v], request[v], latest[v])

AllWork == \A v \in VersionIds : WorkAt(v)

LEMMA WorkInit == ReviewInit => AllWork
BY DEF ReviewInit, AllWork, WorkAt, Work, Kinds, NoRun

(* Every other version keeps its columns. *)
Elsewhere(v) ==
  \A w \in VersionIds : w # v =>
    /\ status'[w] = status[w] /\ lock'[w] = lock[w] /\ preflight'[w] = preflight[w]
    /\ build'[w] = build[w] /\ task'[w] = task[w] /\ request'[w] = request[w]
    /\ latest'[w] = latest[w]

LEMMA ElsewhereWorks ==
  ASSUME AllWork, NEW v \in VersionIds, Elsewhere(v), WorkAt(v)'
  PROVE  AllWork'
<1>1. ASSUME NEW w \in VersionIds, w # v PROVE WorkAt(w)'
  BY <1>1 DEF AllWork, WorkAt, Elsewhere
<1>. QED BY <1>1 DEF AllWork

LEMMA PreflightWorks ==
  ASSUME ReviewInv, NEW v \in VersionIds, WorkAt(v),
         \/ StartPreflight(v)
         \/ \E p \in Preflights : \/ QueuePreflightBuild(v, p) \/ CommitFailedBuild(v, p)
                                  \/ CommitFirstBuild(v, p) \/ CommitBuild(v, p)
                                  \/ BuildExhausted(v, p) \/ StrandBuild(v, p)
                                  \/ EnrollBuilder(v, p)
  PROVE  Elsewhere(v) /\ WorkAt(v)'
<1>. USE DEF reviewState, ReviewInv, ReviewTypeOK
<1>1. CASE StartPreflight(v)
  <2>1. PICK p \in Preflights :
          /\ status[v] \in {"draft", "changes_required"}
          /\ preflight' = [preflight EXCEPT ![v][p] = "queued"]
          /\ status' = [status EXCEPT ![v] = "machine_preflight"]
          /\ UNCHANGED <<lock, build, task, request, latest>>
    BY <1>1 DEF StartPreflight
  <2>. QED BY <2>1 DEF Elsewhere, WorkAt, Work
<1>2. ASSUME NEW p \in Preflights, QueuePreflightBuild(v, p)
      PROVE  Elsewhere(v) /\ WorkAt(v)'
  BY <1>2 DEF QueuePreflightBuild, Elsewhere, WorkAt, Work, Waits, BWaits
<1>3. ASSUME NEW p \in Preflights, CommitFirstBuild(v, p)
      PROVE  Elsewhere(v) /\ WorkAt(v)'
  BY <1>3 DEF CommitFirstBuild, Elsewhere, WorkAt, Work, Waits, BWaits
<1>4. ASSUME NEW p \in Preflights,
             BuildExhausted(v, p) \/ StrandBuild(v, p) \/ EnrollBuilder(v, p)
      PROVE  Elsewhere(v) /\ WorkAt(v)'
  BY <1>4 DEF BuildExhausted, StrandBuild, EnrollBuilder, Elsewhere, WorkAt, Work, Waits, BWaits
<1>5. ASSUME NEW s \in {"changes_required", "review_ready"}, status' = StatusUnlessLocked(v, s)
      PROVE  /\ \A w \in VersionIds : w # v => status'[w] = status[w]
             /\ \/ lock[v] = "none" /\ status'[v] = s
                \/ lock[v] # "none" /\ status'[v] = status[v]
  BY <1>5 DEF StatusUnlessLocked
<1>6. ASSUME NEW p \in Preflights, CommitFailedBuild(v, p)
      PROVE  Elsewhere(v) /\ WorkAt(v)'
  BY <1>5, <1>6 DEF CommitFailedBuild, Elsewhere, WorkAt, Work
<1>7. ASSUME NEW p \in Preflights, CommitBuild(v, p)
      PROVE  Elsewhere(v) /\ WorkAt(v)'
  <2>1. /\ status' = StatusUnlessLocked(v, "review_ready") /\ task' = EnqueueReview(v)
        /\ preflight' = [preflight EXCEPT ![v][p] = "pass"]
        /\ build' = [build EXCEPT ![v][p] = "complete"]
        /\ UNCHANGED <<lock, request, latest>>
    BY <1>7 DEF CommitBuild
  <2>2. /\ \A w \in VersionIds : w # v => task'[w] = task[w]
        /\ task'[v]["rereview"] = task[v]["rereview"]
        /\ task'[v]["initial"] = IF task[v]["initial"] = "none" THEN "queued"
                                 ELSE task[v]["initial"]
    BY <2>1 DEF EnqueueReview, Kinds
  <2>3. Elsewhere(v)
    BY <1>5, <2>1, <2>2 DEF Elsewhere
  <2>. QED BY <1>5, <2>1, <2>2, <2>3 DEF WorkAt, Work, Waits, BWaits
<1>. QED BY <1>1, <1>2, <1>3, <1>4, <1>6, <1>7

LEMMA AttemptWorks ==
  ASSUME ReviewInv, NEW v \in VersionIds, WorkAt(v), NEW k \in Kinds,
         BeginReview(v, k) \/ AbandonReview(v, k) \/ LoseReviewer(v, k)
  PROVE  Elsewhere(v) /\ WorkAt(v)'
<1>. USE DEF ReviewInv, ReviewTypeOK
<1>1. CASE BeginReview(v, k)
  BY <1>1 DEF BeginReview, AlreadyReviewed, buildState, Elsewhere, WorkAt, Work, Kinds
<1>2. CASE AbandonReview(v, k)
  <2>1. /\ \E s \in Waits : task' = [task EXCEPT ![v][k] = s]
        /\ UNCHANGED <<status, lock, preflight, build, request, latest>>
    BY <1>2 DEF AbandonReview, Waits, buildState
  <2>. QED BY <2>1 DEF Elsewhere, WorkAt, Work, Kinds, Waits
<1>3. CASE LoseReviewer(v, k)
  BY <1>3 DEF LoseReviewer, buildState, Elsewhere, WorkAt
<1>. QED BY <1>1, <1>2, <1>3

LEMMA FinishWorks ==
  ASSUME ReviewInv, NEW v \in VersionIds, WorkAt(v), NEW k \in Kinds, FinishReview(v, k)
  PROVE  Elsewhere(v) /\ WorkAt(v)'
<1>. USE DEF ReviewInv, ReviewTypeOK
<1>1. PICK s \in {"queued", "complete"} : task' = [task EXCEPT ![v][k] = s]
  BY DEF FinishReview
<1>2. UNCHANGED <<status, lock, preflight, build>>
  BY DEF FinishReview, buildState
<1>3. /\ \A w \in VersionIds : w # v => task'[w] = task[w]
      /\ task'[v][k] = s /\ \A j \in Kinds : j # k => task'[v][j] = task[v][j]
  BY <1>1
<1>4. CASE AlreadyReviewed(v, k) /\ UNCHANGED <<review, request, latest, approval, runs>>
  BY <1>2, <1>3, <1>4 DEF AlreadyReviewed, Elsewhere, WorkAt, Work, Kinds, Waits
<1>5. ASSUME NEW c \in Conclusions[v], latest' = [latest EXCEPT ![v] = c],
             request' = [request EXCEPT ![v].queued =
                           IF k = "rereview" THEN FALSE ELSE request[v].queued]
      PROVE  Elsewhere(v) /\ WorkAt(v)'
  <2>1. c.outcome # "none"
    BY ConclusionTyped DEF ReviewOutcomes
  <2>2. /\ latest'[v].outcome # "none"
        /\ \A w \in VersionIds : w # v => latest'[w] = latest[w] /\ request'[w] = request[w]
        /\ request'[v].queued => k # "rereview" /\ request[v].queued
    BY <1>5, <2>1
  <2>. QED BY <1>2, <1>3, <2>2 DEF Elsewhere, WorkAt, Work, Kinds, Waits
<1>. QED BY <1>4, <1>5 DEF FinishReview

(* The other steps insert the task they wait for, or touch no work. *)
LEMMA DecisionWorks ==
  ASSUME ReviewInv, NEW v \in VersionIds, WorkAt(v),
         \/ RequestScientificReview(v) \/ LockChallenge(v) \/ SignLock(v)
         \/ ApproveReview(v) \/ RequireChanges(v) \/ Reject(v) \/ Compromise(v)
         \/ \E p \in Preflights : SignMachine(v, p)
  PROVE  Elsewhere(v) /\ WorkAt(v)'
<1>. USE DEF ReviewInv, ReviewTypeOK, buildState, reviewState
<1>1. CASE RequestScientificReview(v)
  BY <1>1 DEF RequestScientificReview, Elsewhere, WorkAt, Work, Kinds, Waits
<1>2. CASE LockChallenge(v)
  BY <1>2 DEF LockChallenge, Elsewhere, WorkAt, Work
<1>3. CASE SignLock(v)
  BY <1>3 DEF SignLock, Elsewhere, WorkAt, Work
<1>4. CASE ApproveReview(v) \/ Reject(v) \/ \E p \in Preflights : SignMachine(v, p)
  <2>1. UNCHANGED <<status, lock, preflight, build, task, request, latest>>
    BY <1>4 DEF ApproveReview, Reject, SignMachine
  <2>. QED BY <2>1 DEF Elsewhere, WorkAt
<1>5. CASE RequireChanges(v) \/ Compromise(v)
  BY <1>5 DEF RequireChanges, Compromise, Elsewhere, WorkAt, Work
<1>. QED BY <1>1, <1>2, <1>3, <1>4, <1>5

LEMMA WorkNext == ReviewInv /\ AllWork /\ [ReviewNext]_reviewVars => AllWork'
<1>. SUFFICES ASSUME ReviewInv, AllWork, [ReviewNext]_reviewVars PROVE AllWork'
  OBVIOUS
<1>1. CASE UNCHANGED reviewVars
  BY <1>1 DEF AllWork, WorkAt, reviewVars, buildState, reviewState
<1>2. ASSUME NEW v \in VersionIds, ReviewStep(v) PROVE AllWork'
  <2>1. WorkAt(v)
    BY DEF AllWork
  <2>2. Elsewhere(v) /\ WorkAt(v)'
    BY <1>2, <2>1, PreflightWorks, AttemptWorks, FinishWorks, DecisionWorks DEF ReviewStep
  <2>. QED BY <2>2, ElsewhereWorks
<1>. QED BY <1>1, <1>2 DEF ReviewNext

(* No version waits for a preflight, a review or the answer to a request that  *)
(* nobody would give, although the task of the first review is inserted once,  *)
(* however often it is built, and late builds and dead workers come between.   *)
THEOREM ReviewsHaveWork == ReviewSpec => []ReviewHasWork
<1>1. ReviewInv /\ AllWork => ReviewHasWork
  <2>. SUFFICES ASSUME ReviewInv, AllWork, NEW v \in VersionIds
                PROVE  /\ status[v] = "machine_preflight" =>
                            \E p \in Preflights : preflight[v][p] = "queued" \/ build[v][p] \in BWaits
                       /\ Passing(v) # {} =>
                            latest[v].outcome # "none" \/ task[v]["initial"] \in Waits
                       /\ request[v].queued => task[v]["rereview"] \in Waits
    BY DEF ReviewHasWork, Waits, BWaits
  <2>1. Work(status[v], lock[v], preflight[v], build[v], task[v], request[v], latest[v])
    BY DEF AllWork, WorkAt
  <2>2. task[v]["initial"] \in Waits \cup {"none", "complete"}
    BY DEF ReviewInv, ReviewTypeOK, TaskStatus, Waits, Kinds
  <2>. QED BY <2>1, <2>2 DEF Work, Passing
<1>. QED BY <1>1, ReviewInvInit, ReviewNextOK, WorkInit, WorkNext, PTL DEF ReviewSpec

-----------------------------------------------------------------------------
(* The inductive invariant of the versions *)

Late == {"migration_signing", "published", "superseded", "withdrawn", "compromised"}

(* A migration succeeds the version before it; its completion task exists only *)
(* once it was locked and staged; a request is for a version that may come.    *)
LineInv ==
  /\ \A v \in VersionIds : transition[v] = "security_migration" =>
       v - 1 \in VersionIds /\ predecessor[v] = v - 1
  /\ \A v \in VersionIds : status[v] = "migration_signing" =>
       transition[v] = "security_migration"
  /\ \A v \in VersionIds : completion[v] # "none" =>
       lock[v] # "none" /\ status[v] \in Late /\ transition[v] = "security_migration"
  /\ draft # NoDraft => draft.prior \in VersionIds /\ draft.prior + 1 \in VersionIds

(* Once the suite is revealed every version bound to it is over. *)
SuiteInv ==
  revealed => \A v \in Hidden : status[v] # "none" =>
    intake[v] = "closed" \/ v \in expired \/ v \in reopened

(* The versions that list a milestone are consecutive; all but the newest are  *)
(* closed and drained; a claim is the newest one's.                            *)
MapInv ==
  /\ \A m \in Milestones : \A x, y \in mapping[m], z \in VersionIds :
       x < z /\ z < y => z \in mapping[m]
  /\ \A m \in Milestones : \A x, y \in mapping[m] :
       x < y /\ x \notin reopened => intake[x] = "closed" /\ next[x] = watermark[x]
  /\ ClaimedWhereOpen

(* The predecessor of a completed migration is closed, and as the signed       *)
(* evidence has it.                                                            *)
EvidenceInv ==
  \A v \in VersionIds : completion[v] = "complete" =>
    /\ priorFrontier[v] = evidence[v].frontier /\ evidence[v].signature = "signed"
    /\ v - 1 \notin reopened => /\ intake[v - 1] = "closed"
                                /\ next[v - 1] = evidence[v].watermark
                                /\ watermark[v - 1] = evidence[v].watermark

VersionsInv ==
  VersionsTypeOK /\ ReviewInv /\ LineInv /\ SuiteInv /\ MapInv /\ EvidenceInv

LEMMA Ids == VersionIds \subseteq Nat /\ 0 \notin VersionIds /\ 1 \in VersionIds
BY VersionsAssumption

LEMMA VersionsInvInit == Init => VersionsInv
<1>. SUFFICES ASSUME Init PROVE VersionsInv
  OBVIOUS
<1>1. ReviewInv
  BY ReviewInvInit DEF Init
<1>2. VersionsTypeOK
  <2>1. ReviewTypeOK
    BY <1>1 DEF ReviewInv
  <2>2. NoDraft \in [prior : VersionIds \cup {NoVersion}, kind : Transitions, frontier : Nat]
    BY DEF NoDraft, Transitions
  <2>3. NoEvidence \in [signature : Signature, watermark : Nat, frontier : Nat]
    BY DEF NoEvidence, Signature
  <2>4. /\ predecessor \in [VersionIds -> VersionIds \cup {NoVersion}]
        /\ transition \in [VersionIds -> Transitions]
        /\ priorFrontier \in [VersionIds -> Nat]
        /\ expired \in SUBSET VersionIds /\ reopened \in SUBSET VersionIds
        /\ next \in [VersionIds -> Nat] /\ watermark \in [VersionIds -> Nat]
        /\ frontier \in [VersionIds -> Nat]
        /\ claim \in [Milestones -> VersionIds \cup {NoVersion}]
        /\ completions \in [VersionIds -> Nat] /\ revealed \in BOOLEAN
        /\ completion \in [VersionIds -> TaskStatus]
    BY DEF Init, VersionsInit, Transitions, TaskStatus
  <2>5. manifest \in [VersionIds -> SUBSET Milestones]
    BY VersionsAssumption DEF Init, VersionsInit
  <2>6. mapping \in [Milestones -> SUBSET VersionIds]
    BY VersionsAssumption DEF Init, VersionsInit
  <2>7. evidence \in [VersionIds -> [signature : Signature, watermark : Nat, frontier : Nat]]
    BY <2>3 DEF Init, VersionsInit
  <2>8. draft \in [prior : VersionIds \cup {NoVersion}, kind : Transitions, frontier : Nat]
    BY <2>2 DEF Init, VersionsInit
  <2>. QED BY <2>1, <2>4, <2>5, <2>6, <2>7, <2>8 DEF VersionsTypeOK
<1>3. LineInv
  BY DEF Init, ReviewInit, VersionsInit, LineInv
<1>4. SuiteInv /\ EvidenceInv
  BY DEF Init, VersionsInit, SuiteInv, EvidenceInv
<1>5. MapInv
  <2>1. \A m \in Milestones : mapping[m] \subseteq {1} /\ claim[m] = NoVersion
    BY DEF Init, VersionsInit
  <2>2. \A m \in Milestones : \A x, y \in mapping[m] : x = 1 /\ y = 1
    BY <2>1
  <2>3. \A m \in Milestones : \A x, y \in mapping[m] : ~(x < y)
    BY <2>2
  <2>4. \A m \in Milestones : \A x, y \in mapping[m], z \in VersionIds : ~(x < z /\ z < y)
    BY <2>2, Ids
  <2>. QED BY <2>1, <2>3, <2>4 DEF MapInv, ClaimedWhereOpen
<1>. QED BY <1>1, <1>2, <1>3, <1>4, <1>5 DEF VersionsInv

-----------------------------------------------------------------------------
(* What most steps keep *)

(* A closed version that leaves the state is remembered, and a closed, drained *)
(* one accepts and resolves nothing.                                           *)
Steady ==
  /\ reopened \subseteq reopened'
  /\ \A w \in VersionIds : intake[w] = "closed" => intake'[w] = "closed" \/ w \in reopened'
  /\ \A w \in VersionIds : intake[w] = "closed" /\ next[w] = watermark[w] =>
       next'[w] = next[w] /\ watermark'[w] = watermark[w]

LEMMA LineKept ==
  ASSUME LineInv, UNCHANGED <<transition, predecessor>>,
         draft' = draft \/ draft' = NoDraft,
         \A w \in VersionIds : completion'[w] # "none" => completion[w] # "none",
         \A w \in VersionIds : lock[w] # "none" => lock'[w] # "none",
         \A w \in VersionIds : status'[w] = "migration_signing" => status[w] = status'[w],
         \A w \in VersionIds : lock[w] # "none" /\ status[w] \in Late => status'[w] \in Late
  PROVE  LineInv'
BY DEF LineInv

LEMMA SuiteKept ==
  ASSUME SuiteInv, Steady, revealed' = revealed, expired \subseteq expired',
         \A w \in VersionIds : status'[w] # "none" => status[w] # "none"
  PROVE  SuiteInv'
BY VersionsAssumption DEF SuiteInv, Steady

LEMMA MapKept ==
  ASSUME MapInv, VersionsTypeOK, Steady, UNCHANGED <<mapping, claim>>
  PROVE  MapInv'
<1>1. \A m \in Milestones : mapping[m] \subseteq VersionIds
  BY DEF VersionsTypeOK
<1>2. \A m \in Milestones : \A x, y \in mapping[m] :
        x < y /\ x \notin reopened' => intake'[x] = "closed" /\ next'[x] = watermark'[x]
  BY <1>1 DEF MapInv, Steady
<1>3. ClaimedWhereOpen'
  BY DEF MapInv, ClaimedWhereOpen, Steady
<1>. QED BY <1>2, <1>3 DEF MapInv

LEMMA EvidenceKept ==
  ASSUME EvidenceInv, LineInv, Steady,
         \A v \in VersionIds : completion'[v] = "complete" =>
           /\ completion[v] = "complete"
           /\ evidence'[v] = evidence[v] /\ priorFrontier'[v] = priorFrontier[v]
  PROVE  EvidenceInv'
<1>. SUFFICES ASSUME NEW v \in VersionIds, completion'[v] = "complete"
     PROVE /\ priorFrontier[v] = evidence[v].frontier /\ evidence[v].signature = "signed"
           /\ v - 1 \notin reopened' => /\ intake'[v - 1] = "closed"
                                        /\ next'[v - 1] = evidence[v].watermark
                                        /\ watermark'[v - 1] = evidence[v].watermark
  BY DEF EvidenceInv
<1>1. completion[v] = "complete"
  OBVIOUS
<1>2. v - 1 \in VersionIds
  BY <1>1 DEF LineInv
<1>. QED BY <1>1, <1>2 DEF EvidenceInv, Steady

(* The part of module Review in a step of the versions: only the status and    *)
(* the intake may change, and no version goes back to nothing.                 *)
LEMMA ReviewUntouched ==
  ASSUME ReviewInv, UNCHANGED <<review, lock, buildState, reviewState, boundRuns>>,
         status' \in [VersionIds -> VersionStatus], intake' \in [VersionIds -> IntakeStatus],
         decisions' \in Nat,
         \A w \in VersionIds : status'[w] = "none" => status[w] = "none"
  PROVE  ReviewInv'
<1>1. ReviewTypeOK'
  BY DEF ReviewInv, ReviewTypeOK, buildState, reviewState
<1>2. NothingBuilt'
  BY DEF ReviewInv, NothingBuilt, buildState
<1>. QED BY <1>1, <1>2, VerdictsKept DEF reviewState

(* A step that is none of the three that change a lineage, the milestones or   *)
(* the reveal.                                                                 *)
LEMMA OrdinaryStep ==
  ASSUME VersionsInv, VersionsTypeOK', ReviewInv', Steady,
         UNCHANGED <<transition, predecessor, priorFrontier, mapping, claim, revealed>>,
         draft' = draft \/ draft' = NoDraft, expired \subseteq expired',
         \A w \in VersionIds : completion'[w] # "none" => completion[w] # "none",
         \A w \in VersionIds : completion'[w] = "complete" =>
           completion[w] = "complete" /\ evidence'[w] = evidence[w],
         \A w \in VersionIds : lock[w] # "none" => lock'[w] # "none",
         \A w \in VersionIds : status'[w] # "none" => status[w] # "none",
         \A w \in VersionIds : status'[w] = "migration_signing" => status[w] = status'[w],
         \A w \in VersionIds : lock[w] # "none" /\ status[w] \in Late => status'[w] \in Late
  PROVE  VersionsInv'
<1>1. LineInv'
  BY LineKept DEF VersionsInv
<1>2. SuiteInv'
  BY SuiteKept DEF VersionsInv
<1>3. MapInv'
  BY MapKept DEF VersionsInv
<1>4. EvidenceInv'
  BY EvidenceKept DEF VersionsInv
<1>. QED BY <1>1, <1>2, <1>3, <1>4 DEF VersionsInv

(* ReviewStep beside the rest *)
LEMMA WithinStep ==
  ASSUME VersionsInv, NEW v \in VersionIds, ReviewStep(v), UNCHANGED versionVars
  PROVE  VersionsInv'
<1>1. ReviewInv' /\ Within(v)
  BY ReviewStepOK DEF ReviewOK, VersionsInv
<1>2. UNCHANGED <<predecessor, transition, priorFrontier, manifest, draft, next, watermark,
                  frontier, claim, evidence, completion, completions, mapping, expired, revealed,
                  reopened>>
  BY DEF versionVars, lineage, receipts, migration
<1>3. VersionsTypeOK'
  BY <1>1, <1>2 DEF VersionsInv, VersionsTypeOK, ReviewInv
<1>4. Steady
  BY <1>1, <1>2 DEF Steady, Within
<1>5. /\ \A w \in VersionIds : lock[w] # "none" /\ status[w] \in Late => status'[w] \in Late
      /\ \A w \in VersionIds : status'[w] = "migration_signing" => status[w] = status'[w]
  BY <1>1 DEF Within, Late
<1>. QED BY <1>1, <1>2, <1>3, <1>4, <1>5, OrdinaryStep DEF Within

-----------------------------------------------------------------------------
(* The steps that leave the review variables alone *)

LEMMA ReviewUnchanged ==
  ASSUME ReviewInv, UNCHANGED reviewVars
  PROVE  /\ ReviewInv' /\ ReviewTypeOK'
         /\ UNCHANGED <<status, intake, lock>>
BY DEF ReviewInv, ReviewTypeOK, BoundAt, NothingBuilt, reviewVars, buildState, reviewState

LEMMA ReceiptSteps ==
  ASSUME VersionsInv, NEW v \in VersionIds,
         AcceptReceipt(v) \/ PublishLater(v) \/ DeadlinePasses(v)
  PROVE  VersionsInv'
<1>1. /\ UNCHANGED reviewVars
      /\ UNCHANGED <<predecessor, transition, priorFrontier, manifest, draft, watermark, claim,
                     evidence, completion, completions, mapping, revealed, reopened>>
  BY DEF AcceptReceipt, PublishLater, DeadlinePasses, lineage, receipts, migration
<1>2. /\ ReviewInv' /\ ReviewTypeOK' /\ UNCHANGED <<status, intake, lock>>
  BY <1>1, ReviewUnchanged DEF VersionsInv
<1>3. /\ next' \in [VersionIds -> Nat] /\ frontier' \in [VersionIds -> Nat]
      /\ expired' \in SUBSET VersionIds /\ expired \subseteq expired'
      /\ \A w \in VersionIds : intake[w] = "closed" => next'[w] = next[w]
  <2>. next \in [VersionIds -> Nat] /\ frontier \in [VersionIds -> Nat] /\ expired \in SUBSET VersionIds
    BY DEF VersionsInv, VersionsTypeOK
  <2>1. CASE AcceptReceipt(v)
    BY <2>1 DEF AcceptReceipt
  <2>2. CASE PublishLater(v)
    BY <2>2 DEF PublishLater
  <2>3. CASE DeadlinePasses(v)
    BY <2>3 DEF DeadlinePasses, receipts
  <2>. QED BY <2>1, <2>2, <2>3
<1>4. VersionsTypeOK'
  BY <1>1, <1>2, <1>3 DEF VersionsInv, VersionsTypeOK
<1>5. Steady
  BY <1>1, <1>2, <1>3 DEF Steady
<1>. QED BY <1>1, <1>2, <1>3, <1>4, <1>5, OrdinaryStep

LEMMA AbandonStep ==
  ASSUME VersionsInv, AbandonVersion
  PROVE  VersionsInv'
<1>1. /\ UNCHANGED reviewVars /\ draft' = NoDraft
      /\ UNCHANGED <<predecessor, transition, priorFrontier, manifest, next, watermark, frontier,
                     claim, evidence, completion, completions, mapping, expired, revealed, reopened>>
  BY DEF AbandonVersion, receipts, migration
<1>2. /\ ReviewInv' /\ ReviewTypeOK' /\ UNCHANGED <<status, intake, lock>>
  BY <1>1, ReviewUnchanged DEF VersionsInv
<1>3. NoDraft \in [prior : VersionIds \cup {NoVersion}, kind : Transitions, frontier : Nat]
  BY DEF NoDraft, Transitions
<1>4. VersionsTypeOK'
  BY <1>1, <1>2, <1>3 DEF VersionsInv, VersionsTypeOK
<1>5. Steady
  BY <1>1, <1>2 DEF Steady
<1>. QED BY <1>1, <1>2, <1>4, <1>5, OrdinaryStep

LEMMA BeginStep ==
  ASSUME VersionsInv, NEW v \in VersionIds, NEW kind \in Transitions, BeginVersion(v, kind)
  PROVE  VersionsInv'
<1>1. /\ UNCHANGED reviewVars /\ v + 1 \in VersionIds
      /\ draft' = [prior |-> v, kind |-> kind, frontier |-> frontier[v]]
      /\ UNCHANGED <<predecessor, transition, priorFrontier, manifest, next, watermark, frontier,
                     claim, evidence, completion, completions, mapping, expired, revealed, reopened>>
  BY DEF BeginVersion, receipts, migration
<1>2. /\ ReviewInv' /\ ReviewTypeOK' /\ UNCHANGED <<status, intake, lock>>
  BY <1>1, ReviewUnchanged DEF VersionsInv
<1>3. frontier[v] \in Nat
  BY DEF VersionsInv, VersionsTypeOK
<1>4. VersionsTypeOK'
  BY <1>1, <1>2, <1>3 DEF VersionsInv, VersionsTypeOK
<1>5. Steady
  BY <1>1, <1>2 DEF Steady
<1>6. LineInv'
  <2>1. draft'.prior \in VersionIds /\ draft'.prior + 1 \in VersionIds
    BY <1>1
  <2>. QED BY <1>1, <1>2, <2>1 DEF VersionsInv, LineInv
<1>7. SuiteInv' /\ MapInv' /\ EvidenceInv'
  BY <1>1, <1>2, <1>5, SuiteKept, MapKept, EvidenceKept DEF VersionsInv
<1>. QED BY <1>2, <1>4, <1>6, <1>7 DEF VersionsInv

LEMMA RetryStep ==
  ASSUME VersionsInv, NEW v \in VersionIds, RetryMigration(v) \/ LoseMigrator(v)
  PROVE  VersionsInv'
<1>1. /\ UNCHANGED reviewVars /\ completion[v] = "queued"
      /\ completions' = [completions EXCEPT ![v] = completions[v] + 1]
      /\ UNCHANGED <<predecessor, transition, priorFrontier, manifest, draft, next, watermark,
                     frontier, claim, evidence, mapping, expired, revealed, reopened>>
  BY DEF RetryMigration, LoseMigrator, MigrationAttempts, lineage, receipts
<1>2. \/ completion' = [completion EXCEPT ![v] =
           IF completions'[v] >= MaxTries THEN "attention_required" ELSE "queued"]
      \/ completion' = completion
  BY DEF RetryMigration, LoseMigrator
<1>3. \/ completion' = completion
      \/ \E s \in {"attention_required", "queued"} : completion' = [completion EXCEPT ![v] = s]
  BY <1>2
<1>4. /\ ReviewInv' /\ ReviewTypeOK' /\ UNCHANGED <<status, intake, lock>>
  BY <1>1, ReviewUnchanged DEF VersionsInv
<1>5. /\ completion' \in [VersionIds -> TaskStatus] /\ completions' \in [VersionIds -> Nat]
  BY <1>1, <1>3 DEF VersionsInv, VersionsTypeOK, TaskStatus
<1>6. /\ \A w \in VersionIds : completion'[w] # "none" => completion[w] # "none"
      /\ \A w \in VersionIds : completion'[w] = "complete" => completion[w] = "complete"
  BY <1>1, <1>3 DEF VersionsInv, VersionsTypeOK
<1>7. VersionsTypeOK'
  BY <1>1, <1>4, <1>5 DEF VersionsInv, VersionsTypeOK
<1>8. Steady
  BY <1>1, <1>4 DEF Steady
<1>. QED BY <1>1, <1>4, <1>6, <1>7, <1>8, OrdinaryStep

LEMMA SignMigrationStep ==
  ASSUME VersionsInv, NEW v \in VersionIds, SignMigration(v)
  PROVE  VersionsInv'
<1>1. /\ UNCHANGED reviewVars /\ evidence[v].signature = "pending"
      /\ evidence' = [evidence EXCEPT ![v].signature = "signed"]
      /\ UNCHANGED <<predecessor, transition, priorFrontier, manifest, draft, next, watermark,
                     frontier, claim, completion, completions, mapping, expired, revealed, reopened>>
  BY DEF SignMigration, lineage, receipts
<1>2. /\ ReviewInv' /\ ReviewTypeOK' /\ UNCHANGED <<status, intake, lock>>
  BY <1>1, ReviewUnchanged DEF VersionsInv
<1>3. /\ evidence' \in [VersionIds -> [signature : Signature, watermark : Nat, frontier : Nat]]
      /\ \A w \in VersionIds : w # v => evidence'[w] = evidence[w]
  BY <1>1 DEF VersionsInv, VersionsTypeOK, Signature
<1>4. completion[v] # "complete"
  BY <1>1 DEF VersionsInv, EvidenceInv
<1>5. VersionsTypeOK'
  BY <1>1, <1>2, <1>3 DEF VersionsInv, VersionsTypeOK
<1>6. Steady
  BY <1>1, <1>2 DEF Steady
<1>. QED BY <1>1, <1>2, <1>3, <1>4, <1>5, <1>6, OrdinaryStep

(* A suite is revealed only when every version bound to it is over. *)
LEMMA RevealStep ==
  ASSUME VersionsInv, RevealSuite
  PROVE  VersionsInv'
<1>1. /\ UNCHANGED reviewVars /\ revealed' = TRUE /\ \A v \in Bound : MayReveal(v)
      /\ UNCHANGED <<predecessor, transition, priorFrontier, manifest, draft, next, watermark,
                     frontier, claim, evidence, completion, completions, mapping, expired, reopened>>
  BY DEF RevealSuite, lineage, receipts, migration
<1>2. /\ ReviewInv' /\ ReviewTypeOK' /\ UNCHANGED <<status, intake, lock>>
  BY <1>1, ReviewUnchanged DEF VersionsInv
<1>3. VersionsTypeOK'
  BY <1>1, <1>2 DEF VersionsInv, VersionsTypeOK
<1>4. Steady
  BY <1>1, <1>2 DEF Steady
<1>5. \A v \in Hidden : status[v] # "none" => intake[v] = "closed" \/ v \in expired
  BY <1>1 DEF Bound, Exists, MayReveal
<1>6. SuiteInv'
  BY <1>1, <1>2, <1>5 DEF SuiteInv
<1>7. LineInv' /\ MapInv' /\ EvidenceInv'
  BY <1>1, <1>2, <1>4, LineKept, MapKept, EvidenceKept DEF VersionsInv
<1>. QED BY <1>2, <1>3, <1>6, <1>7 DEF VersionsInv

(* A receipt still open in a version keeps its milestones from having been     *)
(* carried on: what it claims, it claims in the newest version.                *)
LEMMA ResolveStep ==
  ASSUME VersionsInv, NEW v \in VersionIds, ResolveReceipt(v)
  PROVE  VersionsInv'
<1>1. /\ UNCHANGED reviewVars /\ watermark[v] < next[v]
      /\ watermark' = [watermark EXCEPT ![v] = watermark[v] + 1]
      /\ UNCHANGED <<predecessor, transition, priorFrontier, manifest, draft, next, evidence,
                     completion, completions, mapping, expired, revealed, reopened>>
  BY DEF ResolveReceipt, lineage, migration
<1>2. PICK ms \in SUBSET {m \in Milestones : v \in mapping[m] /\ claim[m] = NoVersion} :
        claim' = [m \in Milestones |-> IF m \in ms THEN v ELSE claim[m]]
  BY DEF ResolveReceipt
<1>3. frontier' \in [VersionIds -> Nat]
  <2>1. PICK advance \in BOOLEAN :
          frontier' = [frontier EXCEPT ![v] = IF advance THEN frontier[v] + 1 ELSE frontier[v]]
    BY DEF ResolveReceipt
  <2>. QED BY <2>1 DEF VersionsInv, VersionsTypeOK
<1>4. /\ ReviewInv' /\ ReviewTypeOK' /\ UNCHANGED <<status, intake, lock>>
  BY <1>1, ReviewUnchanged DEF VersionsInv
<1>5. /\ claim' \in [Milestones -> VersionIds \cup {NoVersion}]
      /\ \A m \in Milestones : claim'[m] = claim[m] \/ (v \in mapping[m] /\ claim'[m] = v)
  BY <1>2 DEF VersionsInv, VersionsTypeOK
<1>6. /\ watermark' \in [VersionIds -> Nat] /\ next[v] # watermark[v]
      /\ \A w \in VersionIds : w # v => watermark'[w] = watermark[w]
  BY <1>1 DEF VersionsInv, VersionsTypeOK
<1>7. VersionsTypeOK'
  BY <1>1, <1>3, <1>4, <1>5, <1>6 DEF VersionsInv, VersionsTypeOK
<1>8. Steady
  BY <1>1, <1>4, <1>6 DEF Steady
<1>9. MapInv'
  <2>1. \A m \in Milestones : mapping[m] \subseteq VersionIds
    BY DEF VersionsInv, VersionsTypeOK
  <2>2. \A m \in Milestones : \A x, y \in mapping[m] :
          x < y /\ x \notin reopened => intake'[x] = "closed" /\ next'[x] = watermark'[x]
    BY <1>8, <1>1, <2>1 DEF VersionsInv, MapInv, Steady
  <2>3. \A m \in Milestones : v \in mapping[m] /\ v \notin reopened =>
          \A w \in mapping[m] : w <= v
    <3>. SUFFICES ASSUME NEW m \in Milestones, v \in mapping[m], v \notin reopened,
                         NEW w \in mapping[m]
                  PROVE  w <= v
      OBVIOUS
    <3>1. ~(v < w)
      BY <1>6 DEF VersionsInv, MapInv
    <3>2. v \in Nat /\ w \in Nat
      BY <2>1, Ids
    <3>. QED BY <3>1, <3>2
  <2>4. ClaimedWhereOpen'
    <3>. SUFFICES ASSUME NEW m \in Milestones, claim'[m] # NoVersion
                  PROVE  /\ claim'[m] \in mapping[m]
                         /\ claim'[m] \notin reopened => \A w \in mapping[m] : w <= claim'[m]
      BY <1>1 DEF ClaimedWhereOpen
    <3>1. CASE claim'[m] = claim[m]
      BY <3>1 DEF VersionsInv, MapInv, ClaimedWhereOpen
    <3>2. CASE v \in mapping[m] /\ claim'[m] = v
      BY <3>2, <2>3
    <3>. QED BY <1>5, <3>1, <3>2
  <2>. QED BY <1>1, <2>2, <2>4 DEF VersionsInv, MapInv
<1>10. LineInv' /\ SuiteInv' /\ EvidenceInv'
  BY <1>1, <1>4, <1>8, LineKept, SuiteKept, EvidenceKept DEF VersionsInv
<1>. QED BY <1>4, <1>7, <1>9, <1>10 DEF VersionsInv

-----------------------------------------------------------------------------
(* Publication and the editor's decisions on published versions *)

(* One version's status and intake move; a closed intake that opens is         *)
(* remembered.                                                                 *)
LEMMA OneVersionMoves ==
  ASSUME VersionsInv, NEW v \in VersionIds,
         NEW s \in {"published", "withdrawn", status[v]}, NEW i \in IntakeStatus,
         status' = [status EXCEPT ![v] = s], intake' = [intake EXCEPT ![v] = i],
         status[v] # "none", decisions' \in Nat,
         UNCHANGED <<review, lock, buildState, reviewState, boundRuns>>,
         UNCHANGED <<lineage, receipts, migration, mapping, expired, revealed>>,
         reopened \subseteq reopened' /\ reopened' \subseteq VersionIds,
         intake[v] = "closed" => i = "closed" \/ v \in reopened'
  PROVE  VersionsInv'
<1>1. UNCHANGED <<predecessor, transition, priorFrontier, manifest, draft, next, watermark,
                  frontier, claim, evidence, completion, completions, mapping, expired, revealed>>
  BY DEF lineage, receipts, migration
<1>2. /\ status \in [VersionIds -> VersionStatus] /\ intake \in [VersionIds -> IntakeStatus]
  BY DEF VersionsInv, VersionsTypeOK, ReviewTypeOK
<1>3. /\ status' \in [VersionIds -> VersionStatus] /\ status'[v] = s
      /\ \A w \in VersionIds : w # v => status'[w] = status[w]
  BY <1>2 DEF VersionStatus
<1>4. /\ intake' \in [VersionIds -> IntakeStatus] /\ intake'[v] = i
      /\ \A w \in VersionIds : w # v => intake'[w] = intake[w]
  BY <1>2
<1>5. \A w \in VersionIds : status'[w] = "none" => status[w] = "none"
  BY <1>3
<1>6. ReviewInv'
  BY <1>3, <1>4, <1>5, ReviewUntouched DEF VersionsInv
<1>7. VersionsTypeOK'
  BY <1>1, <1>6 DEF VersionsInv, VersionsTypeOK, ReviewInv
<1>8. Steady
  BY <1>1, <1>4 DEF Steady
<1>9. /\ \A w \in VersionIds : status'[w] # "none" => status[w] # "none"
      /\ \A w \in VersionIds : status'[w] = "migration_signing" => status[w] = status'[w]
      /\ \A w \in VersionIds : lock[w] # "none" /\ status[w] \in Late => status'[w] \in Late
  BY <1>3 DEF Late
<1>. QED BY <1>1, <1>6, <1>7, <1>8, <1>9, OrdinaryStep

LEMMA ReopenNoted ==
  ASSUME VersionsInv, Reopen
  PROVE  /\ reopened \subseteq reopened' /\ reopened' \subseteq VersionIds
         /\ \A v \in VersionIds : intake[v] = "closed" => intake'[v] = "closed" \/ v \in reopened'
BY DEF VersionsInv, VersionsTypeOK, Reopen

LEMMA EditorSteps ==
  ASSUME VersionsInv, NEW v \in VersionIds,
         PublishChallenge(v) \/ Pause(v) \/ Resume(v) \/ Withdraw(v) \/ IncidentPauses(v)
  PROVE  VersionsInv'
<1>1. decisions \in Nat /\ status \in [VersionIds -> VersionStatus]
      /\ intake \in [VersionIds -> IntakeStatus] /\ reopened \subseteq VersionIds
  BY DEF VersionsInv, VersionsTypeOK, ReviewTypeOK
<1>2. CASE PublishChallenge(v)
  <2>1. /\ status' = [status EXCEPT ![v] = "published"] /\ intake' = [intake EXCEPT ![v] = "open"]
        /\ Reopen /\ status[v] # "none"
        /\ UNCHANGED <<review, lock, buildState, reviewState, boundRuns, decisions>>
        /\ UNCHANGED <<lineage, receipts, migration, mapping, expired, revealed>>
    BY <1>2 DEF PublishChallenge, MayPublish
  <2>2. intake'[v] = "open"
    BY <1>1, <2>1
  <2>. QED BY <1>1, <2>1, <2>2, ReopenNoted, OneVersionMoves DEF IntakeStatus
<1>3. CASE Pause(v)
  <2>1. /\ status' = status /\ intake' = [intake EXCEPT ![v] = "paused"]
        /\ Reopen /\ status[v] # "none" /\ decisions' = decisions + 1
        /\ UNCHANGED <<review, lock, buildState, reviewState, boundRuns>>
        /\ UNCHANGED <<lineage, receipts, migration, mapping, expired, revealed>>
    BY <1>3 DEF Pause, Decide
  <2>2. intake'[v] = "paused" /\ status' = [status EXCEPT ![v] = status[v]]
    BY <1>1, <2>1
  <2>3. decisions' \in Nat
    BY <1>1, <2>1
  <2>. QED BY <1>1, <2>1, <2>2, <2>3, ReopenNoted, OneVersionMoves DEF IntakeStatus
<1>4. CASE Resume(v)
  <2>1. /\ status' = status /\ intake' = [intake EXCEPT ![v] = "open"] /\ intake[v] = "paused"
        /\ status[v] # "none" /\ decisions' = decisions + 1
        /\ UNCHANGED <<review, lock, buildState, reviewState, boundRuns>>
        /\ UNCHANGED <<lineage, receipts, migration, mapping, expired, revealed, reopened>>
    BY <1>4 DEF Resume, Decide, versionVars
  <2>2. status' = [status EXCEPT ![v] = status[v]]
    BY <1>1, <2>1
  <2>3. decisions' \in Nat
    BY <1>1, <2>1
  <2>4. reopened' = reopened
    BY <2>1
  <2>. QED BY <1>1, <2>1, <2>2, <2>3, <2>4, OneVersionMoves DEF IntakeStatus
<1>5. CASE Withdraw(v)
  <2>1. /\ status' = [status EXCEPT ![v] = "withdrawn"] /\ intake' = [intake EXCEPT ![v] = "closed"]
        /\ status[v] # "none" /\ decisions' = decisions + 1
        /\ UNCHANGED <<review, lock, buildState, reviewState, boundRuns>>
        /\ UNCHANGED <<lineage, receipts, migration, mapping, expired, revealed, reopened>>
    BY <1>5 DEF Withdraw, Decide, versionVars
  <2>2. decisions' \in Nat
    BY <1>1, <2>1
  <2>3. reopened' = reopened
    BY <2>1
  <2>. QED BY <1>1, <2>1, <2>2, <2>3, OneVersionMoves DEF IntakeStatus
<1>6. CASE IncidentPauses(v)
  <2>1. /\ status' = status /\ intake' = [intake EXCEPT ![v] = "paused"]
        /\ Reopen /\ status[v] # "none"
        /\ UNCHANGED <<review, lock, buildState, reviewState, boundRuns, decisions>>
        /\ UNCHANGED <<lineage, receipts, migration, mapping, expired, revealed>>
    BY <1>6 DEF IncidentPauses, Exists
  <2>2. intake'[v] = "paused" /\ status' = [status EXCEPT ![v] = status[v]]
    BY <1>1, <2>1
  <2>. QED BY <1>1, <2>1, <2>2, ReopenNoted, OneVersionMoves DEF IntakeStatus
<1>. QED BY <1>2, <1>3, <1>4, <1>5, <1>6

LEMMA StageStep ==
  ASSUME VersionsInv, NEW v \in VersionIds, StageMigration(v)
  PROVE  VersionsInv'
<1>. DEFINE u == predecessor[v]
            e == [signature |-> "pending", watermark |-> watermark[u], frontier |-> frontier[u]]
<1>1. /\ status[v] = "locked" /\ lock[v] = "signed" /\ transition[v] = "security_migration"
      /\ status' = [status EXCEPT ![v] = "migration_signing"]
      /\ evidence' = [evidence EXCEPT ![v] = e]
      /\ UNCHANGED <<review, intake, lock, buildState, reviewState, boundRuns, decisions>>
      /\ UNCHANGED <<predecessor, transition, priorFrontier, manifest, draft, next, watermark,
                     frontier, claim, completions, mapping, expired, revealed, reopened>>
  BY DEF StageMigration, MayPublish, lineage, receipts
<1>2. completion[v] = "none"
  BY <1>1 DEF VersionsInv, LineInv, Late
<1>3. completion' = [completion EXCEPT ![v] = "queued"]
  BY <1>2 DEF StageMigration
<1>4. u \in VersionIds
  BY <1>1 DEF VersionsInv, LineInv
<1>5. e \in [signature : Signature, watermark : Nat, frontier : Nat]
  BY <1>4 DEF VersionsInv, VersionsTypeOK, Signature
<1>. HIDE DEF e, u
<1>6. /\ evidence' \in [VersionIds -> [signature : Signature, watermark : Nat, frontier : Nat]]
      /\ \A w \in VersionIds : w # v => evidence'[w] = evidence[w]
  BY <1>1, <1>5 DEF VersionsInv, VersionsTypeOK
<1>7. /\ completion' \in [VersionIds -> TaskStatus] /\ completion'[v] = "queued"
      /\ \A w \in VersionIds : w # v => completion'[w] = completion[w]
  BY <1>3 DEF VersionsInv, VersionsTypeOK, TaskStatus
<1>8. /\ status' \in [VersionIds -> VersionStatus] /\ status'[v] = "migration_signing"
      /\ \A w \in VersionIds : w # v => status'[w] = status[w]
  BY <1>1 DEF VersionsInv, VersionsTypeOK, ReviewTypeOK, VersionStatus
<1>9. ReviewInv'
  <2>1. /\ intake' \in [VersionIds -> IntakeStatus] /\ decisions' \in Nat
    BY <1>1 DEF VersionsInv, VersionsTypeOK, ReviewTypeOK
  <2>2. \A w \in VersionIds : status'[w] = "none" => status[w] = "none"
    BY <1>8
  <2>. QED BY <1>1, <1>8, <2>1, <2>2, ReviewUntouched DEF VersionsInv
<1>10. VersionsTypeOK'
  BY <1>1, <1>6, <1>7, <1>9 DEF VersionsInv, VersionsTypeOK, ReviewInv
<1>11. Steady
  BY <1>1 DEF Steady
<1>12. LineInv'
  BY <1>1, <1>7, <1>8 DEF VersionsInv, LineInv, Late
<1>13. SuiteInv'
  <2>1. \A w \in VersionIds : status'[w] # "none" => status[w] # "none"
    BY <1>1, <1>8
  <2>. QED BY <1>1, <1>11, <2>1, SuiteKept DEF VersionsInv
<1>14. MapInv'
  BY <1>1, <1>11, MapKept DEF VersionsInv
<1>15. EvidenceInv'
  <2>1. \A w \in VersionIds : completion'[w] = "complete" =>
          /\ completion[w] = "complete"
          /\ evidence'[w] = evidence[w] /\ priorFrontier'[w] = priorFrontier[w]
    BY <1>1, <1>6, <1>7
  <2>. QED BY <1>11, <2>1, EvidenceKept DEF VersionsInv
<1>. QED BY <1>9, <1>10, <1>12, <1>13, <1>14, <1>15 DEF VersionsInv

(* The successor's row did not exist: nothing was staged for it, no milestone  *)
(* was its own, and a revealed suite is not its suite.                         *)
LEMMA FinishStep ==
  ASSUME VersionsInv, FinishVersion
  PROVE  VersionsInv'
<1>. DEFINE prior == draft.prior
            v == prior + 1
<1>1. prior \in VersionIds /\ v \in VersionIds
  BY DEF VersionsInv, LineInv, FinishVersion
<1>2. /\ Newest(prior) /\ SuiteAvailable(v) /\ draft' = NoDraft
      /\ predecessor' = [predecessor EXCEPT ![v] = prior]
      /\ transition' = [transition EXCEPT ![v] = draft.kind]
      /\ priorFrontier' = [priorFrontier EXCEPT ![v] = draft.frontier]
      /\ UNCHANGED <<review, lock, buildState, reviewState, boundRuns, decisions>>
      /\ UNCHANGED <<next, watermark, frontier, claim, evidence, completion, completions, expired,
                     revealed, reopened>>
  BY DEF FinishVersion, MayPrecede, receipts, migration
<1>3. PICK ms \in SUBSET Milestones :
        /\ manifest' = [manifest EXCEPT ![v] = ms]
        /\ mapping' = [m \in Milestones |->
                         IF m \in ms /\ mapping[m] = {} THEN {v} ELSE mapping[m]]
  BY DEF FinishVersion
<1>4. \/ /\ status' = [status EXCEPT ![v] = "draft", ![prior] = "superseded"]
         /\ intake' = [intake EXCEPT ![prior] = "closed"]
      \/ /\ status' = [status EXCEPT ![v] = "draft"]
         /\ intake' = intake
  BY DEF FinishVersion
<1>5. draft.kind \in Transitions /\ draft.frontier \in Nat
  BY DEF VersionsInv, VersionsTypeOK
<1>6. prior \in Nat /\ v - 1 = prior /\ v # prior /\ v \in Nat
  <2>1. prior \in Nat
    BY <1>1, Ids
  <2>. HIDE DEF prior
  <2>. QED BY <2>1
<1>7. status[v] = "none" /\ status[prior] # "none"
  BY <1>1, <1>2, <1>6 DEF Newest, Exists
<1>. HIDE DEF v, prior
<1>8. /\ status' \in [VersionIds -> VersionStatus] /\ status'[v] = "draft"
      /\ status'[prior] \in {status[prior], "superseded"}
      /\ \A w \in VersionIds : w # v /\ w # prior => status'[w] = status[w]
  <2>. status \in [VersionIds -> VersionStatus]
    BY DEF VersionsInv, VersionsTypeOK, ReviewTypeOK
  <2>1. CASE status' = [status EXCEPT ![v] = "draft", ![prior] = "superseded"]
    BY <1>1, <1>6, <2>1 DEF VersionStatus
  <2>2. CASE status' = [status EXCEPT ![v] = "draft"]
    BY <1>1, <1>6, <2>2 DEF VersionStatus
  <2>. QED BY <1>4, <2>1, <2>2
<1>9. /\ intake' \in [VersionIds -> IntakeStatus]
      /\ \A w \in VersionIds : intake'[w] \in {intake[w], "closed"}
  <2>. intake \in [VersionIds -> IntakeStatus]
    BY DEF VersionsInv, VersionsTypeOK, ReviewTypeOK
  <2>1. CASE intake' = [intake EXCEPT ![prior] = "closed"]
    BY <1>1, <2>1 DEF IntakeStatus
  <2>2. CASE intake' = intake
    BY <2>2
  <2>. QED BY <1>4, <2>1, <2>2
<1>10. ReviewInv'
  <2>1. decisions' \in Nat
    BY <1>2 DEF VersionsInv, VersionsTypeOK, ReviewTypeOK
  <2>2. \A w \in VersionIds : status'[w] = "none" => status[w] = "none"
    BY <1>7, <1>8
  <2>. QED BY <1>2, <1>8, <1>9, <2>1, <2>2, ReviewUntouched DEF VersionsInv
<1>11. /\ predecessor' \in [VersionIds -> VersionIds \cup {NoVersion}] /\ predecessor'[v] = prior
       /\ transition' \in [VersionIds -> Transitions]
       /\ priorFrontier' \in [VersionIds -> Nat]
       /\ \A w \in VersionIds : w # v => /\ predecessor'[w] = predecessor[w]
                                         /\ transition'[w] = transition[w]
                                         /\ priorFrontier'[w] = priorFrontier[w]
  BY <1>1, <1>2, <1>5 DEF VersionsInv, VersionsTypeOK
<1>12. /\ manifest' \in [VersionIds -> SUBSET Milestones]
       /\ mapping' \in [Milestones -> SUBSET VersionIds]
       /\ \A m \in Milestones : mapping'[m] = mapping[m] \/ (mapping[m] = {} /\ mapping'[m] = {v})
  BY <1>1, <1>3 DEF VersionsInv, VersionsTypeOK
<1>13. NoDraft \in [prior : VersionIds \cup {NoVersion}, kind : Transitions, frontier : Nat]
  BY DEF NoDraft, Transitions
<1>14. VersionsTypeOK'
  BY <1>2, <1>10, <1>11, <1>12, <1>13 DEF VersionsInv, VersionsTypeOK, ReviewInv
<1>15. Steady
  BY <1>2, <1>9 DEF Steady
<1>16. completion[v] = "none"
  BY <1>1, <1>7 DEF VersionsInv, LineInv, Late
<1>17. LineInv'
  <2>1. \A w \in VersionIds : transition'[w] = "security_migration" =>
          w - 1 \in VersionIds /\ predecessor'[w] = w - 1
    BY <1>1, <1>6, <1>11 DEF VersionsInv, LineInv
  <2>2. \A w \in VersionIds : status'[w] = "migration_signing" =>
          transition'[w] = "security_migration"
    BY <1>8, <1>11 DEF VersionsInv, LineInv
  <2>3. \A w \in VersionIds : completion[w] # "none" =>
          lock[w] # "none" /\ status'[w] \in Late /\ transition'[w] = "security_migration"
    BY <1>8, <1>11, <1>16 DEF VersionsInv, LineInv, Late
  <2>. QED BY <1>2, <2>1, <2>2, <2>3 DEF LineInv
<1>18. SuiteInv'
  <2>1. revealed => v \notin Hidden
    BY <1>2 DEF SuiteAvailable
  <2>. QED BY <1>2, <1>7, <1>8, <1>9, <2>1, VersionsAssumption DEF VersionsInv, SuiteInv
<1>19. MapInv'
  <2>1. \A m \in Milestones : mapping[m] \subseteq VersionIds
    BY DEF VersionsInv, VersionsTypeOK
  <2>2. \A m \in Milestones : \A x, y \in mapping'[m], z \in VersionIds :
          x < z /\ z < y => z \in mapping'[m]
    <3>. SUFFICES ASSUME NEW m \in Milestones, NEW x \in mapping'[m], NEW y \in mapping'[m],
                         NEW z \in VersionIds, x < z, z < y
                  PROVE  z \in mapping'[m]
      OBVIOUS
    <3>1. CASE mapping'[m] = mapping[m]
      BY <3>1 DEF VersionsInv, MapInv
    <3>2. CASE mapping'[m] = {v}
      <4>1. x = v /\ y = v /\ z \in Nat
        BY <3>2, Ids
      <4>. QED BY <1>6, <4>1
    <3>. QED BY <1>12, <3>1, <3>2
  <2>3. \A m \in Milestones : \A x, y \in mapping'[m] :
          x < y /\ x \notin reopened => intake'[x] = "closed" /\ next[x] = watermark[x]
    <3>. SUFFICES ASSUME NEW m \in Milestones, NEW x \in mapping'[m], NEW y \in mapping'[m],
                         x < y, x \notin reopened
                  PROVE  intake'[x] = "closed" /\ next[x] = watermark[x]
      OBVIOUS
    <3>1. CASE mapping'[m] = mapping[m]
      <4>1. x \in VersionIds
        BY <2>1, <3>1
      <4>. QED BY <1>9, <3>1, <4>1 DEF VersionsInv, MapInv
    <3>2. CASE mapping'[m] = {v}
      <4>1. x = v /\ y = v
        BY <3>2
      <4>. QED BY <1>6, <4>1
    <3>. QED BY <1>12, <3>1, <3>2
  <2>4. ClaimedWhereOpen'
    <3>1. \A m \in Milestones : claim[m] # NoVersion => mapping'[m] = mapping[m]
      BY <1>12 DEF VersionsInv, MapInv, ClaimedWhereOpen
    <3>. QED BY <1>2, <3>1 DEF VersionsInv, MapInv, ClaimedWhereOpen
  <2>. QED BY <1>2, <2>2, <2>3, <2>4 DEF MapInv
<1>20. EvidenceInv'
  <2>1. \A w \in VersionIds : completion'[w] = "complete" =>
          /\ completion[w] = "complete"
          /\ evidence'[w] = evidence[w] /\ priorFrontier'[w] = priorFrontier[w]
    BY <1>2, <1>11, <1>16
  <2>. QED BY <1>15, <2>1, EvidenceKept DEF VersionsInv
<1>. QED BY <1>10, <1>14, <1>17, <1>18, <1>19, <1>20 DEF VersionsInv

(* The transfer: the predecessor is drained, shut and as it was signed, and is *)
(* closed; the milestones carried on were its own.                             *)
LEMMA CompleteStep ==
  ASSUME VersionsInv, NEW v \in VersionIds, CompleteMigration(v)
  PROVE  VersionsInv'
<1>. DEFINE u == predecessor[v]
<1>1. /\ completion[v] = "queued" /\ status[v] = "migration_signing"
      /\ next[u] = watermark[u] /\ frontier[u] = priorFrontier[v]
      /\ evidence[v] = [signature |-> "signed", watermark |-> watermark[u],
                        frontier |-> frontier[u]]
      /\ \A m \in manifest[v] : claim[m] = NoVersion
      /\ \A m \in Carried(v) : u \in mapping[m]
      /\ status' = [status EXCEPT ![u] = "superseded", ![v] = "published"]
      /\ intake' = [intake EXCEPT ![u] = "closed", ![v] = "open"]
      /\ mapping' = [m \in Milestones |-> IF m \in manifest[v]
                                          THEN mapping[m] \cup {v} ELSE mapping[m]]
      /\ completion' = [completion EXCEPT ![v] = "complete"]
      /\ Reopen
      /\ UNCHANGED <<review, lock, buildState, reviewState, boundRuns, decisions>>
      /\ UNCHANGED <<predecessor, transition, priorFrontier, manifest, draft, next, watermark,
                     frontier, claim, evidence, completions, expired, revealed>>
  BY DEF CompleteMigration, PredecessorReady, Drained, Succeed, lineage, receipts
<1>2. /\ u = v - 1 /\ u \in VersionIds /\ u \in Nat /\ v \in Nat /\ u # v
  BY <1>1, Ids DEF VersionsInv, LineInv
<1>. HIDE DEF u
<1>3. /\ status' \in [VersionIds -> VersionStatus]
      /\ status'[v] = "published" /\ status'[u] = "superseded"
      /\ \A w \in VersionIds : w # v /\ w # u => status'[w] = status[w]
  BY <1>1, <1>2 DEF VersionsInv, VersionsTypeOK, ReviewTypeOK, VersionStatus
<1>4. /\ intake' \in [VersionIds -> IntakeStatus]
      /\ intake'[v] = "open" /\ intake'[u] = "closed"
      /\ \A w \in VersionIds : w # v /\ w # u => intake'[w] = intake[w]
  BY <1>1, <1>2 DEF VersionsInv, VersionsTypeOK, ReviewTypeOK, IntakeStatus
<1>5. /\ completion' \in [VersionIds -> TaskStatus]
      /\ \A w \in VersionIds : w # v => completion'[w] = completion[w]
  BY <1>1 DEF VersionsInv, VersionsTypeOK, TaskStatus
<1>6. /\ mapping' \in [Milestones -> SUBSET VersionIds]
      /\ \A m \in Milestones : mapping'[m] = mapping[m]
           \/ (m \in manifest[v] /\ v \notin mapping[m] /\ mapping'[m] = mapping[m] \cup {v})
  BY <1>1 DEF VersionsInv, VersionsTypeOK
<1>7. /\ reopened \subseteq reopened' /\ reopened' \subseteq VersionIds
      /\ \A w \in VersionIds : intake[w] = "closed" => intake'[w] = "closed" \/ w \in reopened'
  BY <1>1, ReopenNoted
<1>9. ReviewInv'
  <2>1. decisions' \in Nat
    BY <1>1 DEF VersionsInv, VersionsTypeOK, ReviewTypeOK
  <2>2. \A w \in VersionIds : status'[w] = "none" => status[w] = "none"
    BY <1>3
  <2>. QED BY <1>1, <1>3, <1>4, <2>1, <2>2, ReviewUntouched DEF VersionsInv
<1>10. VersionsTypeOK'
  BY <1>1, <1>5, <1>6, <1>7, <1>9 DEF VersionsInv, VersionsTypeOK, ReviewInv
<1>11. Steady
  BY <1>1, <1>7 DEF Steady
<1>12. LineInv'
  <2>1. /\ \A w \in VersionIds : completion'[w] # "none" => completion[w] # "none"
        /\ \A w \in VersionIds : status'[w] = "migration_signing" => status[w] = status'[w]
        /\ \A w \in VersionIds : lock[w] # "none" /\ status[w] \in Late => status'[w] \in Late
    BY <1>1, <1>3, <1>5 DEF Late
  <2>. QED BY <1>1, <2>1, LineKept DEF VersionsInv
<1>13. SuiteInv'
  <2>. SUFFICES ASSUME revealed, NEW w \in Hidden, status'[w] # "none"
                PROVE  intake'[w] = "closed" \/ w \in expired \/ w \in reopened'
    BY <1>1 DEF SuiteInv
  <2>1. w \in VersionIds
    BY VersionsAssumption
  <2>2. CASE w = u
    BY <1>4, <2>2
  <2>3. CASE w # u
    <3>1. status[w] # "none"
      BY <1>1, <1>3, <2>1, <2>3
    <3>. QED BY <1>7, <2>1, <3>1 DEF VersionsInv, SuiteInv
  <2>. QED BY <2>2, <2>3
<1>14. EvidenceInv'
  <2>. SUFFICES ASSUME NEW w \in VersionIds, completion'[w] = "complete"
       PROVE /\ priorFrontier[w] = evidence[w].frontier /\ evidence[w].signature = "signed"
             /\ w - 1 \notin reopened' => /\ intake'[w - 1] = "closed"
                                          /\ next[w - 1] = evidence[w].watermark
                                          /\ watermark[w - 1] = evidence[w].watermark
    BY <1>1 DEF EvidenceInv
  <2>1. CASE w = v
    <3>1. /\ evidence[w].frontier = frontier[u] /\ evidence[w].signature = "signed"
          /\ evidence[w].watermark = watermark[u]
      BY <1>1, <2>1
    <3>. QED BY <1>1, <1>2, <1>4, <2>1, <3>1
  <2>2. CASE w # v
    <3>1. completion[w] = "complete"
      BY <1>5, <2>2
    <3>2. w - 1 \in VersionIds
      BY <3>1 DEF VersionsInv, LineInv
    <3>. QED BY <1>7, <3>1, <3>2 DEF VersionsInv, EvidenceInv
  <2>. QED BY <2>1, <2>2
<1>15. MapInv'
  <2>1. \A m \in Milestones : mapping[m] \subseteq VersionIds /\ mapping[m] \subseteq Nat
    BY Ids DEF VersionsInv, VersionsTypeOK
  <2>2. ASSUME NEW m \in Milestones, v \notin mapping[m], m \in manifest[v]
        PROVE  u \in mapping[m] /\ \A y \in mapping[m] : y <= u
    <3>1. u \in mapping[m]
      BY <1>1, <2>2 DEF Carried
    <3>2. ASSUME NEW y \in mapping[m], v < y PROVE FALSE
      <4>1. u < v /\ v < y
        BY <1>2, <3>2
      <4>. QED BY <2>2, <3>1, <4>1 DEF VersionsInv, MapInv
    <3>3. ASSUME NEW y \in mapping[m] PROVE y <= u
      <4>1. y \in Nat /\ y # v /\ ~(v < y)
        BY <2>1, <2>2, <3>2
      <4>. QED BY <1>2, <4>1
    <3>. QED BY <3>1, <3>3
  <2>3. \A m \in Milestones : \A x, y \in mapping'[m], z \in VersionIds :
          x < z /\ z < y => z \in mapping'[m]
    <3>. SUFFICES ASSUME NEW m \in Milestones, NEW x \in mapping'[m], NEW y \in mapping'[m],
                         NEW z \in VersionIds, x < z, z < y
                  PROVE  z \in mapping'[m]
      OBVIOUS
    <3>1. CASE x \in mapping[m] /\ y \in mapping[m]
      BY <1>6, <3>1 DEF VersionsInv, MapInv
    <3>2. CASE m \in manifest[v] /\ v \notin mapping[m] /\ mapping'[m] = mapping[m] \cup {v}
      <4>1. z \in Nat /\ u \in mapping[m] /\ \A t \in mapping[m] : t <= u /\ t \in Nat
        BY <2>1, <2>2, <3>2, Ids
      <4>2. CASE x = v
        <5>1. y = v \/ y \in mapping[m]
          BY <3>2
        <5>2. y \in Nat /\ y <= v
          BY <1>2, <4>1, <5>1
        <5>. QED BY <1>2, <4>1, <4>2, <5>2
      <4>3. CASE x \in mapping[m] /\ y = v
        <5>1. z <= u
          BY <1>2, <4>1, <4>3
        <5>2. CASE z = u
          BY <3>2, <4>1, <5>2
        <5>3. CASE z # u
          <6>1. z < u
            BY <1>2, <4>1, <5>1, <5>3
          <6>2. z \in mapping[m]
            BY <4>1, <4>3, <6>1 DEF VersionsInv, MapInv
          <6>. QED BY <3>2, <6>2
        <5>. QED BY <5>2, <5>3
      <4>. QED BY <3>1, <3>2, <4>2, <4>3
    <3>. QED BY <1>6, <3>1, <3>2
  <2>4. \A m \in Milestones : \A x, y \in mapping'[m] :
          x < y /\ x \notin reopened' => intake'[x] = "closed" /\ next[x] = watermark[x]
    <3>. SUFFICES ASSUME NEW m \in Milestones, NEW x \in mapping'[m], NEW y \in mapping'[m],
                         x < y, x \notin reopened'
                  PROVE  intake'[x] = "closed" /\ next[x] = watermark[x]
      OBVIOUS
    <3>1. ASSUME NEW t \in mapping[m], x \in mapping[m], x < t
          PROVE  intake'[x] = "closed" /\ next[x] = watermark[x]
      <4>1. x \in VersionIds /\ x \notin reopened
        BY <1>7, <2>1, <3>1
      <4>. QED BY <1>7, <3>1, <4>1 DEF VersionsInv, MapInv
    <3>2. CASE mapping'[m] = mapping[m]
      BY <3>1, <3>2
    <3>3. CASE m \in manifest[v] /\ v \notin mapping[m] /\ mapping'[m] = mapping[m] \cup {v}
      <4>1. u \in mapping[m] /\ \A t \in mapping[m] : t <= u /\ t \in Nat
        BY <2>1, <2>2, <3>3
      <4>2. x # v
        <5>1. y \in Nat /\ y <= v
          BY <1>2, <3>3, <4>1
        <5>. QED BY <1>2, <5>1
      <4>3. x \in mapping[m]
        BY <3>3, <4>2
      <4>4. CASE x = u
        BY <1>1, <1>4, <4>4
      <4>5. CASE x # u
        <5>1. x < u
          BY <1>2, <4>1, <4>3, <4>5
        <5>. QED BY <3>1, <4>1, <4>3, <5>1
      <4>. QED BY <4>4, <4>5
    <3>. QED BY <1>6, <3>2, <3>3
  <2>5. ClaimedWhereOpen'
    <3>1. \A m \in Milestones : claim[m] # NoVersion => mapping'[m] = mapping[m]
      BY <1>1, <1>6
    <3>. QED BY <1>1, <1>7, <3>1 DEF VersionsInv, MapInv, ClaimedWhereOpen
  <2>. QED BY <1>1, <2>3, <2>4, <2>5 DEF MapInv
<1>. QED BY <1>9, <1>10, <1>12, <1>13, <1>14, <1>15 DEF VersionsInv

-----------------------------------------------------------------------------
(* The theorems *)

LEMMA VersionsStep == VersionsInv /\ [Next]_vars => VersionsInv'
<1>. SUFFICES ASSUME VersionsInv, [Next]_vars PROVE VersionsInv'
  OBVIOUS
<1>1. CASE UNCHANGED vars
  <2>1. UNCHANGED <<predecessor, transition, priorFrontier, manifest, draft, next, watermark,
                    frontier, claim, evidence, completion, completions, mapping, expired, revealed,
                    reopened>>
    BY <1>1 DEF vars, versionVars, lineage, receipts, migration
  <2>2. /\ ReviewInv' /\ ReviewTypeOK' /\ UNCHANGED <<status, intake, lock>>
    BY <1>1, ReviewUnchanged DEF VersionsInv, vars
  <2>3. VersionsTypeOK'
    BY <2>1, <2>2 DEF VersionsInv, VersionsTypeOK
  <2>4. Steady
    BY <2>1, <2>2 DEF Steady
  <2>. QED BY <2>1, <2>2, <2>3, <2>4, OrdinaryStep
<1>2. CASE Next
  BY <1>2, WithinStep, BeginStep, EditorSteps, StageStep, SignMigrationStep, CompleteStep,
     RetryStep, ReceiptSteps, ResolveStep, FinishStep, AbandonStep, RevealStep DEF Next
<1>. QED BY <1>1, <1>2

LEMMA VersionsInvariant == Spec => []VersionsInv
BY VersionsInvInit, VersionsStep, PTL DEF Spec

(* Every variable of the versions and of their reviews keeps its type. *)
THEOREM VersionsTypeCorrect == Spec => []VersionsTypeOK
<1>1. VersionsInv => VersionsTypeOK
  BY DEF VersionsInv
<1>. QED BY <1>1, VersionsInvariant, PTL

(* The receipt a security migration signed stays true of its predecessor,      *)
(* whatever is accepted, resolved, paused or published later                   *)
(* (completeMigration), unless a closed intake was opened again.               *)
THEOREM MigrationsStayTrue == Spec => []MigrationEvidence
<1>1. VersionsInv => MigrationEvidence
  <2>. SUFFICES ASSUME VersionsInv, NEW v \in VersionIds, transition[v] = "security_migration",
                       completion[v] = "complete"
       PROVE /\ priorFrontier[v] = evidence[v].frontier
             /\ predecessor[v] \notin reopened =>
                  /\ next[predecessor[v]] = evidence[v].watermark
                  /\ watermark[predecessor[v]] = evidence[v].watermark
    BY DEF MigrationEvidence
  <2>1. predecessor[v] = v - 1
    BY DEF VersionsInv, LineInv
  <2>. QED BY <2>1 DEF VersionsInv, EvidenceInv
<1>. QED BY <1>1, VersionsInvariant, PTL

(* A milestone is claimed in the newest version that lists it                  *)
(* (createVersion, completeMigration, adjudicate).                             *)
THEOREM ClaimsStayOpen == Spec => []ClaimedWhereOpen
<1>1. VersionsInv => ClaimedWhereOpen
  BY DEF VersionsInv, MapInv
<1>. QED BY <1>1, VersionsInvariant, PTL

(* No version accepts solutions against a revealed suite, unless its closed    *)
(* intake was opened again (revealSuite, createVersion, publishChallenge).     *)
THEOREM SuitesStaySecret == Spec => []SuiteSecret
<1>1. VersionsInv => SuiteSecret
  BY VersionsAssumption DEF VersionsInv, SuiteInv, SuiteSecret, Competing
<1>. QED BY <1>1, VersionsInvariant, PTL
=============================================================================
