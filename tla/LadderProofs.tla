---------------------------- MODULE LadderProofs ----------------------------
(***************************************************************************)
(* Theorems about Ladder, for every value of its constants: types, order   *)
(* and capacity first, then what rests on them, from the runs behind a     *)
(* receipt to the verified best, the public frontier and the milestones.   *)
(***************************************************************************)
EXTENDS Ladder, FiniteSetTheorems, WellFoundedInduction, TLAPS

-----------------------------------------------------------------------------
(* Lemmas about the operators *)

(* A finite nonempty set of submissions has a last one in sequence order, so *)
(* the CHOOSE in Latest is always satisfied: best and frontier are assigned  *)
(* a submission of the batch.                                                *)
LEMMA LatestExists ==
  ASSUME NEW S, IsFiniteSet(S), S # {}, NEW f \in [S -> Int]
  PROVE  \E i \in S : \A j \in S : f[j] <= f[i]
<1> DEFINE After(i) == {j \in S : f[j] > f[i]}
           U == {After(i) : i \in S}
<1>1. U # {} /\ U \subseteq FiniteSubsetsOf(S)
  <2>1. FiniteSubsetsOf(S) = SUBSET S
    BY FS_FiniteSubsetsOfFinite
  <2>2. \A i \in S : After(i) \in SUBSET S
    OBVIOUS
  <2>3. \E i \in S : After(i) \in U
    OBVIOUS
  <2>4. U # {}
    BY <2>3, Zenon
  <2>5. U \subseteq SUBSET S
    BY <2>2, Zenon
  <2> QED BY <2>1, <2>4, <2>5
<1>2. PICK u \in U : \A x \in U : <<x, u>> \notin StrictSubsetOrdering(S)
  <2> HIDE DEF U
  <2> QED BY <1>1, FS_StrictSubsetOrderingWellFounded, WFMin, Zenon
<1>3. PICK i \in S : u = After(i)
  BY <1>2
<1>4. ASSUME NEW j \in S, f[j] > f[i]
      PROVE  FALSE
  <2>1. After(j) \subseteq After(i)
    BY <1>4
  <2>2. j \in After(i) /\ j \notin After(j)
    BY <1>4
  <2>3. After(j) \in U
    OBVIOUS
  <2>4. <<After(j), After(i)>> \in StrictSubsetOrdering(S)
    BY <2>1, <2>2, Zenon DEF StrictSubsetOrdering
  <2> QED BY <2>3, <2>4, <1>2, <1>3
<1> QED BY <1>4

-----------------------------------------------------------------------------
(* Type correctness *)

(* TypeOK alone is not inductive: a result or a recovery excludes the job's   *)
(* host, which is a host only because the job is running.                    *)
RunningHost ==
  \A i \in Intents, p \in Purposes :
    job[i][p].status = "running" => job[i][p].host \in Hosts

TypeInv == TypeOK /\ RunningHost

(* The row a runner_jobs INSERT creates is well typed. *)
LEMMA QueuedJobType ==
  ASSUME NEW x \in SUBSET Hosts, NEW g \in Groups \cup {NULL}
  PROVE  NoJob \in Job /\ QueuedJob(x, g) \in Job
<1>1. NoJob \in Job
  BY DEF Job, NoJob, JobStatus
<1>2. "queued" \in JobStatus
  BY DEF JobStatus
<1>3. ASSUME NEW j \in Job
      PROVE  [j EXCEPT !.status = "queued", !.excluded = x, !.excludedGroup = g] \in Job
  BY <1>2 DEF Job
<1> QED BY <1>1, <1>3 DEF QueuedJob

(* A claimed row is well typed: status, host and one more attempt. *)
LEMMA ClaimedType ==
  ASSUME NEW j \in Job, NEW h \in Hosts
  PROVE  [j EXCEPT !.status = "running", !.host = h, !.attempts = j.attempts + 1] \in Job
<1>1. "running" \in JobStatus
  BY DEF JobStatus
<1>2. j.attempts + 1 \in Nat
  BY DEF Job
<1>3. ASSUME NEW n \in Nat
      PROVE  [j EXCEPT !.status = "running", !.host = h, !.attempts = n] \in Job
  BY <1>1 DEF Job
<1> QED BY <1>2, <1>3

(* A row put back in the queue, or cancelled, is well typed. *)
LEMMA RequeuedType ==
  ASSUME NEW j \in Job, NEW s \in JobStatus, NEW x \in SUBSET Hosts
  PROVE  /\ [j EXCEPT !.status = s] \in Job
         /\ [j EXCEPT !.status = s, !.excluded = x, !.host = NULL] \in Job
BY DEF Job

(* A row completed by a run result is well typed. *)
LEMMA CompletedType ==
  ASSUME NEW j \in Job, NEW o \in RunOutcomes, NEW t \in Int \cup {NULL},
         NEW met \in SUBSET Milestones
  PROVE  [j EXCEPT !.status = "complete", !.outcome = o, !.score = t,
                   !.meets = met] \in Job
BY DEF Job, JobStatus

(* The empty database is well typed. *)
LEMMA InitTypeInv == Init => TypeInv
<1> SUFFICES ASSUME Init PROVE TypeInv
  OBVIOUS
<1>1. NoJob \in Job /\ NoJob.status # "running"
  BY DEF Job, NoJob, JobStatus
<1>2. job \in [Intents -> [Purposes -> Job]] /\ RunningHost
  BY <1>1 DEF Init, RunningHost
<1> QED BY <1>2 DEF Init, TypeInv, TypeOK, VersionStatus, IntakeStatus,
  SubmissionStatus, Outcome, TaskKinds, TaskStatus

(* Every intent names a version. *)
LEMMA VersionOfType == \A i \in Intents : VersionOf[i] \in Versions
BY LadderAssumption

(* acceptIntent keeps every column in its domain. *)
LEMMA AcceptType ==
  ASSUME TypeInv, NEW i \in Intents, AcceptIntent(i)
  PROVE  TypeInv'
<1> USE DEF TypeInv, TypeOK, AcceptIntent
<1>1. VersionOf[i] \in Versions /\ nextSequence[VersionOf[i]] + 1 \in Nat
  BY VersionOfType
<1>2. /\ status' \in [Intents -> SubmissionStatus]
      /\ sequence' \in [Intents -> Nat]
      /\ nextSequence' \in [Versions -> Nat]
  BY <1>1 DEF SubmissionStatus
<1>3. /\ grant' \in [Intents -> {"none", "reserved", "consumed"}]
      /\ reservation' \in [Intents -> {"none", "held", "released"}]
      /\ reserved' \in Int
  OBVIOUS
<1>4. task' \in [TaskKinds -> [Intents -> TaskStatus]]
  BY DEF TaskKinds, TaskStatus
<1>5. RunningHost'
  BY DEF RunningHost
<1> QED BY <1>2, <1>3, <1>4, <1>5

(* Running a worker task keeps the jobs table well typed. *)
LEMMA WorkOneType ==
  ASSUME TypeOK, NEW k \in TaskKinds, NEW i \in Intents, WorkOne(k, i)
  PROVE  task' \in [TaskKinds -> [Intents -> TaskStatus]]
BY DEF TypeOK, WorkOne, TaskStatus

(* enqueue keeps the jobs table well typed. *)
LEMMA EnqueueType ==
  ASSUME TypeOK, NEW k \in TaskKinds, NEW S, Enqueue(k, S)
  PROVE  task' \in [TaskKinds -> [Intents -> TaskStatus]]
BY DEF TypeOK, Enqueue, TaskStatus

(* A step that replaces the jobs of one intent keeps the type of job. *)
LEMMA JobUpdate ==
  ASSUME TypeInv, NEW i \in Intents, NEW p \in Purposes, NEW j \in Job,
         job' = [job EXCEPT ![i] = [@ EXCEPT ![p] = j]],
         j.status = "running" => j.host \in Hosts
  PROVE  job' \in [Intents -> [Purposes -> Job]] /\ RunningHost'
BY DEF TypeInv, TypeOK, RunningHost

(* queueSubmission keeps every column in its domain. *)
LEMMA QueueType ==
  ASSUME TypeInv, NEW i \in Intents, QueueSubmission(i)
  PROVE  TypeInv'
<1>1. task' \in [TaskKinds -> [Intents -> TaskStatus]]
  BY WorkOneType DEF QueueSubmission, TypeInv, TaskKinds
<1>2. /\ status' \in [Intents -> SubmissionStatus]
      /\ grant' \in [Intents -> {"none", "reserved", "consumed"}]
  <2>1. CASE job[i]["submission"].status # "none"
    BY <2>1 DEF QueueSubmission, TypeInv, TypeOK
  <2>2. CASE job[i]["submission"].status = "none"
    <3>1. status' \in [Intents -> SubmissionStatus]
      BY <2>2 DEF QueueSubmission, TypeInv, TypeOK, SubmissionStatus
    <3>2. grant[i] \in {"none", "reserved", "consumed"}
      BY DEF TypeInv, TypeOK
    <3>3. grant' = [grant EXCEPT ![i] = IF grant[i] = "reserved"
                                        THEN "consumed" ELSE grant[i]]
      BY <2>2 DEF QueueSubmission, TypeInv, TypeOK
    <3> QED BY <3>1, <3>2, <3>3 DEF TypeInv, TypeOK
  <2> QED BY <2>1, <2>2
<1>3. job' \in [Intents -> [Purposes -> Job]] /\ RunningHost'
  <2>1. CASE job[i]["submission"].status # "none"
    BY <2>1 DEF QueueSubmission, TypeInv, TypeOK, RunningHost
  <2>2. CASE job[i]["submission"].status = "none"
    <3>1. QueuedJob({}, NULL) \in Job
      BY QueuedJobType
    <3>2. QueuedJob({}, NULL).status # "running"
      BY DEF QueuedJob, NoJob
    <3>3. job' = [job EXCEPT ![i] = [@ EXCEPT !["submission"] = QueuedJob({}, NULL)]]
      BY <2>2 DEF QueueSubmission
    <3> QED BY <3>1, <3>2, <3>3, JobUpdate DEF Purposes
  <2> QED BY <2>1, <2>2
<1> QED BY <1>1, <1>2, <1>3 DEF QueueSubmission, TypeInv, TypeOK, versionVars

(* claimRunnerJob leaves a running job with a host. *)
LEMMA ClaimType ==
  ASSUME TypeInv, NEW i \in Intents, NEW p \in Purposes, NEW h \in Hosts,
         ClaimRunnerJob(i, p, h)
  PROVE  TypeInv'
<1> DEFINE j == [job[i][p] EXCEPT !.status = "running", !.host = h,
                                  !.attempts = job[i][p].attempts + 1]
<1>1. job[i][p] \in Job
  BY DEF TypeInv, TypeOK
<1>2. j \in Job
  BY <1>1, ClaimedType
<1>3. j.host \in Hosts
  BY <1>1 DEF Job
<1>4. job' = [job EXCEPT ![i] = [@ EXCEPT ![p] = j]]
  BY Zenon DEF ClaimRunnerJob
<1>5. job' \in [Intents -> [Purposes -> Job]] /\ RunningHost'
  <2> HIDE DEF j
  <2> QED BY <1>2, <1>3, <1>4, JobUpdate
<1> QED BY <1>5 DEF ClaimRunnerJob, TypeInv, TypeOK, versionVars, submissionVars, capacityVars

(* recoverRunnerLeases excludes only real hosts. *)
LEMMA RecoverType ==
  ASSUME TypeInv, NEW i \in Intents, NEW p \in Purposes, RecoverRunnerLease(i, p)
  PROVE  TypeInv'
<1> DEFINE s == IF job[i][p].attempts >= MaxAttempts
                THEN "attention_required" ELSE "queued"
           x == IF PolicyOf[VersionOf[i]] = "platform" THEN job[i][p].excluded
                ELSE job[i][p].excluded \cup {job[i][p].host}
           j == [job[i][p] EXCEPT !.status = s, !.excluded = x, !.host = NULL]
<1>1. job[i][p] \in Job /\ job[i][p].host \in Hosts
  BY DEF TypeInv, TypeOK, RunningHost, RecoverRunnerLease
<1>2. s \in JobStatus /\ s # "running"
  BY DEF JobStatus
<1>3. x \in SUBSET Hosts
  BY <1>1 DEF Job
<1>4. job' = [job EXCEPT ![i] = [@ EXCEPT ![p] = j]]
  BY Zenon DEF RecoverRunnerLease
<1>5. j \in Job /\ j.status # "running"
  <2> HIDE DEF s, x
  <2>1. j \in Job
    BY <1>1, <1>2, <1>3, RequeuedType
  <2>2. j.status = s
    BY <1>1 DEF Job
  <2> QED BY <2>1, <2>2, <1>2
<1>6. job' \in [Intents -> [Purposes -> Job]] /\ RunningHost'
  <2> HIDE DEF j
  <2> QED BY <1>4, <1>5, JobUpdate
<1> QED BY <1>6 DEF RecoverRunnerLease, TypeInv, TypeOK, versionVars,
  submissionVars, capacityVars

(* An infrastructure fault excludes only real hosts. *)
LEMMA InfrastructureFaultType ==
  ASSUME TypeInv, NEW i \in Intents, NEW p \in Purposes, InfrastructureFault(i, p)
  PROVE  TypeInv'
<1> DEFINE x == job[i][p].excluded \cup {job[i][p].host}
           j == [job[i][p] EXCEPT !.status = "queued", !.excluded = x, !.host = NULL]
<1>1. job[i][p] \in Job /\ job[i][p].host \in Hosts
  BY DEF TypeInv, TypeOK, RunningHost, InfrastructureFault
<1>2. x \in SUBSET Hosts
  BY <1>1 DEF Job
<1>3. job' = [job EXCEPT ![i] = [@ EXCEPT ![p] = j]]
  BY Zenon DEF InfrastructureFault
<1>4. j \in Job /\ j.status # "running"
  <2> HIDE DEF x
  <2>1. j \in Job
    BY <1>1, <1>2, RequeuedType DEF JobStatus
  <2>2. j.status = "queued"
    BY <1>1 DEF Job
  <2> QED BY <2>1, <2>2
<1>5. job' \in [Intents -> [Purposes -> Job]] /\ RunningHost'
  <2> HIDE DEF j
  <2> QED BY <1>3, <1>4, JobUpdate
<1> QED BY <1>5 DEF InfrastructureFault, TypeInv, TypeOK, versionVars,
  submissionVars, capacityVars

(* The job a result completes. *)
LEMMA CompletedJob ==
  ASSUME TypeInv, NEW i \in Intents, NEW p \in Purposes, NEW o \in RunOutcomes,
         NEW t \in Int \cup {NULL}, NEW met \in SUBSET Milestones
  PROVE  Completed(i, p, o, t, met) \in Job
         /\ Completed(i, p, o, t, met).status = "complete"
<1>1. job[i][p] \in Job
  BY DEF TypeInv, TypeOK
<1>2. Completed(i, p, o, t, met) \in Job
  BY <1>1, CompletedType DEF Completed
<1> QED BY <1>1, <1>2 DEF Completed, Job

(* A challenge fault keeps every column in its domain. *)
LEMMA ChallengeFaultType ==
  ASSUME TypeInv, NEW i \in Intents, NEW p \in Purposes, ChallengeFault(i, p)
  PROVE  TypeInv'
<1> DEFINE j == Completed(i, p, "challenge_fault", NULL, {})
<1>1. j \in Job /\ j.status = "complete"
  BY CompletedJob DEF RunOutcomes
<1>2. job' = [job EXCEPT ![i] = [@ EXCEPT ![p] = j]]
  BY DEF ChallengeFault
<1>3. job' \in [Intents -> [Purposes -> Job]] /\ RunningHost'
  <2> HIDE DEF j
  <2> QED BY <1>1, <1>2, JobUpdate
<1>4. /\ status' \in [Intents -> SubmissionStatus]
      /\ outcome' \in [Intents -> Outcome]
      /\ intake' \in [Versions -> IntakeStatus]
  BY DEF ChallengeFault, TypeInv, TypeOK, SubmissionStatus, Outcome, IntakeStatus
<1> QED BY <1>3, <1>4 DEF ChallengeFault, TypeInv, TypeOK, capacityVars

(* The confirmation job excludes the primary host and group, which exist. *)
LEMMA PrimaryValidType ==
  ASSUME TypeInv, NEW i \in Intents, NEW t \in Ticks, NEW met \in SUBSET Milestones,
         PrimaryValid(i, t, met)
  PROVE  TypeInv'
<1> DEFINE a == Completed(i, "submission", "valid", t, met)
           host == job[i]["submission"].host
           apart == PolicyOf[VersionOf[i]] = "independent"
           x == IF apart THEN {host} ELSE {}
           g == IF apart THEN GroupOf[host] ELSE NULL
           b == QueuedJob(x, g)
<1>1. a \in Job /\ a.status = "complete"
  <2>1. t \in Int \cup {NULL}
    BY LadderAssumption
  <2> QED BY <2>1, CompletedJob DEF RunOutcomes, Purposes
<1>2. host \in Hosts
  BY DEF TypeInv, RunningHost, PrimaryValid, Purposes
<1>3. b \in Job
  <2>1. x \in SUBSET Hosts /\ g \in Groups \cup {NULL}
    BY <1>2 DEF Groups
  <2> HIDE DEF x, g
  <2> QED BY <2>1, QueuedJobType
<1>4. b.status # "running"
  BY DEF QueuedJob, NoJob
<1>5. job' = [job EXCEPT ![i] = [p \in Purposes |-> IF p = "submission" THEN a ELSE b]]
  BY DEF PrimaryValid
<1>6. job' \in [Intents -> [Purposes -> Job]] /\ RunningHost'
  <2> HIDE DEF a, b
  <2> QED BY <1>1, <1>3, <1>4, <1>5 DEF TypeInv, TypeOK, RunningHost
<1>7. status' \in [Intents -> SubmissionStatus]
  BY DEF PrimaryValid, TypeInv, TypeOK, SubmissionStatus
<1> QED BY <1>6, <1>7 DEF PrimaryValid, TypeInv, TypeOK, versionVars, capacityVars

(* The terminal writes of runnerResult are well typed. *)
LEMMA ValidatedType ==
  ASSUME TypeInv, NEW i \in Intents, NEW o \in Outcome, NEW t \in Int \cup {NULL},
         Validated(i, o, t)
  PROVE  /\ status' \in [Intents -> SubmissionStatus]
         /\ outcome' \in [Intents -> Outcome]
         /\ score' \in [Intents -> Int \cup {NULL}]
         /\ intake' \in [Versions -> IntakeStatus]
         /\ task' \in [TaskKinds -> [Intents -> TaskStatus]]
<1>1. task' \in [TaskKinds -> [Intents -> TaskStatus]]
  BY EnqueueType DEF Validated, TypeInv, TaskKinds
<1>2. status' \in [Intents -> SubmissionStatus] /\ outcome' \in [Intents -> Outcome]
  BY DEF Validated, TypeInv, TypeOK, SubmissionStatus
<1>3. score' \in [Intents -> Int \cup {NULL}]
  BY DEF Validated, TypeInv, TypeOK
<1>4. intake' \in [Versions -> IntakeStatus]
  BY DEF Validated, TypeInv, TypeOK, IntakeStatus
<1> QED BY <1>1, <1>2, <1>3, <1>4

(* A failed primary run keeps every column in its domain. *)
LEMMA PrimaryFailedType ==
  ASSUME TypeInv, NEW i \in Intents, NEW o \in RunFailures, PrimaryFailed(i, o)
  PROVE  TypeInv'
<1> DEFINE j == Completed(i, "submission", o, NULL, {})
<1>1. o \in RunOutcomes /\ o \in Outcome /\ "submission" \in Purposes
  BY DEF RunOutcomes, Outcome, Purposes
<1>2. j \in Job /\ j.status = "complete"
  BY <1>1, CompletedJob
<1>3. job' = [job EXCEPT ![i] = [@ EXCEPT !["submission"] = j]]
  BY DEF PrimaryFailed
<1>4. job' \in [Intents -> [Purposes -> Job]] /\ RunningHost'
  <2> HIDE DEF j
  <2> QED BY <1>1, <1>2, <1>3, JobUpdate
<1>5. /\ status' \in [Intents -> SubmissionStatus]
      /\ outcome' \in [Intents -> Outcome]
      /\ score' \in [Intents -> Int \cup {NULL}]
      /\ intake' \in [Versions -> IntakeStatus]
      /\ task' \in [TaskKinds -> [Intents -> TaskStatus]]
  BY <1>1, ValidatedType DEF PrimaryFailed
<1> QED BY <1>4, <1>5 DEF PrimaryFailed, TypeInv, TypeOK, capacityVars

(* Both ends of a confirmation keep every column in its domain. *)
LEMMA ConfirmationType ==
  ASSUME TypeInv, NEW i \in Intents, NEW o \in RunOutcomes, NEW t \in Int \cup {NULL},
         NEW met \in SUBSET Milestones, NEW overlap \in BOOLEAN,
         ConfirmationResult(i, o, t, met, overlap)
  PROVE  TypeInv'
<1> DEFINE first == job[i]["submission"]
           v == VersionOf[i]
           j == Completed(i, "confirmation", o, t, met)
<1>1. first \in Job /\ "confirmation" \in Purposes
  BY DEF TypeInv, TypeOK, Purposes
<1>2. j \in Job /\ j.status = "complete"
  BY <1>1, CompletedJob
<1>3. job' = [job EXCEPT ![i] = [@ EXCEPT !["confirmation"] = j]]
  BY DEF ConfirmationResult
<1>4. job' \in [Intents -> [Purposes -> Job]] /\ RunningHost'
  <2> HIDE DEF j
  <2> QED BY <1>1, <1>2, <1>3, JobUpdate
<1>5. Confirmed(v, first.score, t) \in Int \cup {NULL}
  BY <1>1 DEF Confirmed, ConfirmedScore, Job
<1>6. Disagreement(v) \in Outcome /\ "valid" \in Outcome
  BY DEF Disagreement, Outcome, RunFailures
<1>7. /\ status' \in [Intents -> SubmissionStatus]
      /\ outcome' \in [Intents -> Outcome]
      /\ score' \in [Intents -> Int \cup {NULL}]
      /\ intake' \in [Versions -> IntakeStatus]
      /\ task' \in [TaskKinds -> [Intents -> TaskStatus]]
  <2>1. \/ Validated(i, "valid", Confirmed(v, first.score, t))
        \/ Validated(i, Disagreement(v), NULL)
    BY DEF ConfirmationResult
  <2>2. CASE Validated(i, "valid", Confirmed(v, first.score, t))
    BY <2>2, <1>5, <1>6, ValidatedType
  <2>3. CASE Validated(i, Disagreement(v), NULL)
    BY <2>3, <1>6, ValidatedType
  <2> QED BY <2>1, <2>2, <2>3
<1> QED BY <1>4, <1>7 DEF ConfirmationResult, TypeInv, TypeOK, capacityVars

(* runnerResult keeps every column in its domain, whatever it reports. *)
LEMMA RunnerResultType ==
  ASSUME TypeInv, NEW i \in Intents, RunnerResult(i)
  PROVE  TypeInv'
<1>1. \A met \in SUBSET Requires[VersionOf[i]] : met \in SUBSET Milestones
  BY LadderAssumption, VersionOfType
<1>2. Ticks \subseteq Int
  BY LadderAssumption
<1>3. CASE \E p \in Purposes : InfrastructureFault(i, p) \/ ChallengeFault(i, p)
  BY <1>3, InfrastructureFaultType, ChallengeFaultType
<1>4. CASE \E t \in Ticks, met \in SUBSET Requires[VersionOf[i]] : PrimaryValid(i, t, met)
  BY <1>4, <1>1, PrimaryValidType
<1>5. CASE \E t \in Ticks, met \in SUBSET Requires[VersionOf[i]] :
             \E overlap \in BOOLEAN : ConfirmationResult(i, "valid", t, met, overlap)
  BY <1>5, <1>1, <1>2, ConfirmationType DEF RunOutcomes
<1>6. CASE \E o \in Reports \cap RunFailures :
             PrimaryFailed(i, o) \/ ConfirmationResult(i, o, NULL, {}, FALSE)
  BY <1>6, PrimaryFailedType, ConfirmationType DEF RunOutcomes
<1> QED BY <1>3, <1>4, <1>5, <1>6 DEF RunnerResult

(* Latest chooses a member of its set, the last one in sequence order. *)
LEMMA LatestMember ==
  ASSUME TypeOK, NEW S \in SUBSET Intents, S # {}
  PROVE  Latest(S) \in S /\ \A j \in S : sequence[j] <= sequence[Latest(S)]
<1> DEFINE f == [i \in S |-> sequence[i]]
<1>1. IsFiniteSet(S)
  BY LadderAssumption, FS_Subset
<1>2. f \in [S -> Int]
  BY DEF TypeOK
<1>3. \E i \in S : \A j \in S : f[j] <= f[i]
  <2> HIDE DEF f
  <2> QED BY <1>1, <1>2, LatestExists
<1>4. \E i \in S : \A j \in S : sequence[j] <= sequence[i]
  BY <1>3
<1> QED BY <1>4 DEF Latest

(* The writes of one adjudicate transaction are well typed. *)
LEMMA AdjudicateBatchType ==
  ASSUME TypeInv, NEW v \in Versions, NEW w \in Nat, NEW B \in SUBSET Intents,
         NEW A \in SUBSET Intents, AdjudicateBatch(v, w, B, A)
  PROVE  /\ watermark' \in [Versions -> Nat]
         /\ best' \in [Versions -> Intents \cup {NULL}]
         /\ frontier' \in [Versions -> Intents \cup {NULL}]
         /\ receipt' \in [Intents -> Receipt \cup {NULL}]
         /\ claim' \in [Milestones -> Intents \cup {NULL}]
         /\ status' \in [Intents -> SubmissionStatus]
         /\ public' \in [Intents -> BOOLEAN]
         /\ reservation' \in [Intents -> {"none", "held", "released"}]
         /\ reserved' \in Int
<1> DEFINE records == {i \in B : Record(v, B, i)}
<1>1. records # {} => Latest(records) \in Intents
  BY LatestMember DEF TypeInv
<1>2. A # {} => Latest(A) \in Intents
  BY LatestMember DEF TypeInv
<1>3. watermark' \in [Versions -> Nat]
  BY DEF AdjudicateBatch, TypeInv, TypeOK
<1>4. best' \in [Versions -> Intents \cup {NULL}]
  <2> HIDE DEF records
  <2>1. best' = [best EXCEPT ![v] = IF records = {} THEN @ ELSE Latest(records)]
    BY DEF AdjudicateBatch, records
  <2> QED BY <1>1, <2>1 DEF TypeInv, TypeOK
<1>5. frontier' \in [Versions -> Intents \cup {NULL}]
  BY <1>2 DEF AdjudicateBatch, TypeInv, TypeOK
<1>6. receipt' \in [Intents -> Receipt \cup {NULL}]
  <2>1. ASSUME NEW i \in B
        PROVE  [outcome |-> outcome[i], score |-> score[i],
                record |-> i \in records, advance |-> i \in A,
                milestones |-> Claims(B, i)] \in Receipt
    <3>1. Claims(B, i) \in SUBSET Milestones
      BY LadderAssumption, VersionOfType DEF Claims, Crossed
    <3>2. outcome[i] \in Outcome /\ score[i] \in Int \cup {NULL}
      BY DEF TypeInv, TypeOK
    <3>3. (i \in records) \in BOOLEAN /\ (i \in A) \in BOOLEAN
      OBVIOUS
    <3> QED BY <3>1, <3>2, <3>3 DEF Receipt
  <2> QED BY <2>1 DEF AdjudicateBatch, TypeInv, TypeOK
<1>7. claim' \in [Milestones -> Intents \cup {NULL}]
  <2>1. ASSUME NEW m \in Milestones, \E i \in B : m \in Claims(B, i)
        PROVE  (CHOOSE i \in B : m \in Claims(B, i)) \in B
    BY <2>1
  <2> QED BY <2>1 DEF AdjudicateBatch, TypeInv, TypeOK
<1>8. status' \in [Intents -> SubmissionStatus]
  BY DEF AdjudicateBatch, TypeInv, TypeOK, SubmissionStatus
<1>9. public' \in [Intents -> BOOLEAN]
  <2>1. \A i \in B : Publishes(B, i) \in BOOLEAN
    BY LadderAssumption DEF Publishes
  <2> QED BY <2>1 DEF AdjudicateBatch, TypeInv, TypeOK
<1>10. reservation' \in [Intents -> {"none", "held", "released"}]
  BY DEF AdjudicateBatch, ReleaseCapacity, TypeInv, TypeOK
<1>11. reserved' \in Int
  <2>1. Cardinality({i \in B : reservation[i] = "held"}) \in Nat
    BY LadderAssumption, FS_Subset, FS_CardinalityType
  <2> QED BY <2>1 DEF AdjudicateBatch, ReleaseCapacity, TypeInv, TypeOK
<1> QED BY <1>3, <1>4, <1>5, <1>6, <1>7, <1>8, <1>9, <1>10, <1>11

(* adjudicate keeps every column in its domain. *)
LEMMA AdjudicateType ==
  ASSUME TypeInv, NEW i \in Intents, Adjudicate(i)
  PROVE  TypeInv'
<1> DEFINE v == VersionOf[i]
<1>1. v \in Versions /\ watermark[v] \in Nat /\ nextSequence[v] \in Nat
  BY VersionOfType DEF TypeInv, TypeOK
<1>2. PICK w \in watermark[v]..nextSequence[v] :
        \E A \in SUBSET Published(Batch(v, w)) : AdjudicateBatch(v, w, Batch(v, w), A)
  BY DEF Adjudicate
<1>3. PICK A \in SUBSET Published(Batch(v, w)) : AdjudicateBatch(v, w, Batch(v, w), A)
  BY <1>2
<1>4. w \in Nat /\ Batch(v, w) \in SUBSET Intents /\ A \in SUBSET Intents
  <2>1. w \in Nat
    BY <1>1
  <2>2. Batch(v, w) \in SUBSET Intents
    BY Zenon DEF Batch
  <2>3. Published(Batch(v, w)) \in SUBSET Intents
    BY <2>2, Zenon DEF Published
  <2> QED BY <2>1, <2>2, <2>3, <1>3
<1>5. task' \in [TaskKinds -> [Intents -> TaskStatus]]
  BY WorkOneType DEF Adjudicate, TypeInv, TaskKinds
<1>6. RunningHost'
  BY DEF Adjudicate, TypeInv, RunningHost
<1>7. /\ watermark' \in [Versions -> Nat]
      /\ best' \in [Versions -> Intents \cup {NULL}]
      /\ frontier' \in [Versions -> Intents \cup {NULL}]
      /\ receipt' \in [Intents -> Receipt \cup {NULL}]
      /\ claim' \in [Milestones -> Intents \cup {NULL}]
      /\ status' \in [Intents -> SubmissionStatus]
      /\ public' \in [Intents -> BOOLEAN]
      /\ reservation' \in [Intents -> {"none", "held", "released"}]
      /\ reserved' \in Int
  <2> HIDE DEF v
  <2> QED BY <1>1, <1>3, <1>4, AdjudicateBatchType
<1> QED BY <1>5, <1>6, <1>7 DEF Adjudicate, TypeInv, TypeOK

(* publishSubmission keeps every column in its domain. *)
LEMMA PublishType ==
  ASSUME TypeInv, NEW i \in Intents, PublishSubmission(i)
  PROVE  TypeInv'
<1>1. VersionOf[i] \in Versions
  BY VersionOfType
<1>2. /\ public' \in [Intents -> BOOLEAN]
      /\ frontier' \in [Versions -> Intents \cup {NULL}]
  BY <1>1 DEF PublishSubmission, FrontierAfterPublishing, TypeInv, TypeOK
<1>3. RunningHost'
  BY DEF PublishSubmission, TypeInv, RunningHost
<1> QED BY <1>2, <1>3 DEF PublishSubmission, TypeInv, TypeOK, capacityVars

(* resolve_unscorable keeps every column in its domain. *)
LEMMA ResolveType ==
  ASSUME TypeInv, NEW v \in Versions, ResolveUnscorable(v)
  PROVE  TypeInv'
<1>1. /\ vstatus' \in [Versions -> VersionStatus]
      /\ intake' \in [Versions -> IntakeStatus]
  BY DEF ResolveUnscorable, Retire, TypeInv, TypeOK, VersionStatus, IntakeStatus
<1>2. task' \in [TaskKinds -> [Intents -> TaskStatus]]
  BY EnqueueType DEF ResolveUnscorable, TypeInv, TaskKinds
<1>3. /\ status' \in [Intents -> SubmissionStatus]
      /\ outcome' \in [Intents -> Outcome]
      /\ score' \in [Intents -> Int \cup {NULL}]
  BY DEF ResolveUnscorable, TypeInv, TypeOK, SubmissionStatus, Outcome
<1>4. ASSUME NEW i \in Intents, NEW p \in Purposes
      PROVE  /\ job'[i][p] \in Job
             /\ job'[i][p].status = "running" => job'[i][p].host \in Hosts
  <2>1. job[i][p] \in Job
    BY DEF TypeInv, TypeOK
  <2>2. [job[i][p] EXCEPT !.status = "cancelled"] \in Job
    BY <2>1, RequeuedType DEF JobStatus
  <2>3. [job[i][p] EXCEPT !.status = "cancelled"].status # "running"
    BY <2>1 DEF Job
  <2>4. job'[i][p] \in {job[i][p], [job[i][p] EXCEPT !.status = "cancelled"]}
    BY DEF ResolveUnscorable
  <2> QED BY <2>1, <2>2, <2>3, <2>4 DEF TypeInv, RunningHost
<1>5. job' \in [Intents -> [Purposes -> Job]]
  <2>1. job' = [i \in Intents |-> [p \in Purposes |-> job'[i][p]]]
    BY DEF ResolveUnscorable
  <2> QED BY <2>1, <1>4
<1>6. RunningHost'
  BY <1>4 DEF RunningHost
<1> QED BY <1>1, <1>2, <1>3, <1>5, <1>6 DEF ResolveUnscorable, TypeInv, TypeOK, capacityVars

(* No editorial decision leaves a column outside its domain. *)
LEMMA EditorType ==
  ASSUME TypeInv, NEW v \in Versions, EditorDecision(v) \/ DeadlinePasses(v)
  PROVE  TypeInv'
<1> USE DEF TypeInv, TypeOK, RunningHost, VersionStatus, IntakeStatus,
            submissionVars, capacityVars
<1>1. CASE Pause(v) \/ Resume(v) \/ Reject(v)
  BY ZenonT(60), <1>1 DEF Pause, Resume, Reject
<1>2. CASE Withdraw(v) \/ Compromise(v)
  BY ZenonT(60), <1>2 DEF Withdraw, Compromise, Retire
<1>3. CASE DeadlinePasses(v)
  BY <1>3 DEF DeadlinePasses
<1>4. CASE ResolveUnscorable(v)
  BY <1>4, ResolveType
<1> QED BY <1>1, <1>2, <1>3, <1>4 DEF EditorDecision

(* TypeInv is inductive. *)
LEMMA NextTypeInv == TypeInv /\ [Next]_vars => TypeInv'
<1> SUFFICES ASSUME TypeInv, [Next]_vars PROVE TypeInv'
  OBVIOUS
<1>1. ASSUME NEW i \in Intents, AcceptIntent(i) \/ QueueSubmission(i) \/ RunnerResult(i)
             \/ Adjudicate(i) \/ PublishSubmission(i)
      PROVE  TypeInv'
  BY <1>1, AcceptType, QueueType, RunnerResultType, AdjudicateType, PublishType
<1>2. ASSUME NEW i \in Intents, NEW p \in Purposes,
             (\E h \in Hosts : ClaimRunnerJob(i, p, h)) \/ RecoverRunnerLease(i, p)
      PROVE  TypeInv'
  BY <1>2, ClaimType, RecoverType
<1>3. ASSUME NEW v \in Versions, EditorDecision(v) \/ DeadlinePasses(v)
      PROVE  TypeInv'
  BY <1>3, EditorType
<1>4. CASE UNCHANGED vars
  BY <1>4 DEF vars, versionVars, submissionVars, capacityVars, TypeInv, TypeOK, RunningHost
<1> QED BY <1>1, <1>2, <1>3, <1>4 DEF Next

(* Every reachable state of the control database is well typed: no handler    *)
(* stores a status, score or host outside the column's domain, whatever the   *)
(* instance.                                                                  *)
THEOREM TypeCorrect == Spec => []TypeOK
<1>1. Init => TypeInv
  BY InitTypeInv
<1>2. TypeInv /\ [Next]_vars => TypeInv'
  BY NextTypeInv
<1>3. TypeInv => TypeOK
  BY DEF TypeInv
<1> QED BY <1>1, <1>2, <1>3, PTL DEF Spec

-----------------------------------------------------------------------------
(* Receipt order and what rests on it *)

(* Nothing runs for an intent that was never accepted. *)
Unborn ==
  \A i \in Intents : ~Accepted(i) =>
    /\ sequence[i] = 0
    /\ task["validate_submission"][i] = "none"
    /\ \A p \in Purposes : job[i][p].status = "none"

(* The inductive strengthening of WatermarkOrder: a fresh sequence number is  *)
(* beyond every earlier one, hence beyond the watermark.                      *)
OrderInv ==
  /\ Unborn
  /\ WatermarkOrder
  /\ \A i \in Intents : sequence[i] <= nextSequence[VersionOf[i]]
  /\ \A i \in Intents : status[i] = "finalized" => receipt[i] # NULL

(* The steps other than acceptance and adjudication leave sequences, receipts, *)
(* reservations and claims alone, finalize nothing and take nothing back.      *)
Quiet ==
  /\ UNCHANGED <<nextSequence, watermark, sequence, receipt, reservation,
                 reserved, claim>>
  /\ \A i \in Intents : status[i] = "none" <=> status'[i] = "none"
  /\ \A i \in Intents : status'[i] = "finalized" => status[i] = "finalized"
  /\ \A i \in Intents : public[i] => public'[i]
  /\ Unborn'

(* queueSubmission is quiet: its task exists only for an accepted receipt. *)
LEMMA QueueQuiet ==
  ASSUME TypeInv, Unborn, NEW i \in Intents, QueueSubmission(i)
  PROVE  Quiet
<1>1. Accepted(i) /\ task["validate_submission"][i] = "queued"
  BY DEF Unborn, QueueSubmission, WorkOne
<1>2. \A n \in Intents : status[n] = "none" <=> status'[n] = "none"
  BY <1>1 DEF QueueSubmission, Accepted, TypeInv, TypeOK
<1>3. \A n \in Intents : status'[n] = "finalized" => status[n] = "finalized"
  BY DEF QueueSubmission, TypeInv, TypeOK
<1>4. \A n \in Intents : n # i =>
        /\ task'["validate_submission"][n] = task["validate_submission"][n]
        /\ job'[n] = job[n]
  BY DEF QueueSubmission, WorkOne, TypeInv, TypeOK, TaskKinds
<1>5. Unborn'
  BY <1>1, <1>2, <1>4 DEF Unborn, Accepted, QueueSubmission
<1> QED BY <1>2, <1>3, <1>5 DEF Quiet, QueueSubmission, versionVars

(* Claiming and recovering a runner job are quiet. *)
LEMMA ClaimQuiet ==
  ASSUME TypeInv, Unborn, NEW i \in Intents, NEW p \in Purposes,
         (\E h \in Hosts : ClaimRunnerJob(i, p, h)) \/ RecoverRunnerLease(i, p)
  PROVE  Quiet
<1>1. Accepted(i)
  <2>1. job[i][p].status # "none"
    BY DEF ClaimRunnerJob, MayClaim, RecoverRunnerLease
  <2> QED BY <2>1 DEF Unborn
<1>2. /\ UNCHANGED <<versionVars, submissionVars, capacityVars, claim, task>>
      /\ \A n \in Intents : n # i => job'[n] = job[n]
  BY DEF ClaimRunnerJob, RecoverRunnerLease, TypeInv, TypeOK
<1>3. Unborn'
  BY <1>1, <1>2 DEF Unborn, Accepted, submissionVars
<1> QED BY <1>2, <1>3 DEF Quiet, versionVars, submissionVars, capacityVars

(* Every result concerns a running job, so an accepted submission. *)
LEMMA ResultQuiet ==
  ASSUME TypeInv, Unborn, NEW i \in Intents, RunnerResult(i)
  PROVE  Quiet
<1>1. Accepted(i)
  <2>1. \E p \in Purposes : job[i][p].status = "running"
    BY DEF RunnerResult, InfrastructureFault, ChallengeFault, PrimaryValid,
           PrimaryFailed, ConfirmationResult, Purposes
  <2> QED BY <2>1 DEF Unborn
<1>2. /\ UNCHANGED <<nextSequence, watermark, sequence, receipt, reservation,
                     reserved, claim, public>>
      /\ \A n \in Intents : n # i => job'[n] = job[n]
  BY ZenonT(60) DEF RunnerResult, InfrastructureFault, ChallengeFault, PrimaryValid,
         PrimaryFailed, ConfirmationResult, TypeInv, TypeOK, versionVars,
         submissionVars, capacityVars
<1>3. \/ UNCHANGED status
      \/ \E s \in SubmissionStatus \ {"none", "finalized"} :
           status' = [status EXCEPT ![i] = s]
  <2>1. {"challenge_fault", "confirmation_running", "validated"}
          \subseteq SubmissionStatus \ {"none", "finalized"}
    BY DEF SubmissionStatus
  <2> QED BY <2>1 DEF RunnerResult, InfrastructureFault, ChallengeFault, PrimaryValid,
             PrimaryFailed, ConfirmationResult, Validated, submissionVars
<1>4. /\ \A n \in Intents : status[n] = "none" <=> status'[n] = "none"
      /\ \A n \in Intents : status'[n] = "finalized" => status[n] = "finalized"
  BY <1>1, <1>3 DEF Accepted, TypeInv, TypeOK
<1>5. \A n \in Intents : task'["validate_submission"][n] = task["validate_submission"][n]
  BY ZenonT(40) DEF RunnerResult, InfrastructureFault, ChallengeFault, PrimaryValid, PrimaryFailed,
         ConfirmationResult, Validated, Enqueue, TypeInv, TypeOK, TaskKinds
<1>6. Unborn'
  BY <1>1, <1>2, <1>4, <1>5 DEF Unborn, Accepted
<1> QED BY <1>2, <1>4, <1>6 DEF Quiet

(* publishSubmission is quiet: it only makes a receipt public. *)
LEMMA PublishQuiet ==
  ASSUME TypeInv, Unborn, NEW i \in Intents, PublishSubmission(i)
  PROVE  Quiet
<1>1. Unborn'
  BY DEF PublishSubmission, Unborn, Accepted
<1> QED BY <1>1 DEF Quiet, PublishSubmission, capacityVars, TypeInv, TypeOK

(* Editorial decisions are quiet: they finalize nothing themselves. *)
LEMMA EditorQuiet ==
  ASSUME TypeInv, Unborn, NEW v \in Versions, EditorDecision(v) \/ DeadlinePasses(v)
  PROVE  Quiet
<1>1. CASE ResolveUnscorable(v)
  <2>1. /\ \A n \in Intents : status[n] = "none" <=> status'[n] = "none"
        /\ \A n \in Intents : status'[n] = "finalized" => status[n] = "finalized"
    BY <1>1 DEF ResolveUnscorable, TypeInv, TypeOK
  <2>2. \A n \in Intents : task'["validate_submission"][n] = task["validate_submission"][n]
    BY <1>1 DEF ResolveUnscorable, Enqueue, TypeInv, TypeOK, TaskKinds
  <2>3. \A n \in Intents, p \in Purposes :
          job[n][p].status = "none" => job'[n][p].status = "none"
    <3> SUFFICES ASSUME NEW n \in Intents, NEW p \in Purposes, job[n][p].status = "none"
                 PROVE  job'[n][p] = job[n][p]
      OBVIOUS
    <3>1. job[n][p].status \notin {"queued", "running", "attention_required"}
      OBVIOUS
    <3> QED BY <1>1, <3>1 DEF ResolveUnscorable
  <2>4. Unborn'
    <3>1. sequence' = sequence
      BY <1>1 DEF ResolveUnscorable
    <3> QED BY <3>1, <2>1, <2>2, <2>3 DEF Unborn, Accepted
  <2> QED BY <1>1, <2>1, <2>4 DEF Quiet, ResolveUnscorable, capacityVars
<1>2. CASE UNCHANGED <<nextSequence, watermark, submissionVars, capacityVars,
                       job, claim, task>>
  BY <1>2 DEF Quiet, Unborn, Accepted, submissionVars, capacityVars
<1> QED BY <1>1, <1>2 DEF EditorDecision, Pause, Resume, Reject, Withdraw, Compromise,
           DeadlinePasses

(* Nothing is accepted or adjudicated at first. *)
LEMMA InitOrderInv == Init => OrderInv
<1> SUFFICES ASSUME Init PROVE OrderInv
  OBVIOUS
<1>1. Unborn
  BY DEF Init, Unborn, Accepted, NoJob, TaskKinds
<1>2. WatermarkOrder
  BY VersionOfType DEF Init, WatermarkOrder
<1>3. \A i \in Intents : sequence[i] <= nextSequence[VersionOf[i]]
  BY VersionOfType DEF Init
<1> QED BY <1>1, <1>2, <1>3 DEF Init, OrderInv

(* An accepted intent gets the next sequence, which no receipt has reached. *)
LEMMA AcceptOrder ==
  ASSUME TypeInv, OrderInv, NEW i \in Intents, AcceptIntent(i)
  PROVE  OrderInv'
<1> DEFINE v == VersionOf[i]
<1>1. v \in Versions /\ nextSequence[v] \in Nat /\ watermark[v] \in Nat
  BY VersionOfType DEF TypeInv, TypeOK
<1>2. /\ sequence' = [sequence EXCEPT ![i] = nextSequence[v] + 1]
      /\ nextSequence' = [nextSequence EXCEPT ![v] = nextSequence[v] + 1]
      /\ status' = [status EXCEPT ![i] = "accepted"]
      /\ receipt' = receipt /\ watermark' = watermark /\ job' = job
  BY DEF AcceptIntent
<1>3. sequence[i] = 0 /\ receipt[i] = NULL
  BY <1>1 DEF AcceptIntent, OrderInv, Unborn, WatermarkOrder
<1>4. WatermarkOrder'
  <2>1. nextSequence[v] + 1 > watermark[v]
    BY <1>1 DEF OrderInv, WatermarkOrder
  <2>2. ASSUME NEW n \in Intents
        PROVE  receipt'[n] # NULL <=> sequence'[n] \in 1..watermark'[VersionOf[n]]
    BY <1>1, <1>2, <1>3, <2>1 DEF OrderInv, WatermarkOrder, TypeInv, TypeOK
  <2>3. ASSUME NEW u \in Versions
        PROVE  watermark'[u] <= nextSequence'[u]
    BY <1>1, <1>2 DEF OrderInv, WatermarkOrder, TypeInv, TypeOK
  <2> QED BY <2>2, <2>3 DEF WatermarkOrder
<1>5. \A n \in Intents : sequence'[n] <= nextSequence'[VersionOf[n]]
  BY <1>1, <1>2, VersionOfType DEF OrderInv, TypeInv, TypeOK
<1>6. Unborn'
  <2>1. \A n \in Intents : n # i =>
          task'["validate_submission"][n] = task["validate_submission"][n]
    BY DEF AcceptIntent, TypeInv, TypeOK, TaskKinds
  <2> QED BY <2>1, <1>2 DEF OrderInv, Unborn, Accepted, TypeInv, TypeOK
<1>7. \A n \in Intents : status'[n] = "finalized" => receipt'[n] # NULL
  BY <1>2 DEF OrderInv, TypeInv, TypeOK
<1> QED BY <1>4, <1>5, <1>6, <1>7 DEF OrderInv

(* What one adjudication transaction does: it moves the watermark to w, and   *)
(* the submissions in between, none of which had a receipt, get one.          *)
LEMMA AdjudicateFacts ==
  ASSUME TypeInv, OrderInv, NEW i \in Intents, Adjudicate(i)
  PROVE  \E w \in Nat, A \in SUBSET Intents :
           /\ watermark[VersionOf[i]] <= w /\ w <= nextSequence[VersionOf[i]]
           /\ AdjudicateBatch(VersionOf[i], w, Batch(VersionOf[i], w), A)
           /\ \A j \in Batch(VersionOf[i], w) : Accepted(j) /\ receipt[j] = NULL
<1> DEFINE v == VersionOf[i]
<1>1. v \in Versions /\ watermark[v] \in Nat /\ nextSequence[v] \in Nat
  BY VersionOfType DEF TypeInv, TypeOK
<1>2. PICK w \in watermark[v]..nextSequence[v] :
        \E A \in SUBSET Published(Batch(v, w)) : AdjudicateBatch(v, w, Batch(v, w), A)
  BY DEF Adjudicate
<1>3. PICK A \in SUBSET Published(Batch(v, w)) : AdjudicateBatch(v, w, Batch(v, w), A)
  BY <1>2
<1>4. w \in Nat /\ watermark[v] <= w /\ w <= nextSequence[v]
  BY <1>1
<1>5. A \in SUBSET Intents
  <2>1. Published(Batch(v, w)) \in SUBSET Intents
    BY Zenon DEF Published, Batch
  <2> QED BY <2>1, <1>3
<1>6. ASSUME NEW j \in Batch(v, w)
      PROVE  Accepted(j) /\ receipt[j] = NULL
  <2>1. j \in Intents /\ VersionOf[j] = v /\ sequence[j] \in (watermark[v] + 1)..w
    BY DEF Batch
  <2>2. sequence[j] > 0 /\ sequence[j] > watermark[v]
    BY <1>1, <2>1, <1>4
  <2>3. Accepted(j)
    BY <2>1, <2>2 DEF OrderInv, Unborn
  <2>4. receipt[j] = NULL
    BY <1>1, <2>1, <2>2 DEF OrderInv, WatermarkOrder
  <2> QED BY <2>3, <2>4
<1> QED BY <1>3, <1>4, <1>5, <1>6

(* adjudicate moves the watermark over exactly the receipts it finalizes. *)
LEMMA AdjudicateOrder ==
  ASSUME TypeInv, OrderInv, NEW i \in Intents, Adjudicate(i)
  PROVE  OrderInv'
<1> DEFINE v == VersionOf[i]
<1>1. v \in Versions /\ watermark[v] \in Nat /\ nextSequence[v] \in Nat
  BY VersionOfType DEF TypeInv, TypeOK
<1>2. PICK w \in Nat, A \in SUBSET Intents :
        /\ watermark[v] <= w /\ w <= nextSequence[v]
        /\ AdjudicateBatch(v, w, Batch(v, w), A)
        /\ \A j \in Batch(v, w) : Accepted(j) /\ receipt[j] = NULL
  BY AdjudicateFacts
<1>3. /\ watermark' = [watermark EXCEPT ![v] = w]
      /\ nextSequence' = nextSequence /\ sequence' = sequence /\ job' = job
      /\ \A n \in Intents : status'[n] = IF n \in Batch(v, w) THEN "finalized" ELSE status[n]
  BY <1>2 DEF AdjudicateBatch, Adjudicate
<1>4. \A n \in Intents : IF n \in Batch(v, w) THEN receipt'[n] \in Receipt
                                              ELSE receipt'[n] = receipt[n]
  <2>1. Batch(v, w) \in SUBSET Intents
    BY Zenon DEF Batch
  <2>2. receipt' \in [Intents -> Receipt \cup {NULL}]
    <3> HIDE DEF v
    <3> QED BY <1>1, <1>2, <2>1, AdjudicateBatchType
  <2>3. ASSUME NEW n \in Batch(v, w) PROVE receipt'[n] \in Receipt
    <3>1. receipt'[n] = [outcome |-> outcome[n], score |-> score[n],
                         record |-> n \in {k \in Batch(v, w) : Record(v, Batch(v, w), k)},
                         advance |-> n \in A,
                         milestones |-> Claims(Batch(v, w), n)]
      BY <1>2, <2>1 DEF AdjudicateBatch
    <3>2. Claims(Batch(v, w), n) \in SUBSET Milestones
      BY <2>1, LadderAssumption, VersionOfType DEF Claims, Crossed
    <3>3. outcome[n] \in Outcome /\ score[n] \in Int \cup {NULL}
      BY <2>1 DEF TypeInv, TypeOK
    <3>4. /\ (n \in {k \in Batch(v, w) : Record(v, Batch(v, w), k)}) \in BOOLEAN
          /\ (n \in A) \in BOOLEAN
      OBVIOUS
    <3> QED BY <3>1, <3>2, <3>3, <3>4 DEF Receipt
  <2> QED BY <1>2, <2>3 DEF AdjudicateBatch
<1>5. WatermarkOrder'
  <2>1. ASSUME NEW n \in Intents
        PROVE  receipt'[n] # NULL <=> sequence'[n] \in 1..watermark'[VersionOf[n]]
    <3>1. CASE n \in Batch(v, w)
      <4>1. receipt'[n] # NULL
        BY <1>4, <3>1, NullAssumption
      <4>2. VersionOf[n] = v /\ sequence[n] \in (watermark[v] + 1)..w
        BY <3>1 DEF Batch
      <4> QED BY <1>1, <1>2, <1>3, <4>1, <4>2 DEF TypeInv, TypeOK
    <3>2. CASE n \notin Batch(v, w)
      <4>1. receipt'[n] = receipt[n] /\ sequence'[n] = sequence[n] /\ sequence[n] \in Nat
        BY <1>3, <1>4, <3>2 DEF TypeInv, TypeOK
      <4>2. receipt[n] # NULL <=> sequence[n] \in 1..watermark[VersionOf[n]]
        BY DEF OrderInv, WatermarkOrder
      <4>3. CASE VersionOf[n] = v
        <5>1. sequence[n] \notin (watermark[v] + 1)..w
          BY <3>2, <4>3 DEF Batch
        <5>2. watermark'[v] = w
          BY <1>1, <1>3 DEF TypeInv, TypeOK
        <5> QED BY <1>1, <1>2, <4>1, <4>2, <4>3, <5>1, <5>2
      <4>4. CASE VersionOf[n] # v
        BY <1>3, <4>1, <4>2, <4>4, VersionOfType DEF TypeInv, TypeOK
      <4> QED BY <4>3, <4>4
    <3> QED BY <3>1, <3>2
  <2>2. ASSUME NEW u \in Versions
        PROVE  watermark'[u] <= nextSequence'[u]
    BY <1>1, <1>2, <1>3 DEF OrderInv, WatermarkOrder, TypeInv, TypeOK
  <2> QED BY <2>1, <2>2 DEF WatermarkOrder
<1>6. Unborn'
  <2>1. \A n \in Intents :
          task'["validate_submission"][n] = task["validate_submission"][n]
    BY DEF Adjudicate, WorkOne, TypeInv, TypeOK, TaskKinds
  <2> QED BY <2>1, <1>3 DEF OrderInv, Unborn, Accepted
<1>7. \A n \in Intents : status'[n] = "finalized" => receipt'[n] # NULL
  BY <1>3, <1>4, NullAssumption DEF OrderInv
<1>8. \A n \in Intents : sequence'[n] <= nextSequence'[VersionOf[n]]
  BY <1>3 DEF OrderInv
<1> QED BY <1>5, <1>6, <1>7, <1>8 DEF OrderInv

(* A quiet step cannot disturb the receipt order. *)
LEMMA QuietOrder ==
  ASSUME OrderInv, Quiet
  PROVE  OrderInv'
BY DEF OrderInv, Quiet, WatermarkOrder

-----------------------------------------------------------------------------
(* Invariants carried by the receipt order *)

(* A reservation is held by exactly the submissions without a receipt. *)
CapacityInv ==
  /\ \A i \in Intents : reservation[i] = "held" <=> Accepted(i) /\ receipt[i] = NULL
  /\ CapacityConserved

(* What holds a milestone is public and adjudicated, so that no later batch   *)
(* can take its publication back.                                             *)
ClaimInv ==
  \A m \in Milestones : claim[m] # NULL => receipt[claim[m]] # NULL /\ public[claim[m]]

(* Intake is open on published versions only. *)
IntakeInv == \A v \in Versions : vstatus[v] # "published" => intake[v] # "open"

LadderInv == /\ TypeInv /\ OrderInv /\ CapacityInv /\ ActiveLimitHolds
             /\ ClaimInv /\ IntakeInv

(* Nothing is reserved, counted or claimed at first. *)
LEMMA InitCapacity == Init => CapacityInv /\ ActiveLimitHolds /\ ClaimInv /\ IntakeInv
<1> SUFFICES ASSUME Init PROVE CapacityInv /\ ActiveLimitHolds /\ ClaimInv /\ IntakeInv
  OBVIOUS
<1>1. \A i \in Intents : ~Accepted(i) /\ reservation[i] = "none"
  BY DEF Init, Accepted
<1>2. CapacityInv
  <2>1. {i \in Intents : Accepted(i) /\ receipt[i] = NULL} = {}
    BY <1>1
  <2>2. Cardinality({i \in Intents : Accepted(i) /\ receipt[i] = NULL}) = 0
    BY <2>1, FS_EmptySet
  <2>3. 0 <= MaximumUnits
    BY LadderAssumption
  <2>4. CapacityConserved
    BY <2>2, <2>3 DEF CapacityConserved, Init
  <2> QED BY <1>1, <2>4 DEF CapacityInv
<1>3. ActiveLimitHolds
  <2>1. ASSUME NEW i \in Intents
        PROVE  {j \in Intents : /\ OwnerOf[j] = OwnerOf[i]
                                /\ Accepted(j) /\ receipt[j] = NULL} = {}
    BY <1>1
  <2>2. 0 <= ActiveLimit
    BY LadderAssumption
  <2> QED BY <2>1, <2>2, FS_EmptySet DEF ActiveLimitHolds
<1> QED BY <1>2, <1>3 DEF Init, ClaimInv, IntakeInv

(* Acceptance reserves two units for the one receipt it adds. *)
LEMMA AcceptCapacity ==
  ASSUME TypeInv, OrderInv, CapacityInv, NEW i \in Intents, AcceptIntent(i)
  PROVE  CapacityInv'
<1> DEFINE P == {n \in Intents : Accepted(n) /\ receipt[n] = NULL}
           Q == {n \in Intents : Accepted(n)' /\ receipt'[n] = NULL}
<1>1. receipt[i] = NULL /\ ~Accepted(i)
  BY VersionOfType DEF AcceptIntent, OrderInv, Unborn, WatermarkOrder, TypeInv, TypeOK
<1>2. \A n \in Intents : Accepted(n)' <=> Accepted(n) \/ n = i
  BY DEF AcceptIntent, Accepted, TypeInv, TypeOK
<1>3. receipt' = receipt
  BY DEF AcceptIntent
<1>4. Q = P \cup {i} /\ i \notin P
  BY <1>1, <1>2, <1>3
<1>5. IsFiniteSet(P)
  BY LadderAssumption, FS_Subset
<1>6. Cardinality(Q) = Cardinality(P) + 1 /\ Cardinality(P) \in Nat
  <2> HIDE DEF P, Q
  <2> QED BY <1>4, <1>5, FS_AddElement, FS_CardinalityType
<1>7. reserved = 2 * Cardinality(P) /\ reserved' = reserved + 2 /\ reserved' <= MaximumUnits
  BY DEF CapacityInv, CapacityConserved, AcceptIntent
<1>8. reserved' = 2 * Cardinality(Q)
  <2> HIDE DEF P, Q
  <2> QED BY <1>6, <1>7
<1>9. \A n \in Intents : reservation'[n] = "held" <=> Accepted(n)' /\ receipt'[n] = NULL
  BY <1>1, <1>2, <1>3 DEF AcceptIntent, CapacityInv, TypeInv, TypeOK
<1> QED BY <1>7, <1>8, <1>9 DEF CapacityInv, CapacityConserved

(* One adjudication releases the reservations of its batch and no others. *)
LEMMA AdjudicateCapacity ==
  ASSUME TypeInv, OrderInv, CapacityInv, NEW i \in Intents, Adjudicate(i)
  PROVE  CapacityInv'
<1> DEFINE v == VersionOf[i]
           P == {n \in Intents : Accepted(n) /\ receipt[n] = NULL}
           Q == {n \in Intents : Accepted(n)' /\ receipt'[n] = NULL}
<1>1. PICK w \in Nat, A \in SUBSET Intents :
        /\ watermark[v] <= w /\ w <= nextSequence[v]
        /\ AdjudicateBatch(v, w, Batch(v, w), A)
        /\ \A j \in Batch(v, w) : Accepted(j) /\ receipt[j] = NULL
  BY AdjudicateFacts
<1> DEFINE B == Batch(v, w)
<1>2. B \subseteq P
  BY <1>1 DEF Batch
<1>3. \A n \in Intents : receipt'[n] = NULL <=> receipt[n] = NULL /\ n \notin B
  <2>1. OrderInv'
    BY AdjudicateOrder
  <2>2. \A n \in B : status'[n] = "finalized"
    BY <1>1, <1>2 DEF AdjudicateBatch
  <2>3. \A n \in B : receipt'[n] # NULL
    BY <1>2, <2>1, <2>2 DEF OrderInv
  <2>4. \A n \in Intents : n \notin B => receipt'[n] = receipt[n]
    BY <1>1 DEF AdjudicateBatch
  <2> QED BY <2>3, <2>4
<1>4. \A n \in Intents : Accepted(n)' <=> Accepted(n)
  BY <1>1 DEF AdjudicateBatch, Accepted
<1>5. Q = P \ B
  BY <1>3, <1>4
<1>6. {n \in B : reservation[n] = "held"} = B
  BY <1>2 DEF CapacityInv
<1>7. IsFiniteSet(P) /\ IsFiniteSet(B) /\ IsFiniteSet(Q)
  BY <1>2, <1>5, LadderAssumption, FS_Subset
<1>8. Cardinality(P) = Cardinality(Q) + Cardinality(B)
  <2> HIDE DEF P, Q, B
  <2>1. P = Q \cup B /\ Q \cap B = {}
    BY <1>2, <1>5
  <2>2. Cardinality(Q \cup B)
          = Cardinality(Q) + Cardinality(B) - Cardinality(Q \cap B)
    BY <1>7, FS_Union
  <2>3. Cardinality(Q \cap B) = 0
    BY <2>1, FS_EmptySet
  <2>4. Cardinality(Q) \in Nat /\ Cardinality(B) \in Nat
    BY <1>7, FS_CardinalityType
  <2> QED BY <2>1, <2>2, <2>3, <2>4
<1>9. /\ reserved = 2 * Cardinality(P) /\ reserved <= MaximumUnits
      /\ reserved' = reserved - 2 * Cardinality(B)
  BY <1>1, <1>6 DEF CapacityInv, CapacityConserved, AdjudicateBatch, ReleaseCapacity
<1>10. reserved' = 2 * Cardinality(Q) /\ reserved' <= MaximumUnits
  <2> HIDE DEF P, Q, B
  <2>1. Cardinality(P) \in Nat /\ Cardinality(Q) \in Nat /\ Cardinality(B) \in Nat
    BY <1>7, FS_CardinalityType
  <2>2. MaximumUnits \in Nat
    BY LadderAssumption
  <2> QED BY <1>8, <1>9, <2>1, <2>2
<1>11. \A n \in Intents : reservation'[n] = "held" <=> Accepted(n)' /\ receipt'[n] = NULL
  <2>1. \A n \in Intents : reservation'[n] = IF n \in B /\ reservation[n] = "held"
                                            THEN "released" ELSE reservation[n]
    BY <1>1 DEF AdjudicateBatch, ReleaseCapacity
  <2> HIDE DEF B
  <2> QED BY <2>1, <1>3, <1>4, <1>6 DEF CapacityInv
<1> QED BY <1>10, <1>11 DEF CapacityInv, CapacityConserved

(* A quiet step leaves capacity, the account limit and the claims alone. *)
LEMMA QuietCapacity ==
  ASSUME CapacityInv, ActiveLimitHolds, ClaimInv, TypeInv, Quiet
  PROVE  CapacityInv' /\ ActiveLimitHolds' /\ ClaimInv'
<1>1. /\ receipt' = receipt /\ reservation' = reservation /\ reserved' = reserved
      /\ claim' = claim
      /\ \A n \in Intents : Accepted(n)' <=> Accepted(n)
  BY DEF Quiet, Accepted
<1>2. {n \in Intents : Accepted(n)' /\ receipt'[n] = NULL}
        = {n \in Intents : Accepted(n) /\ receipt[n] = NULL}
  BY <1>1
<1>3. CapacityInv'
  BY <1>1, <1>2 DEF CapacityInv, CapacityConserved
<1>4. ActiveLimitHolds'
  <2>1. ASSUME NEW i \in Intents
        PROVE  {j \in Intents : OwnerOf[j] = OwnerOf[i] /\ Accepted(j)' /\ receipt'[j] = NULL}
             = {j \in Intents : OwnerOf[j] = OwnerOf[i] /\ Accepted(j) /\ receipt[j] = NULL}
    BY <1>1
  <2> QED BY <2>1 DEF ActiveLimitHolds
<1>5. ClaimInv'
  BY <1>1 DEF ClaimInv, Quiet, TypeInv, TypeOK
<1> QED BY <1>3, <1>4, <1>5

(* Acceptance adds one receipt to an account that was below its limit. *)
LEMMA AcceptLimit ==
  ASSUME TypeInv, OrderInv, ActiveLimitHolds, ClaimInv, NEW i \in Intents, AcceptIntent(i)
  PROVE  ActiveLimitHolds' /\ ClaimInv'
<1> DEFINE P(n) == {j \in Intents : /\ OwnerOf[j] = OwnerOf[n]
                                    /\ Accepted(j) /\ receipt[j] = NULL}
           Q(n) == {j \in Intents : /\ OwnerOf[j] = OwnerOf[n]
                                    /\ Accepted(j)' /\ receipt'[j] = NULL}
<1>1. receipt' = receipt /\ \A n \in Intents : Accepted(n)' <=> Accepted(n) \/ n = i
  BY DEF AcceptIntent, Accepted, TypeInv, TypeOK
<1>2. ASSUME NEW n \in Intents
      PROVE  Cardinality(Q(n)) <= ActiveLimit
  <2>1. CASE OwnerOf[n] = OwnerOf[i]
    <3>1. P(n) \subseteq Active(OwnerOf[i])
      BY <2>1 DEF OrderInv, Active, Accepted
    <3>2. IsFiniteSet(Active(OwnerOf[i])) /\ IsFiniteSet(P(n))
      BY LadderAssumption, FS_Subset DEF Active
    <3>3. Cardinality(P(n)) <= Cardinality(Active(OwnerOf[i]))
      <4> HIDE DEF P
      <4> QED BY <3>1, <3>2, FS_Subset
    <3>4. Q(n) \subseteq P(n) \cup {i}
      BY <1>1
    <3>5. /\ IsFiniteSet(P(n) \cup {i})
          /\ Cardinality(P(n) \cup {i}) <= Cardinality(P(n)) + 1
      <4> HIDE DEF P
      <4>1. Cardinality(P(n)) \in Nat
        BY <3>2, FS_CardinalityType
      <4>2. Cardinality(P(n) \cup {i}) = IF i \in P(n) THEN Cardinality(P(n))
                                                       ELSE Cardinality(P(n)) + 1
        BY <3>2, FS_AddElement
      <4>3. IsFiniteSet(P(n) \cup {i})
        BY <3>2, FS_AddElement
      <4> QED BY <4>1, <4>2, <4>3
    <3>6. Cardinality(Q(n)) <= Cardinality(P(n) \cup {i})
      <4> HIDE DEF P, Q
      <4> QED BY <3>4, <3>5, FS_Subset
    <3>7. Cardinality(Active(OwnerOf[i])) < ActiveLimit
      BY DEF AcceptIntent
    <3>8. /\ Cardinality(Q(n)) \in Nat /\ Cardinality(P(n) \cup {i}) \in Nat
          /\ Cardinality(P(n)) \in Nat /\ Cardinality(Active(OwnerOf[i])) \in Nat
          /\ ActiveLimit \in Nat
      <4>1. IsFiniteSet(Q(n))
        BY LadderAssumption, FS_Subset
      <4>2. ActiveLimit \in Nat
        BY LadderAssumption
      <4> HIDE DEF P, Q
      <4> QED BY <3>2, <3>5, <4>1, <4>2, FS_CardinalityType
    <3> HIDE DEF P, Q
    <3> QED BY <3>3, <3>5, <3>6, <3>7, <3>8
  <2>2. CASE OwnerOf[n] # OwnerOf[i]
    <3>1. Q(n) = P(n)
      BY <1>1, <2>2
    <3> QED BY <3>1 DEF ActiveLimitHolds
  <2> QED BY <2>1, <2>2
<1>3. ActiveLimitHolds'
  BY <1>2 DEF ActiveLimitHolds
<1>4. ClaimInv'
  BY DEF AcceptIntent, ClaimInv
<1> QED BY <1>3, <1>4

(* Adjudication only shortens the waiting sets and publishes what claims. *)
LEMMA AdjudicateLimit ==
  ASSUME TypeInv, OrderInv, ActiveLimitHolds, ClaimInv, NEW i \in Intents, Adjudicate(i)
  PROVE  ActiveLimitHolds' /\ ClaimInv'
<1> DEFINE v == VersionOf[i]
<1>1. PICK w \in Nat, A \in SUBSET Intents :
        /\ watermark[v] <= w /\ w <= nextSequence[v]
        /\ AdjudicateBatch(v, w, Batch(v, w), A)
        /\ \A j \in Batch(v, w) : Accepted(j) /\ receipt[j] = NULL
  BY AdjudicateFacts
<1> DEFINE B == Batch(v, w)
<1>2. B \subseteq Intents
  BY Zenon DEF Batch
<1>3. OrderInv'
  BY AdjudicateOrder
<1>4. \A n \in B : receipt'[n] # NULL
  <2>1. \A n \in B : status'[n] = "finalized"
    BY <1>1, <1>2 DEF AdjudicateBatch
  <2> QED BY <1>2, <1>3, <2>1 DEF OrderInv
<1>5. \A n \in Intents : n \notin B => /\ receipt'[n] = receipt[n]
                                       /\ public'[n] = public[n]
                                       /\ status'[n] = status[n]
  BY <1>1 DEF AdjudicateBatch
<1>6. ActiveLimitHolds'
  <2>1. ASSUME NEW n \in Intents
        PROVE  Cardinality({j \in Intents : OwnerOf[j] = OwnerOf[n]
                              /\ Accepted(j)' /\ receipt'[j] = NULL}) <= ActiveLimit
    <3> DEFINE P == {j \in Intents : OwnerOf[j] = OwnerOf[n] /\ Accepted(j) /\ receipt[j] = NULL}
               Q == {j \in Intents : OwnerOf[j] = OwnerOf[n] /\ Accepted(j)' /\ receipt'[j] = NULL}
    <3>1. Q \subseteq P
      <4> HIDE DEF B
      <4> QED BY <1>4, <1>5 DEF Accepted
    <3>2. IsFiniteSet(P) /\ IsFiniteSet(Q)
      BY LadderAssumption, FS_Subset
    <3>3. Cardinality(P) <= ActiveLimit
      BY DEF ActiveLimitHolds
    <3> HIDE DEF P, Q
    <3>4. Cardinality(Q) <= Cardinality(P)
      BY <3>1, <3>2, FS_Subset
    <3>5. Cardinality(P) \in Nat /\ Cardinality(Q) \in Nat /\ ActiveLimit \in Nat
      BY <3>2, FS_CardinalityType, LadderAssumption
    <3>6. Cardinality(Q) <= ActiveLimit
      BY <3>3, <3>4, <3>5
    <3> QED BY <3>6 DEF Q
  <2> QED BY <2>1 DEF ActiveLimitHolds
<1>7. ClaimInv'
  <2> SUFFICES ASSUME NEW m \in Milestones, claim'[m] # NULL
               PROVE  receipt'[claim'[m]] # NULL /\ public'[claim'[m]]
    BY DEF ClaimInv
  <2>1. CASE \E n \in B : m \in Claims(B, n)
    <3>1. claim'[m] = CHOOSE n \in B : m \in Claims(B, n)
      BY <1>1, <2>1 DEF AdjudicateBatch
    <3>2. claim'[m] \in B /\ m \in Claims(B, claim'[m])
      <4> HIDE DEF B
      <4> QED BY <2>1, <3>1
    <3>3. public'[claim'[m]] = Publishes(B, claim'[m])
      BY <1>1, <1>2, <3>2 DEF AdjudicateBatch
    <3>4. Publishes(B, claim'[m])
      <4> HIDE DEF B
      <4> QED BY <3>2 DEF Publishes
    <3> QED BY <1>4, <3>2, <3>3, <3>4
  <2>2. CASE ~\E n \in B : m \in Claims(B, n)
    <3>1. claim'[m] = claim[m]
      BY <1>1, <2>2 DEF AdjudicateBatch
    <3>2. receipt[claim[m]] # NULL /\ public[claim[m]]
      BY <3>1 DEF ClaimInv
    <3>3. claim[m] \in Intents /\ claim[m] \notin B
      BY <1>1, <3>1, <3>2 DEF TypeInv, TypeOK
    <3> HIDE DEF B
    <3> QED BY <1>5, <3>1, <3>2, <3>3
  <2> QED BY <2>1, <2>2
<1> QED BY <1>6, <1>7

(* Only resume opens intake, and only on a published version. *)
LEMMA NextIntake ==
  ASSUME TypeInv, IntakeInv, [Next]_vars
  PROVE  IntakeInv'
<1>1. ASSUME NEW i \in Intents, AcceptIntent(i) \/ QueueSubmission(i)
             \/ Adjudicate(i) \/ PublishSubmission(i)
      PROVE  UNCHANGED <<vstatus, intake>>
  BY <1>1 DEF AcceptIntent, QueueSubmission, Adjudicate, PublishSubmission, versionVars
<1>2. ASSUME NEW i \in Intents, NEW p \in Purposes,
             (\E h \in Hosts : ClaimRunnerJob(i, p, h)) \/ RecoverRunnerLease(i, p)
      PROVE  UNCHANGED <<vstatus, intake>>
  BY <1>2 DEF ClaimRunnerJob, RecoverRunnerLease, versionVars
<1>3. ASSUME NEW i \in Intents, RunnerResult(i)
      PROVE  /\ vstatus' = vstatus
             /\ intake' \in {intake, [intake EXCEPT ![VersionOf[i]] = "paused"]}
  BY <1>3 DEF RunnerResult, InfrastructureFault, ChallengeFault, PrimaryValid,
     PrimaryFailed, ConfirmationResult, Validated, versionVars
<1>4. ASSUME NEW v \in Versions, EditorDecision(v) \/ DeadlinePasses(v)
      PROVE  IntakeInv'
  BY <1>4 DEF EditorDecision, Pause, Resume, Reject, Withdraw, Compromise, Retire,
     ResolveUnscorable, DeadlinePasses, IntakeInv, TypeInv, TypeOK
<1>5. CASE UNCHANGED vars
  BY <1>5 DEF vars, versionVars, IntakeInv
<1>6. CASE UNCHANGED <<vstatus, intake>>
  BY <1>6 DEF IntakeInv
<1>7. ASSUME NEW i \in Intents, RunnerResult(i)
      PROVE  IntakeInv'
  BY <1>3, <1>7, VersionOfType DEF IntakeInv, TypeInv, TypeOK
<1> QED BY <1>1, <1>2, <1>4, <1>5, <1>6, <1>7 DEF Next

(* Every step is an acceptance, an adjudication or quiet. *)
LEMMA NextCases ==
  ASSUME TypeInv, OrderInv, [Next]_vars
  PROVE  \/ \E i \in Intents : AcceptIntent(i) \/ Adjudicate(i)
         \/ Quiet
<1>1. ASSUME NEW i \in Intents, QueueSubmission(i) \/ RunnerResult(i) \/ PublishSubmission(i)
      PROVE  Quiet
  BY <1>1, QueueQuiet, ResultQuiet, PublishQuiet DEF OrderInv
<1>2. ASSUME NEW i \in Intents, NEW p \in Purposes,
             (\E h \in Hosts : ClaimRunnerJob(i, p, h)) \/ RecoverRunnerLease(i, p)
      PROVE  Quiet
  BY <1>2, ClaimQuiet DEF OrderInv
<1>3. ASSUME NEW v \in Versions, EditorDecision(v) \/ DeadlinePasses(v)
      PROVE  Quiet
  BY <1>3, EditorQuiet DEF OrderInv
<1>4. CASE UNCHANGED vars
  BY <1>4 DEF OrderInv, Quiet, Unborn, Accepted, vars, versionVars, submissionVars, capacityVars
<1> QED BY <1>1, <1>2, <1>3, <1>4 DEF Next

(* LadderInv is inductive. *)
LEMMA NextLadderInv == LadderInv /\ [Next]_vars => LadderInv'
<1> SUFFICES ASSUME LadderInv, [Next]_vars PROVE LadderInv'
  OBVIOUS
<1> USE DEF LadderInv
<1>1. TypeInv'
  BY NextTypeInv
<1>2. IntakeInv'
  BY NextIntake
<1>3. OrderInv' /\ CapacityInv' /\ ActiveLimitHolds' /\ ClaimInv'
  <2>1. CASE \E i \in Intents : AcceptIntent(i)
    BY <2>1, AcceptOrder, AcceptCapacity, AcceptLimit
  <2>2. CASE \E i \in Intents : Adjudicate(i)
    BY <2>2, AdjudicateOrder, AdjudicateCapacity, AdjudicateLimit
  <2>3. CASE Quiet
    BY <2>3, QuietOrder, QuietCapacity
  <2> QED BY <2>1, <2>2, <2>3, NextCases
<1> QED BY <1>1, <1>2, <1>3

(* LadderInv holds in every reachable state. *)
LEMMA LadderInvariant == Spec => []LadderInv
<1>1. Init => LadderInv
  BY InitTypeInv, InitOrderInv, InitCapacity DEF LadderInv
<1> QED BY <1>1, NextLadderInv, PTL DEF Spec

-----------------------------------------------------------------------------
(* The results *)

(* Receipts are adjudicated in acceptance order, for any number of versions,  *)
(* submissions and hosts and any interleaving of results, retries, worker     *)
(* restarts and editorial decisions: adjudicate never skips a sequence.       *)
THEOREM AdjudicationInOrder == Spec => []WatermarkOrder
<1>1. LadderInv => WatermarkOrder
  BY DEF LadderInv, OrderInv
<1> QED BY <1>1, LadderInvariant, PTL

(* Two capacity units stay reserved for exactly the accepted submissions that *)
(* wait for adjudication, and the pool is never overdrawn (acceptIntent and   *)
(* the release in adjudicate).                                                *)
THEOREM CapacityIsConserved == Spec => []CapacityConserved
<1>1. LadderInv => CapacityConserved
  BY DEF LadderInv, CapacityInv
<1> QED BY <1>1, LadderInvariant, PTL

(* No account ever holds more than ActiveLimit accepted submissions that wait *)
(* for adjudication (the count in acceptIntent).                              *)
THEOREM AccountLimit == Spec => []ActiveLimitHolds
<1>1. LadderInv => ActiveLimitHolds
  BY DEF LadderInv
<1> QED BY <1>1, LadderInvariant, PTL

(* What claims a milestone is public from that moment on: no later batch or   *)
(* retry takes the publication back (publish in adjudicate).                  *)
THEOREM ClaimantsArePublic == Spec => []ClaimsArePublic
<1>1. LadderInv => ClaimsArePublic
  BY DEF LadderInv, ClaimInv, ClaimsArePublic
<1> QED BY <1>1, LadderInvariant, PTL

(* A withdrawn or compromised version never accepts another submission,       *)
(* although late results may move its intake from closed to paused.           *)
THEOREM RetiredAcceptsNothing == Spec => RetiredRefuses
<1>1. ASSUME LadderInv, [Next]_vars
      PROVE  [\A v \in Versions :
                vstatus[v] # "published" => nextSequence'[v] = nextSequence[v]]_vars
  <2>1. CASE \E i \in Intents : AcceptIntent(i)
    <3> SUFFICES ASSUME NEW i \in Intents, AcceptIntent(i), NEW v \in Versions,
                        vstatus[v] # "published"
                 PROVE  nextSequence'[v] = nextSequence[v]
      BY <2>1
    <3>1. VersionOf[i] # v
      BY <1>1 DEF AcceptIntent, LadderInv, IntakeInv
    <3>2. nextSequence \in [Versions -> Nat]
      BY <1>1 DEF LadderInv, TypeInv, TypeOK
    <3> QED BY <3>1, <3>2 DEF AcceptIntent
  <2>2. CASE \E i \in Intents : Adjudicate(i)
    BY <2>2 DEF Adjudicate
  <2>3. CASE Quiet
    BY <2>3 DEF Quiet
  <2> QED BY <1>1, <2>1, <2>2, <2>3, NextCases DEF LadderInv
<1> QED BY <1>1, LadderInvariant, PTL DEF Spec, RetiredRefuses
-----------------------------------------------------------------------------
(* Lemmas about sets of submissions *)

(* The first one in an order exists as the last one does. *)
LEMMA EarliestExists ==
  ASSUME NEW S, IsFiniteSet(S), S # {}, NEW q \in [S -> Int]
  PROVE  \E i \in S : \A j \in S : q[i] <= q[j]
<1> DEFINE f == [i \in S |-> -q[i]]
<1>1. f \in [S -> Int]
  OBVIOUS
<1>2. PICK i \in S : \A j \in S : f[j] <= f[i]
  <2> HIDE DEF f
  <2> QED BY <1>1, LatestExists
<1>3. \A j \in S : q[i] <= q[j]
  BY <1>2
<1> QED BY <1>3

(* Results V of merit f, each with a place q of its own *)
Ranked(V, f, q) ==
  /\ IsFiniteSet(V) /\ f \in [V -> Int] /\ q \in [V -> Int]
  /\ \A i, j \in V : q[i] = q[j] => i = j

(* Read in that order from a best of T, the records are those ahead of T and  *)
(* of everything before them.                                                 *)
Records(V, f, q, T) ==
  {i \in V : f[i] > T /\ \A j \in V : q[j] < q[i] => f[i] > f[j]}

(* Without a record nothing is ahead of T; otherwise the last record is the   *)
(* earliest of the best.                                                      *)
LEMMA BestOfBatch ==
  ASSUME NEW V, NEW f, NEW q, Ranked(V, f, q), NEW T \in Int
  PROVE  /\ Records(V, f, q, T) = {} => \A i \in V : f[i] <= T
         /\ \A l \in Records(V, f, q, T) :
              (\A j \in Records(V, f, q, T) : q[j] <= q[l]) =>
                \A j \in V \ {l} : f[l] > f[j] \/ (f[l] = f[j] /\ q[l] < q[j])
<1> DEFINE R == Records(V, f, q, T)
<1> USE DEF Ranked, Records
<1>1. ASSUME NEW t \in Int, t >= T, NEW i \in V, f[i] > t
      PROVE  \E e \in R : f[e] > t
  <2> DEFINE U == {k \in V : f[k] > t}
             p == [k \in U |-> q[k]]
  <2>1. IsFiniteSet(U) /\ U # {} /\ p \in [U -> Int]
    BY <1>1, FS_Subset
  <2>2. PICK e \in U : \A j \in U : p[e] <= p[j]
    <3> HIDE DEF U, p
    <3> QED BY <2>1, EarliestExists
  <2>3. \A j \in V : q[j] < q[e] => f[e] > f[j]
    BY <2>2
  <2> QED BY <1>1, <2>3
<1>2. R = {} => \A i \in V : f[i] <= T
  <2> SUFFICES ASSUME NEW i \in V, f[i] > T PROVE R # {}
    OBVIOUS
  <2> QED BY <1>1
<1>3. ASSUME NEW l \in R, \A j \in R : q[j] <= q[l], NEW j \in V \ {l}
      PROVE  f[l] > f[j] \/ (f[l] = f[j] /\ q[l] < q[j])
  <2>1. ~(f[j] > f[l])
    <3> SUFFICES ASSUME f[j] > f[l] PROVE FALSE
      OBVIOUS
    <3>1. PICK e \in R : f[e] > f[l]
      BY <1>1
    <3>2. q[e] <= q[l] /\ e # l
      BY <1>3, <3>1
    <3>3. q[e] < q[l]
      BY <3>2
    <3> QED BY <3>1, <3>3
  <2>2. f[l] = f[j] => q[l] < q[j]
    BY <1>3
  <2> QED BY <2>1, <2>2
<1> QED BY <1>2, <1>3

(* A is the set of those in P that gain at least D over the frontier as the   *)
(* last of A before them left it, when it started at T.                       *)
Gains(P, f, q, T, D, A) ==
  \A i \in P : \E t \in Int :
    /\ \/ t = T /\ \A a \in A : ~(q[a] < q[i])
       \/ \E p \in A : /\ q[p] < q[i] /\ t = f[p]
                      /\ \A a \in A : q[a] < q[i] => q[a] <= q[p]
    /\ i \in A <=> f[i] >= t + D

(* The frontier then ends at the last of A, at least D above T, and nothing   *)
(* in P gains D over where it ends.                                           *)
LEMMA AdvanceChain ==
  ASSUME NEW P, NEW f, NEW q, Ranked(P, f, q), NEW T \in Int, NEW D \in Nat \ {0},
         NEW A \in SUBSET P, Gains(P, f, q, T, D, A)
  PROVE  /\ A = {} => \A i \in P : f[i] < T + D
         /\ \A l \in A : (\A a \in A : q[a] <= q[l]) =>
              f[l] >= T + D /\ \A i \in P : f[i] < f[l] + D
<1> USE DEF Ranked, Gains
<1> DEFINE Good(a) == f[a] >= T + D /\ \A c \in A : q[c] < q[a] => f[c] < f[a]
           Bad == {a \in A : ~Good(a)}
<1>1. ASSUME Bad # {} PROVE FALSE
  <2> DEFINE p == [k \in Bad |-> q[k]]
  <2>1. IsFiniteSet(Bad) /\ p \in [Bad -> Int]
    BY FS_Subset
  <2>2. PICK e \in Bad : \A j \in Bad : p[e] <= p[j]
    <3> HIDE DEF Bad, p
    <3> QED BY <1>1, <2>1, EarliestExists
  <2>3. e \in A /\ \A a \in A : q[a] < q[e] => Good(a)
    BY <2>2
  <2> HIDE DEF Bad
  <2>4. PICK t \in Int :
          /\ \/ t = T /\ \A a \in A : ~(q[a] < q[e])
             \/ \E r \in A : /\ q[r] < q[e] /\ t = f[r]
                            /\ \A a \in A : q[a] < q[e] => q[a] <= q[r]
          /\ f[e] >= t + D
    BY <2>3
  <2>5. CASE t = T /\ \A a \in A : ~(q[a] < q[e])
    <3>1. Good(e)
      BY <2>3, <2>4, <2>5
    <3> QED BY <2>2, <3>1 DEF Bad
  <2>6. ASSUME NEW r \in A, q[r] < q[e], t = f[r],
               \A a \in A : q[a] < q[e] => q[a] <= q[r]
        PROVE  FALSE
    <3>1. Good(r)
      BY <2>3, <2>6
    <3>2. f[e] > f[r] /\ f[e] >= T + D
      BY <2>3, <2>4, <2>6, <3>1
    <3>3. \A c \in A : q[c] < q[e] => f[c] < f[e]
      <4> SUFFICES ASSUME NEW c \in A, q[c] < q[e] PROVE f[c] < f[e]
        OBVIOUS
      <4>1. c = r \/ q[c] < q[r]
        BY <2>6
      <4>2. f[c] <= f[r]
        BY <3>1, <4>1
      <4> QED BY <2>3, <3>2, <4>2
    <3> QED BY <2>2, <3>2, <3>3 DEF Bad
  <2> QED BY <2>4, <2>5, <2>6
<1>2. \A a \in A : Good(a)
  BY <1>1
<1>3. A = {} => \A i \in P : f[i] < T + D
  OBVIOUS
<1>4. ASSUME NEW l \in A, \A a \in A : q[a] <= q[l]
      PROVE  f[l] >= T + D /\ \A i \in P : f[i] < f[l] + D
  <2>1. f[l] >= T + D /\ \A a \in A : f[a] <= f[l]
    <3>1. \A a \in A : a = l \/ q[a] < q[l]
      BY <1>4
    <3> QED BY <1>2, <3>1
  <2>2. ASSUME NEW i \in P PROVE f[i] < f[l] + D
    <3>1. CASE i \in A
      BY <2>1, <3>1
    <3>2. CASE i \notin A
      <4>1. PICK t \in Int : /\ t = T \/ \E p \in A : t = f[p]
                             /\ f[i] < t + D
        <5>1. PICK t \in Int :
                /\ \/ t = T /\ \A a \in A : ~(q[a] < q[i])
                   \/ \E p \in A : /\ q[p] < q[i] /\ t = f[p]
                                  /\ \A a \in A : q[a] < q[i] => q[a] <= q[p]
                /\ i \in A <=> f[i] >= t + D
          OBVIOUS
        <5>2. f[i] < t + D
          BY <3>2, <5>1
        <5>3. t = T \/ \E p \in A : t = f[p]
          BY <5>1
        <5> QED BY <5>2, <5>3
      <4>2. t <= f[l]
        BY <2>1, <4>1
      <4> QED BY <2>1, <4>1, <4>2
    <3> QED BY <3>1, <3>2
  <2> QED BY <2>1, <2>2
<1> QED BY <1>3, <1>4
-----------------------------------------------------------------------------
(* Results and the receipts that rest on them *)

ScoredRun(r) == r.status = "complete" /\ r.outcome = "valid" /\ r.score \in Int

(* The score s is confirmed by the two runs of i. *)
Supported(i, s) ==
  LET v == VersionOf[i]
      a == job[i]["submission"]
      b == job[i]["confirmation"] IN
  /\ ScoredRun(a) /\ ScoredRun(b)
  /\ PolicyOf[v] = "independent" => GroupOf[a.host] # GroupOf[b.host]
  /\ s \in {a.score, b.score}
  /\ ~better(s, a.score, MetricOf[v].direction)
  /\ ~better(s, b.score, MetricOf[v].direction)

HasValid(i) == receipt[i] # NULL /\ receipt[i].outcome = "valid"

(* A confirmation runs only after a valid primary, a valid outcome rests on   *)
(* both, a finalized submission still is what its receipt says, and only one  *)
(* that was resolved without a score can be opened again.                     *)
ResultInv(i) ==
  /\ job[i]["confirmation"].status # "none" => ScoredRun(job[i]["submission"])
  /\ outcome[i] = "valid" => /\ status[i] \in {"validated", "finalized"}
                             /\ Supported(i, score[i])
  /\ status[i] = "finalized" => /\ receipt[i].outcome = outcome[i]
                                /\ receipt[i].score = score[i]
  /\ HasValid(i) => status[i] = "finalized"

(* Sequences of a version are given out once. *)
Distinct ==
  \A i, j \in Intents : /\ VersionOf[i] = VersionOf[j]
                        /\ sequence[i] = sequence[j] /\ sequence[i] # 0
                        => i = j

StandingInv == Distinct /\ \A i \in Intents : ResultInv(i)

(* The runs behind a valid receipt are never touched again. *)
Settled == \A i \in Intents : HasValid(i) => job'[i] = job[i]

LEMMA InitStanding == Init => StandingInv
<1> SUFFICES ASSUME Init PROVE StandingInv
  OBVIOUS
<1>1. Distinct
  BY DEF Init, Distinct
<1>2. \A i \in Intents : ResultInv(i)
  BY DEF Init, ResultInv, NoJob, Purposes, HasValid
<1> QED BY <1>1, <1>2 DEF StandingInv

(* What a valid receipt says is what the submission still holds. *)
LEMMA ValidStands ==
  ASSUME TypeInv, NEW i \in Intents, ResultInv(i), HasValid(i)
  PROVE  /\ status[i] = "finalized" /\ outcome[i] = "valid" /\ score[i] \in Int
         /\ receipt[i].score = score[i] /\ Supported(i, score[i])
<1>1. status[i] = "finalized" /\ outcome[i] = "valid" /\ Supported(i, score[i])
      /\ receipt[i].score = score[i]
  BY DEF ResultInv, HasValid
<1> QED BY <1>1 DEF Supported, ScoredRun

LEMMA Unfinished ==
  ASSUME NEW i \in Intents, ResultInv(i), NEW p \in Purposes, job[i][p].status # "complete"
  PROVE  /\ outcome[i] # "valid" /\ ~HasValid(i)
         /\ p = "submission" => job[i]["confirmation"].status = "none"
  BY DEF ResultInv, HasValid, Supported, ScoredRun, Purposes

(* A step that concerns the runs of one submission without a valid outcome *)
LEMMA OneResult ==
  ASSUME \A n \in Intents : ResultInv(n), NEW i \in Intents, ~HasValid(i),
         receipt' = receipt, ResultInv(i)',
         \A n \in Intents : n # i => /\ status'[n] = status[n] /\ outcome'[n] = outcome[n]
                                     /\ score'[n] = score[n] /\ job'[n] = job[n]
  PROVE  (\A n \in Intents : ResultInv(n)') /\ Settled
<1>1. \A n \in Intents : n # i => ResultInv(n)'
  BY DEF ResultInv, HasValid, Supported
<1> QED BY <1>1 DEF Settled

(* ... that leaves it without one *)
LEMMA StillUnscored ==
  ASSUME NEW i \in Intents, ~HasValid(i), receipt' = receipt, outcome'[i] # "valid",
         job'[i]["confirmation"].status # "none" => ScoredRun(job'[i]["submission"]),
         status'[i] = "finalized" => status[i] = "finalized" /\ UNCHANGED <<outcome[i], score[i]>>,
         ResultInv(i)
  PROVE  ResultInv(i)'
  BY DEF ResultInv, HasValid

LEMMA AcceptStanding ==
  ASSUME TypeInv, OrderInv, StandingInv, NEW i \in Intents, AcceptIntent(i)
  PROVE  StandingInv' /\ Settled
<1>1. status[i] = "none" /\ receipt[i] = NULL
  BY VersionOfType DEF AcceptIntent, Accepted, OrderInv, Unborn, WatermarkOrder, TypeInv, TypeOK
<1>2. UNCHANGED <<outcome, score, receipt, job>> /\ status' = [status EXCEPT ![i] = "accepted"]
      /\ sequence' = [sequence EXCEPT ![i] = nextSequence[VersionOf[i]] + 1]
  BY DEF AcceptIntent
<1>3. ResultInv(i) /\ outcome[i] # "valid" /\ ~HasValid(i)
  BY <1>1 DEF StandingInv, ResultInv, HasValid
<1>4. ResultInv(i)'
  BY <1>2, <1>3 DEF ResultInv, HasValid, TypeInv, TypeOK
<1>5. (\A n \in Intents : ResultInv(n)') /\ Settled
  BY <1>2, <1>3, <1>4, OneResult DEF StandingInv, TypeInv, TypeOK
<1>6. Distinct'
  <2>1. ASSUME NEW n \in Intents, VersionOf[n] = VersionOf[i]
        PROVE  sequence[n] < nextSequence[VersionOf[i]] + 1
    BY <2>1, VersionOfType DEF OrderInv, TypeInv, TypeOK
  <2> QED BY <1>2, <2>1, VersionOfType DEF Distinct, StandingInv, TypeInv, TypeOK
<1> QED BY <1>5, <1>6 DEF StandingInv

(* Queueing, claiming and giving back a run *)
LEMMA QueueStanding ==
  ASSUME TypeInv, StandingInv, NEW i \in Intents, QueueSubmission(i)
  PROVE  StandingInv' /\ Settled
<1>1. UNCHANGED <<outcome, score, receipt, sequence>>
  BY DEF QueueSubmission
<1>2. Distinct'
  BY <1>1 DEF Distinct, StandingInv
<1>3. CASE job[i]["submission"].status # "none"
  <2>1. UNCHANGED <<job, status>>
    BY <1>3 DEF QueueSubmission
  <2> QED BY <1>1, <1>2, <2>1 DEF StandingInv, ResultInv, HasValid, Supported, Settled
<1>4. CASE job[i]["submission"].status = "none"
  <2>1. /\ job' = [job EXCEPT ![i]["submission"] = QueuedJob({}, NULL)]
        /\ status' = [status EXCEPT ![i] = "queued"]
    BY <1>4 DEF QueueSubmission
  <2>2. ResultInv(i) /\ "submission" \in Purposes /\ "confirmation" \in Purposes
    BY DEF StandingInv, Purposes
  <2>3. outcome[i] # "valid" /\ ~HasValid(i) /\ job[i]["confirmation"].status = "none"
    BY <1>4, <2>2, Unfinished
  <2>4. job'[i]["confirmation"] = job[i]["confirmation"] /\ status'[i] = "queued"
    BY <2>1, <2>2 DEF TypeInv, TypeOK
  <2>5. ResultInv(i)'
    BY <1>1, <2>2, <2>3, <2>4, StillUnscored
  <2>6. \A n \in Intents : n # i => status'[n] = status[n] /\ job'[n] = job[n]
    BY <2>1 DEF TypeInv, TypeOK
  <2> QED BY <1>1, <1>2, <2>3, <2>5, <2>6, OneResult DEF StandingInv
<1> QED BY <1>3, <1>4

LEMMA JobStanding ==
  ASSUME TypeInv, StandingInv, NEW i \in Intents, NEW p \in Purposes,
         job[i][p].status # "none", job[i][p].status # "complete",
         \A n \in Intents : n # i => job'[n] = job[n],
         \A r \in Purposes : r # p => job'[i][r] = job[i][r],
         UNCHANGED <<status, outcome, score, receipt, sequence>>
  PROVE  StandingInv' /\ Settled
<1>1. ResultInv(i) /\ "submission" \in Purposes /\ "confirmation" \in Purposes
  BY DEF StandingInv, Purposes
<1>2. /\ outcome[i] # "valid" /\ ~HasValid(i)
      /\ p = "submission" => job[i]["confirmation"].status = "none"
  BY <1>1, Unfinished
<1>3. job'[i]["confirmation"].status # "none" => ScoredRun(job'[i]["submission"])
  <2>1. CASE p = "submission"
    BY <1>1, <1>2, <2>1
  <2>2. CASE p = "confirmation"
    BY <1>1, <2>2 DEF ResultInv
  <2> QED BY <2>1, <2>2 DEF Purposes
<1>4. ResultInv(i)'
  BY <1>1, <1>2, <1>3, StillUnscored
<1>5. Distinct'
  BY DEF Distinct, StandingInv
<1> QED BY <1>2, <1>4, <1>5, OneResult DEF StandingInv

LEMMA LeaseStanding ==
  ASSUME TypeInv, StandingInv, NEW i \in Intents, NEW p \in Purposes,
         \/ \E h \in Hosts : ClaimRunnerJob(i, p, h)
         \/ RecoverRunnerLease(i, p) \/ InfrastructureFault(i, p)
  PROVE  StandingInv' /\ Settled
<1>1. UNCHANGED <<status, outcome, score, receipt, sequence>>
  BY Zenon DEF ClaimRunnerJob, RecoverRunnerLease, InfrastructureFault, submissionVars
<1>2. job[i][p].status \in {"queued", "running"}
  BY Zenon DEF ClaimRunnerJob, MayClaim, RecoverRunnerLease, InfrastructureFault
<1>3. PICK j : job' = [job EXCEPT ![i][p] = j]
  BY Zenon DEF ClaimRunnerJob, RecoverRunnerLease, InfrastructureFault
<1>4. /\ \A n \in Intents : n # i => job'[n] = job[n]
      /\ \A r \in Purposes : r # p => job'[i][r] = job[i][r]
  BY <1>3 DEF TypeInv, TypeOK
<1>5. job[i][p].status # "none" /\ job[i][p].status # "complete"
  BY <1>2
<1> QED BY <1>1, <1>4, <1>5, JobStanding

(* A result: the job it completes and the columns of its submission *)
LEMMA FaultStanding ==
  ASSUME TypeInv, StandingInv, NEW i \in Intents, NEW p \in Purposes, ChallengeFault(i, p)
  PROVE  StandingInv' /\ Settled
<1>1. ResultInv(i) /\ "submission" \in Purposes /\ "confirmation" \in Purposes
  BY DEF StandingInv, Purposes
<1>2. /\ outcome[i] # "valid" /\ ~HasValid(i)
      /\ p = "submission" => job[i]["confirmation"].status = "none"
  BY <1>1, Unfinished DEF ChallengeFault
<1>3. /\ \A n \in Intents : n # i => /\ job'[n] = job[n] /\ status'[n] = status[n]
                                     /\ outcome'[n] = outcome[n] /\ score'[n] = score[n]
      /\ \A r \in Purposes : r # p => job'[i][r] = job[i][r]
      /\ outcome'[i] = "pending" /\ status'[i] = "challenge_fault"
      /\ UNCHANGED <<receipt, sequence>>
  BY DEF ChallengeFault, TypeInv, TypeOK
<1>4. job'[i]["confirmation"].status # "none" => ScoredRun(job'[i]["submission"])
  <2>1. CASE p = "submission"
    BY <1>1, <1>2, <1>3, <2>1
  <2>2. CASE p = "confirmation"
    BY <1>1, <1>3, <2>2 DEF ResultInv, ChallengeFault
  <2> QED BY <2>1, <2>2 DEF Purposes
<1>5. ResultInv(i)'
  BY <1>1, <1>2, <1>3, <1>4, StillUnscored
<1>6. Distinct'
  BY <1>3 DEF Distinct, StandingInv
<1> QED BY <1>2, <1>3, <1>5, <1>6, OneResult DEF StandingInv

LEMMA PrimaryStanding ==
  ASSUME TypeInv, StandingInv, NEW i \in Intents, NEW t \in Ticks, NEW met,
         PrimaryValid(i, t, met)
  PROVE  StandingInv' /\ Settled
<1>1. ResultInv(i) /\ "submission" \in Purposes /\ job[i]["submission"] \in Job
  BY DEF StandingInv, Purposes, TypeInv, TypeOK
<1>2. outcome[i] # "valid" /\ ~HasValid(i)
  BY <1>1, Unfinished DEF PrimaryValid
<1>3. /\ \A n \in Intents : n # i => job'[n] = job[n] /\ status'[n] = status[n]
      /\ job'[i]["submission"] = Completed(i, "submission", "valid", t, met)
      /\ status'[i] = "confirmation_running"
      /\ UNCHANGED <<outcome, score, receipt, sequence>>
  BY <1>1 DEF PrimaryValid, TypeInv, TypeOK
<1>4. ScoredRun(job'[i]["submission"])
  <2>1. t \in Int
    BY LadderAssumption
  <2> QED BY <1>1, <1>3, <2>1 DEF Completed, ScoredRun, Job
<1>5. ResultInv(i)'
  BY <1>1, <1>2, <1>3, <1>4, StillUnscored
<1>6. Distinct'
  BY <1>3 DEF Distinct, StandingInv
<1> QED BY <1>2, <1>3, <1>5, <1>6, OneResult DEF StandingInv

LEMMA FailedStanding ==
  ASSUME TypeInv, StandingInv, NEW i \in Intents, NEW o \in RunFailures, PrimaryFailed(i, o)
  PROVE  StandingInv' /\ Settled
<1>1. /\ ResultInv(i) /\ o # "valid"
      /\ "submission" \in Purposes /\ "confirmation" \in Purposes
  BY DEF StandingInv, Purposes, RunFailures
<1>2. outcome[i] # "valid" /\ ~HasValid(i) /\ job[i]["confirmation"].status = "none"
  BY <1>1, Unfinished DEF PrimaryFailed
<1>3. /\ \A n \in Intents : n # i => /\ job'[n] = job[n] /\ status'[n] = status[n]
                                     /\ outcome'[n] = outcome[n] /\ score'[n] = score[n]
      /\ job'[i]["confirmation"] = job[i]["confirmation"]
      /\ outcome'[i] = o /\ status'[i] = "validated"
      /\ UNCHANGED <<receipt, sequence>>
  BY <1>1 DEF PrimaryFailed, Validated, TypeInv, TypeOK
<1>4. ResultInv(i)'
  BY <1>1, <1>2, <1>3, StillUnscored
<1>5. Distinct'
  BY <1>3 DEF Distinct, StandingInv
<1> QED BY <1>2, <1>3, <1>4, <1>5, OneResult DEF StandingInv

(* The score two valid runs agree on is one of theirs and beats neither. *)
LEMMA ConfirmedIsWorst ==
  ASSUME NEW v \in Versions, NEW a \in Int, NEW b \in Int
  PROVE  /\ Confirmed(v, a, b) \in {a, b}
         /\ ~better(Confirmed(v, a, b), a, MetricOf[v].direction)
         /\ ~better(Confirmed(v, a, b), b, MetricOf[v].direction)
<1>1. v \in Performance => MetricOf[v].direction = "maximize"
  BY LadderAssumption
<1> QED BY <1>1 DEF Confirmed, ConfirmedScore, better

LEMMA ConfirmationStanding ==
  ASSUME TypeInv, StandingInv, NEW i \in Intents, NEW o, NEW t, NEW met, NEW overlap,
         o = "valid" => t \in Int, ConfirmationResult(i, o, t, met, overlap)
  PROVE  StandingInv' /\ Settled
<1> DEFINE v == VersionOf[i]
           first == job[i]["submission"]
           second == Completed(i, "confirmation", o, t, met)
<1>1. /\ ResultInv(i) /\ "submission" \in Purposes /\ "confirmation" \in Purposes
      /\ job[i]["confirmation"] \in Job
  BY DEF StandingInv, Purposes, TypeInv, TypeOK
<1>2. outcome[i] # "valid" /\ ~HasValid(i)
  BY <1>1, Unfinished DEF ConfirmationResult
<1>3. ScoredRun(first)
  BY <1>1 DEF ResultInv, ConfirmationResult
<1>4. /\ \A n \in Intents : n # i => job'[n] = job[n]
      /\ job'[i]["submission"] = first /\ job'[i]["confirmation"] = second
      /\ UNCHANGED <<receipt, sequence>>
  BY <1>1 DEF ConfirmationResult, TypeInv, TypeOK
<1>5. Distinct'
  BY <1>4 DEF Distinct, StandingInv
<1>6. CASE o = "valid" /\ Validated(i, "valid", Confirmed(v, first.score, t))
  <2>1. /\ \A n \in Intents : n # i => /\ status'[n] = status[n]
                                       /\ outcome'[n] = outcome[n] /\ score'[n] = score[n]
        /\ status'[i] = "validated" /\ outcome'[i] = "valid"
        /\ score'[i] = Confirmed(v, first.score, t)
    BY <1>6 DEF Validated, TypeInv, TypeOK
  <2>2. /\ second.status = "complete" /\ second.outcome = "valid" /\ second.score = t
        /\ second.host = job[i]["confirmation"].host
    BY <1>1, <1>6 DEF Completed, Job
  <2>3. t \in Int /\ first.score \in Int /\ v \in Versions
    BY <1>3, <1>6, VersionOfType DEF ScoredRun
  <2>4. PolicyOf[v] = "independent" => GroupOf[first.host] # GroupOf[second.host]
    BY <2>2 DEF ConfirmationResult
  <2> HIDE DEF v, first, second
  <2>5. /\ score'[i] \in {first.score, second.score}
        /\ ~better(score'[i], first.score, MetricOf[v].direction)
        /\ ~better(score'[i], second.score, MetricOf[v].direction)
    BY <2>1, <2>2, <2>3, ConfirmedIsWorst
  <2>6. Supported(i, score[i])'
    BY <1>3, <1>4, <2>2, <2>3, <2>4, <2>5 DEF Supported, ScoredRun, v
  <2>7. ResultInv(i)'
    BY <1>2, <1>3, <1>4, <2>1, <2>6 DEF ResultInv, HasValid
  <2> QED BY <1>2, <1>4, <1>5, <2>1, <2>7, OneResult DEF StandingInv
<1>7. CASE Validated(i, Disagreement(v), NULL)
  <2>1. Disagreement(v) # "valid"
    BY DEF Disagreement
  <2>2. /\ \A n \in Intents : n # i => /\ status'[n] = status[n]
                                       /\ outcome'[n] = outcome[n] /\ score'[n] = score[n]
        /\ status'[i] = "validated" /\ outcome'[i] # "valid"
    BY <1>7, <2>1 DEF Validated, TypeInv, TypeOK
  <2> HIDE DEF v, first, second
  <2>3. ResultInv(i)'
    BY <1>1, <1>2, <1>3, <1>4, <2>2, StillUnscored
  <2> QED BY <1>2, <1>4, <1>5, <2>2, <2>3, OneResult DEF StandingInv
<1> QED BY <1>6, <1>7 DEF ConfirmationResult

LEMMA ResultStanding ==
  ASSUME TypeInv, StandingInv, NEW i \in Intents, RunnerResult(i)
  PROVE  StandingInv' /\ Settled
<1>1. Ticks \subseteq Int
  BY LadderAssumption
<1>2. CASE \E p \in Purposes : InfrastructureFault(i, p) \/ ChallengeFault(i, p)
  BY <1>2, LeaseStanding, FaultStanding
<1>3. CASE \E t \in Ticks, met \in SUBSET Requires[VersionOf[i]] : PrimaryValid(i, t, met)
  BY <1>3, PrimaryStanding
<1>4. CASE \E t \in Ticks, met \in SUBSET Requires[VersionOf[i]] :
             \E overlap \in BOOLEAN : ConfirmationResult(i, "valid", t, met, overlap)
  BY <1>1, <1>4, ConfirmationStanding
<1>5. ASSUME NEW o \in RunFailures,
             PrimaryFailed(i, o) \/ ConfirmationResult(i, o, NULL, {}, FALSE)
      PROVE  StandingInv' /\ Settled
  <2>1. o # "valid"
    BY DEF RunFailures
  <2> QED BY <1>5, <2>1, FailedStanding, ConfirmationStanding
<1> QED BY <1>2, <1>3, <1>4, <1>5 DEF RunnerResult

LEMMA PublishStanding ==
  ASSUME StandingInv, NEW i \in Intents, PublishSubmission(i)
  PROVE  StandingInv' /\ Settled
  BY DEF PublishSubmission, StandingInv, Distinct, ResultInv, HasValid, Supported, Settled

(* resolve_unscorable only closes what has no valid receipt. *)
LEMMA ResolveStanding ==
  ASSUME TypeInv, StandingInv, NEW v \in Versions, ResolveUnscorable(v)
  PROVE  StandingInv' /\ Settled
<1> DEFINE open == {i \in Intents : /\ VersionOf[i] = v
                                    /\ status[i] \notin {"none", "finalized"}}
           live == {"queued", "running", "attention_required"}
<1>1. UNCHANGED <<receipt, sequence>>
  BY DEF ResolveUnscorable
<1>2. ASSUME NEW n \in Intents
      PROVE  /\ status'[n] = IF n \in open THEN "validated" ELSE status[n]
             /\ outcome'[n] = IF n \in open THEN "challenge_unscorable" ELSE outcome[n]
             /\ score'[n] = IF n \in open THEN NULL ELSE score[n]
             /\ \A p \in Purposes :
                  job'[n][p] = IF VersionOf[n] = v /\ job[n][p].status \in live
                               THEN [job[n][p] EXCEPT !.status = "cancelled"]
                               ELSE job[n][p]
             /\ job'[n] \in [Purposes -> {job'[n][p] : p \in Purposes}]
  BY DEF ResolveUnscorable
<1>3. ASSUME NEW n \in Intents, NEW p \in Purposes
      PROVE  /\ job[n][p].status = "complete" => job'[n][p] = job[n][p]
             /\ job[n][p].status = "none" => job'[n][p] = job[n][p]
  BY <1>2
<1>4. ASSUME NEW n \in Intents
      PROVE  ResultInv(n)' /\ (HasValid(n) => job'[n] = job[n])
  <2> HIDE DEF live
  <2>1. ResultInv(n) /\ "submission" \in Purposes /\ "confirmation" \in Purposes
    BY DEF StandingInv, Purposes
  <2>2. job'[n]["confirmation"].status # "none" => ScoredRun(job'[n]["submission"])
    BY <1>3, <2>1 DEF ResultInv, ScoredRun
  <2>3. CASE n \in open
    <3>1. status[n] # "finalized" /\ ~HasValid(n)
      BY <2>1, <2>3 DEF ResultInv
    <3>2. status'[n] = "validated" /\ outcome'[n] = "challenge_unscorable"
      BY <1>2, <2>3
    <3> QED BY <1>1, <2>1, <2>2, <3>1, <3>2, StillUnscored
  <2>4. CASE n \notin open
    <3>1. status'[n] = status[n] /\ outcome'[n] = outcome[n] /\ score'[n] = score[n]
      BY <1>2, <2>4
    <3>2. outcome[n] = "valid" => /\ job'[n]["submission"] = job[n]["submission"]
                                  /\ job'[n]["confirmation"] = job[n]["confirmation"]
      BY <1>3, <2>1 DEF ResultInv, Supported, ScoredRun
    <3>3. ResultInv(n)'
      BY <1>1, <2>1, <2>2, <3>1, <3>2 DEF ResultInv, Supported, HasValid
    <3>4. HasValid(n) => job'[n] = job[n]
      <4> SUFFICES ASSUME HasValid(n) PROVE job'[n] = job[n]
        OBVIOUS
      <4>1. outcome[n] = "valid"
        BY <2>1 DEF ResultInv, HasValid
      <4>2. \A p \in Purposes : job'[n][p] = job[n][p]
        BY <3>2, <4>1 DEF Purposes
      <4>3. job[n] \in [Purposes -> Job]
        BY DEF TypeInv, TypeOK
      <4> QED BY <1>2, <4>2, <4>3
    <3> QED BY <3>3, <3>4
  <2> QED BY <2>3, <2>4
<1>5. Distinct'
  BY <1>1 DEF Distinct, StandingInv
<1> QED BY <1>4, <1>5 DEF StandingInv, Settled

LEMMA EditorStanding ==
  ASSUME TypeInv, StandingInv, NEW v \in Versions, EditorDecision(v) \/ DeadlinePasses(v)
  PROVE  StandingInv' /\ Settled
<1>1. CASE ResolveUnscorable(v)
  BY <1>1, ResolveStanding
<1>2. CASE UNCHANGED <<submissionVars, job>>
  BY <1>2 DEF submissionVars, StandingInv, Distinct, ResultInv, HasValid, Supported, Settled
<1> QED BY <1>1, <1>2 DEF EditorDecision, Pause, Resume, Reject, Withdraw, Compromise,
           DeadlinePasses

(* What one adjudication does with the receipts B it processes and the ones A *)
(* of them that advance the frontier of v                                     *)
Batched(v, B, A) ==
  /\ \A j \in B : /\ VersionOf[j] = v /\ receipt[j] = NULL
                  /\ sequence[j] # 0 /\ sequence[j] > watermark[v]
  /\ Advances(v, B, A)
  /\ best' = [best EXCEPT ![v] = IF {j \in B : Record(v, B, j)} = {} THEN best[v]
                                 ELSE Latest({j \in B : Record(v, B, j)})]
  /\ frontier' = [frontier EXCEPT ![v] = IF A = {} THEN frontier[v] ELSE Latest(A)]
  /\ \A j \in B : /\ status'[j] = "finalized" /\ public'[j] = Publishes(B, j)
                  /\ receipt'[j] # NULL /\ receipt'[j].outcome = outcome[j]
                  /\ receipt'[j].score = score[j] /\ receipt'[j].milestones = Claims(B, j)
  /\ \A j \in Intents \ B : /\ status'[j] = status[j] /\ public'[j] = public[j]
                            /\ receipt'[j] = receipt[j]
  /\ claim' = [m \in Milestones |->
       IF \E j \in B : m \in Claims(B, j)
       THEN CHOOSE j \in B : m \in Claims(B, j) ELSE claim[m]]
  /\ UNCHANGED <<outcome, score, sequence, job>>

LEMMA AdjudicateBatched ==
  ASSUME TypeInv, OrderInv, NEW i \in Intents, Adjudicate(i)
  PROVE  \E B \in SUBSET Intents : \E A \in SUBSET Published(B) : Batched(VersionOf[i], B, A)
<1> DEFINE v == VersionOf[i]
<1>1. v \in Versions /\ watermark[v] \in Nat /\ nextSequence[v] \in Nat
  BY VersionOfType DEF TypeInv, TypeOK
<1>2. PICK w \in watermark[v]..nextSequence[v] :
        \E A \in SUBSET Published(Batch(v, w)) :
          Advances(v, Batch(v, w), A) /\ AdjudicateBatch(v, w, Batch(v, w), A)
  BY DEF Adjudicate
<1>3. PICK A \in SUBSET Published(Batch(v, w)) :
        Advances(v, Batch(v, w), A) /\ AdjudicateBatch(v, w, Batch(v, w), A)
  BY <1>2
<1>4. UNCHANGED <<outcome, score, sequence, job>>
  BY DEF Adjudicate
<1>5. ASSUME NEW j \in Batch(v, w)
      PROVE  /\ j \in Intents /\ VersionOf[j] = v /\ receipt[j] = NULL
             /\ sequence[j] # 0 /\ sequence[j] > watermark[v]
  <2>1. j \in Intents /\ VersionOf[j] = v /\ sequence[j] \in (watermark[v] + 1)..w
    BY DEF Batch
  <2> QED BY <1>1, <2>1 DEF OrderInv, WatermarkOrder
<1>6. PICK B \in SUBSET Intents : B = Batch(v, w)
  BY <1>5
<1>7. /\ best' = [best EXCEPT ![v] = IF {j \in B : Record(v, B, j)} = {} THEN best[v]
                                     ELSE Latest({j \in B : Record(v, B, j)})]
      /\ frontier' = [frontier EXCEPT ![v] = IF A = {} THEN frontier[v] ELSE Latest(A)]
  BY <1>3, <1>6 DEF AdjudicateBatch
<1>8. claim' = [m \in Milestones |->
        IF \E j \in B : m \in Claims(B, j)
        THEN CHOOSE j \in B : m \in Claims(B, j) ELSE claim[m]]
  BY <1>3, <1>6, Zenon DEF AdjudicateBatch
<1>9. receipt' = [n \in Intents |->
        IF n \in B
        THEN [outcome |-> outcome[n], score |-> score[n],
              record |-> n \in {j \in B : Record(v, B, j)}, advance |-> n \in A,
              milestones |-> Claims(B, n)]
        ELSE receipt[n]]
  BY <1>3, <1>6, Zenon DEF AdjudicateBatch
<1>10. \A n \in Intents : /\ status'[n] = IF n \in B THEN "finalized" ELSE status[n]
                          /\ public'[n] = IF n \in B THEN Publishes(B, n) ELSE public[n]
  BY <1>3, <1>6 DEF AdjudicateBatch
<1>11. \A j \in B : /\ receipt'[j].outcome = outcome[j] /\ receipt'[j].score = score[j]
                    /\ receipt'[j].milestones = Claims(B, j)
  BY <1>9
<1>12. \A j \in B : receipt'[j] # NULL
  <2>1. OrderInv'
    BY AdjudicateOrder
  <2> QED BY <1>10, <2>1 DEF OrderInv
<1>13. \A j \in Intents \ B : receipt'[j] = receipt[j]
  BY <1>9
<1>14. Batched(v, B, A)
  BY <1>3, <1>4, <1>5, <1>6, <1>7, <1>8, <1>10, <1>11, <1>12, <1>13 DEF Batched
<1> QED BY <1>3, <1>6, <1>14

LEMMA AdjudicateStanding ==
  ASSUME TypeInv, OrderInv, StandingInv, NEW i \in Intents, Adjudicate(i)
  PROVE  StandingInv' /\ Settled
<1>1. PICK B \in SUBSET Intents :
        \E A \in SUBSET Published(B) : Batched(VersionOf[i], B, A)
  BY AdjudicateBatched
<1>2. /\ \A j \in B : /\ status'[j] = "finalized" /\ receipt[j] = NULL
                      /\ receipt'[j].outcome = outcome[j] /\ receipt'[j].score = score[j]
      /\ \A j \in Intents \ B : status'[j] = status[j] /\ receipt'[j] = receipt[j]
      /\ UNCHANGED <<outcome, score, sequence, job>>
  BY <1>1 DEF Batched
<1>3. ASSUME NEW n \in Intents PROVE ResultInv(n)'
  <2>1. ResultInv(n)
    BY DEF StandingInv
  <2>2. CASE n \in B
    BY <1>2, <2>1, <2>2 DEF ResultInv, HasValid, Supported
  <2>3. CASE n \notin B
    BY <1>2, <2>1, <2>3 DEF ResultInv, HasValid, Supported
  <2> QED BY <2>2, <2>3
<1>4. Distinct' /\ Settled
  BY <1>2 DEF Distinct, StandingInv, Settled
<1> QED BY <1>3, <1>4 DEF StandingInv

(* Results, receipts and runs stay in step, and settled runs are left alone. *)
LEMMA NextStanding == LadderInv /\ StandingInv /\ [Next]_vars => StandingInv' /\ Settled
<1> SUFFICES ASSUME LadderInv, StandingInv, [Next]_vars PROVE StandingInv' /\ Settled
  OBVIOUS
<1>1. TypeInv /\ OrderInv
  BY DEF LadderInv
<1>2. ASSUME NEW i \in Intents, AcceptIntent(i) \/ QueueSubmission(i) \/ RunnerResult(i)
             \/ Adjudicate(i) \/ PublishSubmission(i)
      PROVE  StandingInv' /\ Settled
  BY <1>1, <1>2, AcceptStanding, QueueStanding, ResultStanding, AdjudicateStanding,
    PublishStanding
<1>3. ASSUME NEW i \in Intents, NEW p \in Purposes,
             (\E h \in Hosts : ClaimRunnerJob(i, p, h)) \/ RecoverRunnerLease(i, p)
      PROVE  StandingInv' /\ Settled
  BY <1>1, <1>3, LeaseStanding
<1>4. ASSUME NEW v \in Versions, EditorDecision(v) \/ DeadlinePasses(v)
      PROVE  StandingInv' /\ Settled
  BY <1>1, <1>4, EditorStanding
<1>5. CASE UNCHANGED vars
  BY <1>5 DEF vars, submissionVars, StandingInv, Distinct, ResultInv, HasValid, Supported, Settled
<1> QED BY <1>2, <1>3, <1>4, <1>5 DEF Next

LEMMA StandingInvariant == Spec => []StandingInv
<1>1. LadderInv /\ StandingInv /\ [Next]_vars => StandingInv'
  BY NextStanding
<1> QED BY <1>1, InitStanding, LadderInvariant, PTL DEF Spec

LEMMA ValidReceiptsOf ==
  ASSUME NEW v, NEW i
  PROVE  i \in ValidReceipts(v) <=> i \in Intents /\ VersionOf[i] = v /\ HasValid(i)
  BY DEF ValidReceipts, HasValid

(* Every valid receipt rests on two completed valid runs, by hosts of         *)
(* different groups when the policy asks for it, that support its score, for  *)
(* any number of hosts, retries, faults and editorial decisions               *)
(* (runnerResult, ConfirmedScore, ConfirmMeasuredRuns).                       *)
THEOREM ConfirmedByTwoRuns == Spec => []ConfirmedTwice
<1>1. LadderInv /\ StandingInv => ConfirmedTwice
  <2> SUFFICES ASSUME LadderInv, StandingInv, NEW v \in Versions, NEW i \in ValidReceipts(v)
               PROVE  LET a == job[i]["submission"]
                          b == job[i]["confirmation"]
                          s == receipt[i].score IN
                      /\ a.status = "complete" /\ b.status = "complete"
                      /\ a.outcome = "valid" /\ b.outcome = "valid"
                      /\ PolicyOf[v] = "independent" => GroupOf[a.host] # GroupOf[b.host]
                      /\ s \in {a.score, b.score}
                      /\ ~better(s, a.score, MetricOf[v].direction)
                      /\ ~better(s, b.score, MetricOf[v].direction)
    BY DEF ConfirmedTwice
  <2>1. i \in Intents /\ VersionOf[i] = v /\ HasValid(i) /\ ResultInv(i) /\ TypeInv
    BY ValidReceiptsOf DEF StandingInv, LadderInv
  <2>2. receipt[i].score = score[i] /\ Supported(i, score[i])
    BY <2>1, ValidStands
  <2> QED BY <2>1, <2>2 DEF Supported, ScoredRun
<1> QED BY <1>1, LadderInvariant, StandingInvariant, PTL

-----------------------------------------------------------------------------
(* Scores in one direction *)

(* A score as a number of which more is better *)
Worth(x, direction) == IF direction = "maximize" THEN x ELSE -x

LEMMA WorthOrder ==
  ASSUME NEW d \in Direction, NEW a \in Int, NEW b \in Int
  PROVE  /\ Worth(a, d) \in Int
         /\ better(a, b, d) <=> Worth(a, d) > Worth(b, d)
         /\ crosses(a, b, d) <=> Worth(a, d) >= Worth(b, d)
         /\ Gain(a, b, d) = Worth(a, d) - Worth(b, d)
         /\ a = b <=> Worth(a, d) = Worth(b, d)
  BY DEF Direction, Worth, better, crosses, Gain

Merit(i) == Worth(score[i], MetricOf[VersionOf[i]].direction)
Base(v)  == Worth(MetricOf[v].baseline, MetricOf[v].direction)

LEMMA MetricFacts ==
  ASSUME NEW v \in Versions
  PROVE  /\ MetricOf[v].direction \in Direction /\ MetricOf[v].baseline \in Int
         /\ MetricOf[v].minimumDelta \in Nat \ {0} /\ Base(v) \in Int
<1>1. MetricOf[v] \in Metric
  BY LadderAssumption
<1>2. MetricOf[v].direction \in Direction /\ MetricOf[v].baseline \in Int
      /\ MetricOf[v].minimumDelta \in Nat \ {0}
  BY <1>1 DEF Metric
<1> QED BY <1>2, WorthOrder DEF Base

LEMMA MeritType ==
  ASSUME NEW i \in Intents, score[i] \in Int
  PROVE  Merit(i) \in Int
  BY MetricFacts, WorthOrder, VersionOfType DEF Merit

(* A score in the receipts: what it is compared by is what is recorded. *)
LEMMA ReceiptMerit ==
  ASSUME LadderInv, StandingInv, NEW v \in Versions, NEW i \in ValidReceipts(v)
  PROVE  /\ i \in Intents /\ VersionOf[i] = v /\ HasValid(i)
         /\ outcome[i] = "valid" /\ status[i] = "finalized"
         /\ score[i] \in Int /\ receipt[i].score = score[i]
         /\ Merit(i) \in Int /\ Merit(i) = Worth(score[i], MetricOf[v].direction)
         /\ sequence[i] \in Nat /\ sequence[i] # 0 /\ sequence[i] <= watermark[v]
<1>1. i \in Intents /\ VersionOf[i] = v /\ HasValid(i) /\ ResultInv(i) /\ TypeInv
  BY ValidReceiptsOf DEF StandingInv, LadderInv
<1>2. /\ status[i] = "finalized" /\ outcome[i] = "valid" /\ score[i] \in Int
      /\ receipt[i].score = score[i]
  BY <1>1, ValidStands
<1>3. sequence[i] \in 1..watermark[v] /\ watermark[v] \in Nat
  BY <1>1 DEF LadderInv, OrderInv, WatermarkOrder, HasValid, TypeInv, TypeOK
<1> QED BY <1>1, <1>2, <1>3, MeritType DEF Merit

(* A valid result of a batch *)
LEMMA BatchMerit ==
  ASSUME LadderInv, StandingInv, NEW v \in Versions, NEW B \in SUBSET Intents,
         NEW A, Batched(v, B, A), NEW j \in B, outcome[j] = "valid"
  PROVE  /\ Valid(j) /\ VersionOf[j] = v
         /\ score[j] \in Int /\ Merit(j) \in Int
         /\ Merit(j) = Worth(score[j], MetricOf[v].direction)
         /\ sequence[j] \in Nat /\ sequence[j] # 0 /\ sequence[j] > watermark[v]
<1>1. /\ j \in Intents /\ VersionOf[j] = v /\ sequence[j] # 0 /\ sequence[j] > watermark[v]
  BY DEF Batched
<1>2. ResultInv(j) /\ sequence[j] \in Nat
  BY <1>1 DEF StandingInv, LadderInv, TypeInv, TypeOK
<1>3. score[j] \in Int
  BY <1>2 DEF ResultInv, Supported, ScoredRun
<1>4. score[j] # NULL
  BY <1>3, LadderAssumption
<1> QED BY <1>1, <1>2, <1>3, <1>4, MeritType DEF Merit, Valid

(* The valid receipts after a batch *)
LEMMA BatchReceipts ==
  ASSUME LadderInv, StandingInv, NEW v \in Versions, NEW B \in SUBSET Intents,
         NEW A, Batched(v, B, A), NEW u \in Versions, NEW n
  PROVE  n \in ValidReceipts(u)' <=>
           n \in ValidReceipts(u) \/ (u = v /\ n \in B /\ outcome[n] = "valid")
<1>1. n \in ValidReceipts(u)' <=>
        n \in Intents /\ VersionOf[n] = u /\ receipt'[n] # NULL /\ receipt'[n].outcome = "valid"
  BY DEF ValidReceipts
<1>2. n \in ValidReceipts(u) <=>
        n \in Intents /\ VersionOf[n] = u /\ receipt[n] # NULL /\ receipt[n].outcome = "valid"
  BY DEF ValidReceipts
<1>3. CASE n \in B
  BY <1>1, <1>2, <1>3 DEF Batched
<1>4. CASE n \notin B
  BY <1>1, <1>2, <1>4 DEF Batched
<1> QED BY <1>3, <1>4

(* VerifiedBest, for one version and in one direction *)
BestInv(v) ==
  /\ best[v] = NULL => \A i \in ValidReceipts(v) : Merit(i) <= Base(v)
  /\ best[v] # NULL =>
       /\ best[v] \in ValidReceipts(v) /\ Merit(best[v]) > Base(v)
       /\ \A j \in ValidReceipts(v) \ {best[v]} :
            \/ Merit(best[v]) > Merit(j)
            \/ Merit(best[v]) = Merit(j) /\ sequence[best[v]] < sequence[j]

(* A batch leaves the earliest of the best as the verified best. *)
LEMMA BatchBest ==
  ASSUME LadderInv, StandingInv, NEW v \in Versions, NEW B \in SUBSET Intents,
         NEW A, Batched(v, B, A), BestInv(v)
  PROVE  BestInv(v)'
<1> DEFINE d == MetricOf[v].direction
           T == IF best[v] = NULL THEN Base(v) ELSE Merit(best[v])
           V == {j \in B : outcome[j] = "valid"}
           f == [j \in V |-> Merit(j)]
           q == [j \in V |-> sequence[j]]
           R == {j \in B : Record(v, B, j)}
<1>1. /\ d \in Direction /\ MetricOf[v].baseline \in Int /\ Base(v) \in Int
      /\ Base(v) = Worth(MetricOf[v].baseline, d)
  BY MetricFacts DEF Base
<1>2. /\ T \in Int /\ TicksOf(v, best[v]) \in Int /\ T = Worth(TicksOf(v, best[v]), d)
      /\ T >= Base(v)
  <2>1. CASE best[v] = NULL
    BY <1>1, <2>1 DEF TicksOf
  <2>2. CASE best[v] # NULL
    <3>1. best[v] \in ValidReceipts(v) /\ Merit(best[v]) > Base(v)
      BY <2>2 DEF BestInv
    <3>2. score[best[v]] \in Int /\ Merit(best[v]) \in Int
          /\ Merit(best[v]) = Worth(score[best[v]], d)
      BY <3>1, ReceiptMerit
    <3> QED BY <1>1, <2>2, <3>1, <3>2 DEF TicksOf
  <2> QED BY <2>1, <2>2
<1>3. ASSUME NEW j \in V
      PROVE  /\ Valid(j) /\ score[j] \in Int /\ Merit(j) \in Int /\ j \in Intents
             /\ Merit(j) = Worth(score[j], d) /\ VersionOf[j] = v
             /\ sequence[j] \in Nat /\ sequence[j] # 0 /\ sequence[j] > watermark[v]
  BY BatchMerit
<1>4. \A j \in B : Valid(j) <=> j \in V
  BY <1>3 DEF Valid
<1> HIDE DEF T, d
<1>5. R = Records(V, f, q, T)
  <2>1. ASSUME NEW i \in V
        PROVE  Record(v, B, i) <=> f[i] > T /\ \A j \in V : q[j] < q[i] => f[i] > f[j]
    <3>1. Record(v, B, i) <=>
            /\ better(score[i], TicksOf(v, best[v]), d)
            /\ \A j \in V : sequence[j] < sequence[i] => better(score[i], score[j], d)
      BY <1>3, <1>4 DEF Record, Before, d
    <3>2. better(score[i], TicksOf(v, best[v]), d) <=> f[i] > T
      BY <1>1, <1>2, <1>3, WorthOrder
    <3>3. \A j \in V : better(score[i], score[j], d) <=> f[i] > f[j]
      BY <1>1, <1>3, WorthOrder
    <3> QED BY <3>1, <3>2, <3>3
  <2>2. \A i \in R : i \in V
    BY <1>4 DEF Record
  <2> QED BY <2>1, <2>2 DEF Records
<1>6. IsFiniteSet(V) /\ f \in [V -> Int] /\ q \in [V -> Int]
  BY <1>3, LadderAssumption, FS_Subset
<1>7. Ranked(V, f, q)
  <2>1. \A i, j \in V : q[i] = q[j] => i = j
    BY <1>3 DEF StandingInv, Distinct
  <2> QED BY <1>6, <2>1 DEF Ranked
<1>8. R \in SUBSET Intents /\ R \subseteq V
  BY <1>5 DEF Records
<1>9. R # {} => Latest(R) \in R /\ \A j \in R : q[j] <= q[Latest(R)]
  <2>1. R # {} => Latest(R) \in R /\ \A j \in R : sequence[j] <= sequence[Latest(R)]
    BY <1>8, LatestMember DEF LadderInv, TypeInv
  <2> QED BY <1>8, <2>1
<1>10. best'[v] = IF R = {} THEN best[v] ELSE Latest(R)
  BY DEF Batched, LadderInv, TypeInv, TypeOK
<1>11. \A n : n \in ValidReceipts(v)' <=> n \in ValidReceipts(v) \/ n \in V
  BY BatchReceipts
<1>12. /\ \A n : Merit(n)' = Merit(n) /\ sequence'[n] = sequence[n]
       /\ Base(v)' = Base(v)
  BY DEF Batched, Merit, Base
<1>13. /\ R = {} => \A i \in V : f[i] <= T
       /\ \A l \in R : (\A j \in R : q[j] <= q[l]) =>
            \A j \in V \ {l} : f[l] > f[j] \/ (f[l] = f[j] /\ q[l] < q[j])
  <2> HIDE DEF R, V, f, q
  <2> QED BY <1>2, <1>5, <1>7, BestOfBatch
<1>14. CASE R = {}
  <2>1. best'[v] = best[v] /\ \A i \in V : Merit(i) <= T
    BY <1>10, <1>13, <1>14
  <2> HIDE DEF R, V, f, q
  <2>2. CASE best[v] = NULL
    <3>1. \A i \in ValidReceipts(v)' : Merit(i)' <= Base(v)'
      BY <1>11, <1>12, <2>1, <2>2 DEF BestInv, T
    <3> QED BY <2>1, <2>2, <3>1 DEF BestInv
  <2>3. CASE best[v] # NULL
    <3>1. T = Merit(best[v]) /\ best[v] \in ValidReceipts(v)
          /\ sequence[best[v]] \in Nat /\ sequence[best[v]] <= watermark[v]
      BY <2>3, ReceiptMerit DEF BestInv, T
    <3>2. watermark[v] \in Nat
      BY DEF LadderInv, TypeInv, TypeOK
    <3>3. \A j \in V : \/ Merit(best[v]) > Merit(j)
                       \/ Merit(best[v]) = Merit(j) /\ sequence[best[v]] < sequence[j]
      BY <1>2, <1>3, <2>1, <3>1, <3>2
    <3>4. \A j \in ValidReceipts(v)' \ {best[v]} :
            \/ Merit(best[v])' > Merit(j)'
            \/ Merit(best[v])' = Merit(j)' /\ sequence'[best[v]] < sequence'[j]
      BY <1>11, <1>12, <2>1, <2>3, <3>3 DEF BestInv
    <3>5. best[v] \in ValidReceipts(v)' /\ Merit(best[v])' > Base(v)'
      BY <1>11, <1>12, <2>1, <2>3, <3>1 DEF BestInv
    <3> QED BY <2>1, <2>3, <3>4, <3>5, <1>12 DEF BestInv
  <2> QED BY <2>2, <2>3
<1>15. CASE R # {}
  <2>1. PICK l : l = Latest(R)
    OBVIOUS
  <2>2. /\ best'[v] = l /\ l \in R /\ l \in V /\ f[l] > T
        /\ \A j \in V \ {l} : f[l] > f[j] \/ (f[l] = f[j] /\ q[l] < q[j])
    BY <1>5, <1>9, <1>10, <1>13, <1>15, <2>1 DEF Records
  <2>3. /\ Merit(l) > T /\ Merit(l) \in Int
        /\ \A j \in V \ {l} : \/ Merit(l) > Merit(j)
                              \/ Merit(l) = Merit(j) /\ sequence[l] < sequence[j]
    BY <1>3, <2>2
  <2> HIDE DEF R, V, f, q
  <2>4. \A j \in ValidReceipts(v) : Merit(j) \in Int /\ Merit(j) <= T
    <3> SUFFICES ASSUME NEW j \in ValidReceipts(v) PROVE Merit(j) \in Int /\ Merit(j) <= T
      OBVIOUS
    <3>1. Merit(j) \in Int
      BY ReceiptMerit
    <3> QED BY <1>2, <3>1 DEF BestInv, T
  <2>5. \A j \in ValidReceipts(v)' \ {l} :
          \/ Merit(l)' > Merit(j)'
          \/ Merit(l)' = Merit(j)' /\ sequence'[l] < sequence'[j]
    BY <1>2, <1>11, <1>12, <2>3, <2>4
  <2>6. l \in ValidReceipts(v)' /\ Merit(l)' > Base(v)' /\ l # NULL
    BY <1>1, <1>2, <1>3, <1>11, <1>12, <2>2, <2>3, LadderAssumption
  <2> QED BY <1>12, <2>2, <2>5, <2>6 DEF BestInv
<1> QED BY <1>14, <1>15

-----------------------------------------------------------------------------
(* What a step leaves of the receipts it does not write *)

(* The valid receipts of v, and everything they are ranked by, stay. *)
Held(v) ==
  /\ ValidReceipts(v)' = ValidReceipts(v)
  /\ \A i \in ValidReceipts(v) :
       /\ score'[i] = score[i] /\ sequence'[i] = sequence[i]
       /\ job'[i] = job[i] /\ outcome'[i] = outcome[i]

(* The steps other than adjudication *)
Steady ==
  /\ UNCHANGED <<receipt, best, claim>>
  /\ \A i \in Intents : HasValid(i) => sequence'[i] = sequence[i]
  /\ \/ UNCHANGED <<frontier, public>>
     \/ \E i \in Intents : PublishSubmission(i)

LEMMA NextSteady ==
  ASSUME TypeInv, OrderInv, [Next]_vars
  PROVE  (\E i \in Intents : Adjudicate(i)) \/ Steady
<1>1. ASSUME NEW i \in Intents, AcceptIntent(i) PROVE Steady
  <2>1. UNCHANGED <<receipt, best, claim, frontier, public>> /\ ~Accepted(i)
    BY <1>1 DEF AcceptIntent
  <2>2. ~HasValid(i)
    <3>1. sequence[i] = 0 /\ watermark[VersionOf[i]] \in Nat
      BY <2>1, VersionOfType DEF OrderInv, Unborn, TypeInv, TypeOK
    <3> QED BY <3>1 DEF OrderInv, WatermarkOrder, HasValid
  <2>3. \A n \in Intents : n # i => sequence'[n] = sequence[n]
    BY <1>1 DEF AcceptIntent, TypeInv, TypeOK
  <2> QED BY <2>1, <2>2, <2>3 DEF Steady
<1>2. ASSUME NEW i \in Intents, QueueSubmission(i) PROVE Steady
  BY <1>2 DEF QueueSubmission, Steady, versionVars
<1>3. ASSUME NEW i \in Intents, NEW p \in Purposes,
             (\E h \in Hosts : ClaimRunnerJob(i, p, h)) \/ RecoverRunnerLease(i, p)
      PROVE  Steady
  <2>1. UNCHANGED <<receipt, best, claim, frontier, public, sequence>>
    BY <1>3, Zenon DEF ClaimRunnerJob, RecoverRunnerLease, versionVars, submissionVars
  <2> QED BY <2>1 DEF Steady
<1>4. ASSUME NEW i \in Intents, RunnerResult(i) PROVE Steady
  <2>1. UNCHANGED <<receipt, best, claim, frontier, public, sequence>>
    BY <1>4, Zenon DEF RunnerResult, InfrastructureFault, ChallengeFault, PrimaryValid,
       PrimaryFailed, ConfirmationResult, versionVars, submissionVars
  <2> QED BY <2>1 DEF Steady
<1>5. ASSUME NEW i \in Intents, PublishSubmission(i) PROVE Steady
  BY <1>5 DEF PublishSubmission, Steady
<1>6. ASSUME NEW v \in Versions, EditorDecision(v) \/ DeadlinePasses(v) PROVE Steady
  <2>1. UNCHANGED <<receipt, best, claim, frontier, public, sequence>>
    BY <1>6, Zenon DEF EditorDecision, Pause, Resume, Reject, Withdraw, Compromise,
       ResolveUnscorable, DeadlinePasses, submissionVars
  <2> QED BY <2>1 DEF Steady
<1>7. CASE UNCHANGED vars
  BY <1>7 DEF vars, versionVars, submissionVars, Steady
<1> QED BY <1>1, <1>2, <1>3, <1>4, <1>5, <1>6, <1>7 DEF Next

LEMMA SteadyHeld ==
  ASSUME LadderInv, StandingInv, LadderInv', StandingInv', Settled, Steady, NEW v \in Versions
  PROVE  Held(v)
<1>1. ValidReceipts(v)' = ValidReceipts(v)
  BY DEF Steady, ValidReceipts
<1>2. ASSUME NEW i \in ValidReceipts(v)
      PROVE  /\ score'[i] = score[i] /\ sequence'[i] = sequence[i]
             /\ job'[i] = job[i] /\ outcome'[i] = outcome[i]
  <2>1. /\ i \in Intents /\ HasValid(i) /\ outcome[i] = "valid"
        /\ receipt[i].score = score[i] /\ ResultInv(i)' /\ TypeInv'
    BY ReceiptMerit DEF StandingInv, LadderInv
  <2>2. HasValid(i)' /\ receipt' = receipt
    BY <2>1 DEF HasValid, Steady
  <2>3. outcome'[i] = "valid" /\ receipt'[i].score = score'[i]
    BY <2>1, <2>2 DEF ResultInv, HasValid
  <2> QED BY <2>1, <2>2, <2>3 DEF Settled, Steady
<1> QED BY <1>1, <1>2 DEF Held

(* A batch of v leaves the receipts of the other versions. *)
LEMMA BatchHeld ==
  ASSUME LadderInv, StandingInv, NEW v \in Versions, NEW B \in SUBSET Intents,
         NEW A, Batched(v, B, A), NEW u \in Versions, u # v
  PROVE  Held(u) /\ best'[u] = best[u] /\ frontier'[u] = frontier[u]
         /\ \A i \in ValidReceipts(u) : public'[i] = public[i]
<1>1. ValidReceipts(u)' = ValidReceipts(u)
  <2>1. \A n : n \in ValidReceipts(u)' <=> n \in ValidReceipts(u)
    BY BatchReceipts
  <2> QED BY <2>1, Zenon
<1>2. best'[u] = best[u] /\ frontier'[u] = frontier[u]
  BY DEF Batched, LadderInv, TypeInv, TypeOK
<1>3. \A i \in ValidReceipts(u) : i \in Intents \ B
  BY ReceiptMerit DEF Batched
<1> QED BY <1>1, <1>2, <1>3 DEF Held, Batched

LEMMA HeldMerit ==
  ASSUME NEW v \in Versions, Held(v), NEW i \in ValidReceipts(v)
  PROVE  Merit(i)' = Merit(i)
  BY DEF Held, Merit

LEMMA HeldBest ==
  ASSUME LadderInv, StandingInv, NEW v \in Versions, Held(v), best'[v] = best[v], BestInv(v)
  PROVE  BestInv(v)'
<1>1. Base(v)' = Base(v)
  BY DEF Base
<1>2. ValidReceipts(v)' = ValidReceipts(v)
  BY DEF Held
<1>3. \A i \in ValidReceipts(v) : Merit(i)' = Merit(i) /\ sequence'[i] = sequence[i]
  BY HeldMerit DEF Held
<1>4. CASE best[v] = NULL
  BY <1>1, <1>2, <1>3, <1>4 DEF BestInv
<1>5. CASE best[v] # NULL
  BY <1>1, <1>2, <1>3, <1>5 DEF BestInv
<1> QED BY <1>4, <1>5

BestsInv == \A v \in Versions : BestInv(v)

LEMMA BestInvariant == Spec => []BestsInv
<1>1. Init => BestsInv
  BY DEF BestsInv, Init, BestInv, ValidReceipts
<1>2. ASSUME LadderInv, StandingInv, BestsInv, [Next]_vars
      PROVE  BestsInv'
  <2> SUFFICES ASSUME NEW v \in Versions PROVE BestInv(v)'
    BY DEF BestsInv
  <2>1. TypeInv /\ OrderInv /\ BestInv(v)
    BY <1>2 DEF LadderInv, BestsInv
  <2>2. ASSUME NEW i \in Intents, Adjudicate(i) PROVE BestInv(v)'
    <3>1. PICK B \in SUBSET Intents :
            \E A \in SUBSET Published(B) : Batched(VersionOf[i], B, A)
      BY <2>1, <2>2, AdjudicateBatched
    <3>2. PICK A : Batched(VersionOf[i], B, A)
      BY <3>1
    <3>3. CASE v = VersionOf[i]
      BY <1>2, <2>1, <3>2, <3>3, BatchBest
    <3>4. CASE v # VersionOf[i]
      <4>1. Held(v) /\ best'[v] = best[v]
        BY <1>2, <3>2, <3>4, VersionOfType, BatchHeld
      <4> QED BY <1>2, <2>1, <4>1, HeldBest
    <3> QED BY <3>3, <3>4
  <2>3. CASE Steady
    <3>1. Held(v) /\ best'[v] = best[v]
      BY <1>2, <2>3, NextLadderInv, NextStanding, SteadyHeld DEF Steady
    <3> QED BY <1>2, <2>1, <3>1, HeldBest
  <2> QED BY <1>2, <2>1, <2>2, <2>3, NextSteady
<1> QED BY <1>1, <1>2, LadderInvariant, StandingInvariant, PTL DEF Spec

(* The verified best is the earliest of the best valid receipts ahead of the  *)
(* baseline, for any metric, any number of submissions and any division of    *)
(* them into adjudication transactions (record in adjudicate).                *)
THEOREM BestIsEarliestBest == Spec => []VerifiedBest
<1>1. ASSUME LadderInv, StandingInv, BestsInv
      PROVE  VerifiedBest
  <2> SUFFICES ASSUME NEW v \in Versions
               PROVE  LET d == MetricOf[v].direction
                          ahead == {i \in ValidReceipts(v) :
                                      better(receipt[i].score, MetricOf[v].baseline, d)} IN
                      /\ best[v] = NULL <=> ahead = {}
                      /\ best[v] # NULL =>
                           /\ best[v] \in ahead
                           /\ \A j \in ahead \ {best[v]} :
                                \/ better(receipt[best[v]].score, receipt[j].score, d)
                                \/ /\ receipt[best[v]].score = receipt[j].score
                                   /\ sequence[best[v]] < sequence[j]
    BY DEF VerifiedBest
  <2> DEFINE d == MetricOf[v].direction
             ahead == {i \in ValidReceipts(v) :
                         better(receipt[i].score, MetricOf[v].baseline, d)}
  <2>1. d \in Direction /\ MetricOf[v].baseline \in Int
        /\ Base(v) = Worth(MetricOf[v].baseline, d) /\ Base(v) \in Int
    BY MetricFacts DEF Base
  <2>2. ASSUME NEW i \in ValidReceipts(v)
        PROVE  receipt[i].score \in Int /\ Merit(i) = Worth(receipt[i].score, d)
               /\ Merit(i) \in Int
    BY <1>1, ReceiptMerit
  <2>3. \A i \in ValidReceipts(v) : i \in ahead <=> Merit(i) > Base(v)
    BY <2>1, <2>2, WorthOrder
  <2>4. \A i, j \in ValidReceipts(v) :
          /\ better(receipt[i].score, receipt[j].score, d) <=> Merit(i) > Merit(j)
          /\ receipt[i].score = receipt[j].score <=> Merit(i) = Merit(j)
    BY <2>1, <2>2, WorthOrder
  <2>5. ahead \subseteq ValidReceipts(v)
    OBVIOUS
  <2>6. BestInv(v)
    BY <1>1 DEF BestsInv
  <2> HIDE DEF ahead, d
  <2>7. CASE best[v] = NULL
    <3>1. ahead = {}
      BY <2>1, <2>2, <2>3, <2>5, <2>6, <2>7 DEF BestInv
    <3> QED BY <2>7, <3>1 DEF ahead, d
  <2>8. CASE best[v] # NULL
    <3>1. best[v] \in ahead
      BY <2>3, <2>6, <2>8 DEF BestInv
    <3>2. \A j \in ahead \ {best[v]} :
            \/ better(receipt[best[v]].score, receipt[j].score, d)
            \/ receipt[best[v]].score = receipt[j].score /\ sequence[best[v]] < sequence[j]
      BY <2>4, <2>5, <2>6, <2>8, <3>1 DEF BestInv
    <3> QED BY <2>8, <3>1, <3>2 DEF ahead, d
  <2> QED BY <2>7, <2>8
<1> QED BY <1>1, LadderInvariant, StandingInvariant, BestInvariant, PTL

-----------------------------------------------------------------------------
(* The public frontier *)

(* Where the frontier of v stands *)
At(v) == IF frontier[v] = NULL THEN Base(v) ELSE Merit(frontier[v])

(* FrontierIsPublicBest, in one direction *)
FrontInv(v) ==
  /\ frontier[v] # NULL =>
       /\ frontier[v] \in ValidReceipts(v) /\ public[frontier[v]]
       /\ At(v) >= Base(v) + MetricOf[v].minimumDelta
  /\ \A i \in ValidReceipts(v) : public[i] => Merit(i) < At(v) + MetricOf[v].minimumDelta

LEMMA AtFacts ==
  ASSUME LadderInv, StandingInv, NEW v \in Versions, FrontInv(v)
  PROVE  /\ At(v) \in Int /\ TicksOf(v, frontier[v]) \in Int /\ At(v) >= Base(v)
         /\ At(v) = Worth(TicksOf(v, frontier[v]), MetricOf[v].direction)
<1>1. /\ MetricOf[v].baseline \in Int /\ MetricOf[v].minimumDelta \in Nat /\ Base(v) \in Int
      /\ Base(v) = Worth(MetricOf[v].baseline, MetricOf[v].direction)
  BY MetricFacts DEF Base
<1>2. CASE frontier[v] = NULL
  BY <1>1, <1>2 DEF At, TicksOf
<1>3. CASE frontier[v] # NULL
  <2>1. frontier[v] \in ValidReceipts(v) /\ At(v) >= Base(v) + MetricOf[v].minimumDelta
    BY <1>3 DEF FrontInv
  <2>2. /\ score[frontier[v]] \in Int /\ Merit(frontier[v]) \in Int
        /\ Merit(frontier[v]) = Worth(score[frontier[v]], MetricOf[v].direction)
    BY <2>1, ReceiptMerit
  <2> QED BY <1>1, <1>3, <2>1, <2>2 DEF At, TicksOf
<1> QED BY <1>2, <1>3

(* What the frontier of a batch ends at, and that nothing it publishes gains  *)
(* the minimum delta over that                                                *)
LEMMA BatchAdvance ==
  ASSUME LadderInv, StandingInv, NEW v \in Versions, NEW B \in SUBSET Intents,
         NEW A \in SUBSET Published(B), Batched(v, B, A), FrontInv(v)
  PROVE  /\ A = {} => /\ frontier'[v] = frontier[v]
                      /\ \A i \in Published(B) : Merit(i) < At(v) + MetricOf[v].minimumDelta
         /\ A # {} => /\ frontier'[v] \in A
                      /\ Merit(frontier'[v]) >= At(v) + MetricOf[v].minimumDelta
                      /\ \A i \in Published(B) :
                           Merit(i) < Merit(frontier'[v]) + MetricOf[v].minimumDelta
<1> DEFINE d == MetricOf[v].direction
           D == MetricOf[v].minimumDelta
           T == At(v)
           P == Published(B)
           f == [j \in P |-> Merit(j)]
           q == [j \in P |-> sequence[j]]
<1>1. d \in Direction /\ D \in Nat \ {0}
  BY MetricFacts
<1>2. T \in Int /\ TicksOf(v, frontier[v]) \in Int /\ T = Worth(TicksOf(v, frontier[v]), d)
  BY AtFacts
<1>3. ASSUME NEW j \in P
      PROVE  /\ Valid(j) /\ score[j] \in Int /\ Merit(j) \in Int /\ j \in Intents
             /\ Merit(j) = Worth(score[j], d) /\ VersionOf[j] = v
             /\ sequence[j] \in Nat /\ sequence[j] # 0 /\ sequence[j] > watermark[v]
  <2>1. j \in B /\ outcome[j] = "valid"
    BY DEF Published, Valid
  <2> QED BY <2>1, BatchMerit
<1>4. IsFiniteSet(P) /\ f \in [P -> Int] /\ q \in [P -> Int]
  <2>1. P \in SUBSET Intents
    BY <1>3
  <2> QED BY <1>3, <2>1, LadderAssumption, FS_Subset
<1>5. Ranked(P, f, q)
  <2>1. \A i, j \in P : q[i] = q[j] => i = j
    BY <1>3 DEF StandingInv, Distinct
  <2> QED BY <1>4, <2>1 DEF Ranked
<1>6. A \subseteq P /\ A \in SUBSET Intents
  BY <1>3
<1>7. ASSUME NEW S \in SUBSET A, S # {}
      PROVE  Latest(S) \in S /\ \A j \in S : q[j] <= q[Latest(S)]
  <2>1. Latest(S) \in S /\ \A j \in S : sequence[j] <= sequence[Latest(S)]
    BY <1>6, <1>7, LatestMember DEF LadderInv, TypeInv
  <2> QED BY <1>6, <2>1
<1> HIDE DEF T, d, D, P
<1>8. Gains(P, f, q, T, D, A)
  <2> SUFFICES ASSUME NEW i \in P
               PROVE  \E t \in Int :
                        /\ \/ t = T /\ \A a \in A : ~(q[a] < q[i])
                           \/ \E p \in A : /\ q[p] < q[i] /\ t = f[p]
                                          /\ \A a \in A : q[a] < q[i] => q[a] <= q[p]
                        /\ i \in A <=> f[i] >= t + D
    BY DEF Gains
  <2> DEFINE E == Before(A, i)
             prior == IF E = {} THEN TicksOf(v, frontier[v]) ELSE score[Latest(E)]
  <2>1. i \in A <=> meaningful(score[i], prior, MetricOf[v])
    BY DEF Batched, Advances, P
  <2>2. E \in SUBSET A /\ \A a \in A : a \in E <=> q[a] < q[i]
    BY <1>6 DEF Before
  <2>3. ASSUME prior \in Int
        PROVE  i \in A <=> f[i] >= Worth(prior, d) + D
    <3>1. i \in A <=> Gain(score[i], prior, d) >= D
      BY <2>1 DEF meaningful, d, D
    <3>2. Gain(score[i], prior, d) = Worth(score[i], d) - Worth(prior, d)
          /\ Worth(prior, d) \in Int
      BY <1>1, <1>3, <2>3, WorthOrder
    <3>3. f[i] = Worth(score[i], d) /\ f[i] \in Int
      BY <1>3
    <3> HIDE DEF f, prior
    <3> QED BY <1>1, <3>1, <3>2, <3>3
  <2>4. CASE E = {}
    <3>1. prior = TicksOf(v, frontier[v]) /\ \A a \in A : ~(q[a] < q[i])
      BY <2>2, <2>4
    <3>2. i \in A <=> f[i] >= T + D
      BY <1>2, <2>3, <3>1
    <3> QED BY <1>2, <3>1, <3>2
  <2>5. CASE E # {}
    <3>1. PICK p \in A : p = Latest(E) /\ p \in E /\ \A j \in E : q[j] <= q[p]
      BY <1>7, <2>2, <2>5
    <3>2. prior = score[p] /\ f[p] = Worth(prior, d) /\ prior \in Int /\ f[p] \in Int
      BY <1>3, <1>6, <2>5, <3>1
    <3>3. i \in A <=> f[i] >= f[p] + D
      BY <2>3, <3>2
    <3>4. q[p] < q[i] /\ \A a \in A : q[a] < q[i] => q[a] <= q[p]
      BY <2>2, <3>1
    <3> HIDE DEF f, q, prior, E
    <3> QED BY <3>2, <3>3, <3>4
  <2> QED BY <2>4, <2>5
<1>9. frontier'[v] = IF A = {} THEN frontier[v] ELSE Latest(A)
  BY DEF Batched, LadderInv, TypeInv, TypeOK
<1>10. /\ A = {} => \A i \in P : f[i] < T + D
       /\ \A l \in A : (\A a \in A : q[a] <= q[l]) =>
            f[l] >= T + D /\ \A i \in P : f[i] < f[l] + D
  <2> HIDE DEF f, q
  <2> QED BY <1>1, <1>2, <1>5, <1>6, <1>8, AdvanceChain
<1>11. A = {} => /\ frontier'[v] = frontier[v]
                 /\ \A i \in P : Merit(i) < T + D
  BY <1>9, <1>10
<1>12. A # {} => /\ frontier'[v] \in A /\ Merit(frontier'[v]) >= T + D
                 /\ \A i \in P : Merit(i) < Merit(frontier'[v]) + D
  <2> SUFFICES ASSUME A # {}
               PROVE  /\ frontier'[v] \in A /\ Merit(frontier'[v]) >= T + D
                      /\ \A i \in P : Merit(i) < Merit(frontier'[v]) + D
    OBVIOUS
  <2>1. PICK l \in A : l = Latest(A) /\ \A a \in A : q[a] <= q[l]
    BY <1>7
  <2>2. f[l] >= T + D /\ \A i \in P : f[i] < f[l] + D
    BY <1>10, <2>1
  <2> QED BY <1>6, <1>9, <2>1, <2>2
<1> QED BY <1>11, <1>12 DEF T, D, P

(* A batch leaves nothing public that gains the minimum delta. *)
LEMMA BatchFront ==
  ASSUME LadderInv, StandingInv, NEW v \in Versions, NEW B \in SUBSET Intents,
         NEW A \in SUBSET Published(B), Batched(v, B, A), FrontInv(v)
  PROVE  FrontInv(v)'
<1> DEFINE D == MetricOf[v].minimumDelta
           V == {j \in B : outcome[j] = "valid"}
<1>1. D \in Nat \ {0} /\ Base(v) \in Int /\ At(v) \in Int /\ At(v) >= Base(v)
  BY MetricFacts, AtFacts
<1>2. Published(B) \subseteq V /\ \A j \in V : j \in Published(B) <=> public'[j]
  <2>1. \A j \in V : Valid(j) /\ public'[j] = Publishes(B, j)
    BY BatchMerit DEF Batched
  <2> QED BY <2>1 DEF Published, Valid
<1>3. \A n : n \in ValidReceipts(v)' <=> n \in ValidReceipts(v) \/ n \in V
  BY BatchReceipts
<1>4. \A n \in ValidReceipts(v) : public'[n] = public[n] /\ Merit(n) \in Int
  <2> SUFFICES ASSUME NEW n \in ValidReceipts(v)
               PROVE  public'[n] = public[n] /\ Merit(n) \in Int
    OBVIOUS
  <2>1. n \in Intents /\ HasValid(n) /\ Merit(n) \in Int
    BY ReceiptMerit
  <2>2. n \notin B
    BY <2>1 DEF Batched, HasValid
  <2> QED BY <2>1, <2>2 DEF Batched
<1>5. \A j \in V : Merit(j) \in Int /\ j \in Intents
  BY BatchMerit
<1>6. (\A n : Merit(n)' = Merit(n)) /\ Base(v)' = Base(v)
  BY DEF Batched, Merit, Base
<1> HIDE DEF D, V
<1>7. CASE A = {}
  <2>1. frontier'[v] = frontier[v] /\ \A i \in Published(B) : Merit(i) < At(v) + D
    BY <1>7, BatchAdvance DEF D
  <2>2. At(v)' = At(v)
    BY <1>6, <2>1 DEF At
  <2>3. \A i \in ValidReceipts(v)' : public'[i] => Merit(i)' < At(v)' + D
    BY <1>2, <1>3, <1>4, <1>6, <2>1, <2>2 DEF FrontInv, D
  <2>4. frontier'[v] # NULL =>
          /\ frontier'[v] \in ValidReceipts(v)' /\ public'[frontier'[v]]
          /\ At(v)' >= Base(v)' + D
    BY <1>3, <1>4, <1>6, <2>1, <2>2 DEF FrontInv, D
  <2> QED BY <2>3, <2>4 DEF FrontInv, D
<1>8. CASE A # {}
  <2>1. PICK l \in A : /\ l = frontier'[v] /\ Merit(l) >= At(v) + D
                       /\ \A i \in Published(B) : Merit(i) < Merit(l) + D
    BY <1>8, BatchAdvance DEF D
  <2>2. l \in V /\ l # NULL /\ public'[l] /\ Merit(l) \in Int
    BY <1>2, <1>5, <2>1, LadderAssumption
  <2>3. At(v)' = Merit(l)
    BY <1>6, <2>1, <2>2 DEF At
  <2>4. \A i \in ValidReceipts(v) : public[i] => Merit(i) < Merit(l) + D
    <3> SUFFICES ASSUME NEW i \in ValidReceipts(v), public[i] PROVE Merit(i) < Merit(l) + D
      OBVIOUS
    <3>1. Merit(i) < At(v) + D /\ Merit(i) \in Int
      BY <1>4 DEF FrontInv, D
    <3> QED BY <1>1, <2>1, <2>2, <3>1
  <2>5. \A i \in ValidReceipts(v)' : public'[i] => Merit(i)' < At(v)' + D
    BY <1>2, <1>3, <1>4, <1>6, <2>1, <2>3, <2>4
  <2>6. Base(v)' = Base(v) /\ Merit(l) >= Base(v) + D
    BY <1>1, <1>6, <2>1, <2>2
  <2> QED BY <1>3, <2>1, <2>2, <2>3, <2>5, <2>6 DEF FrontInv, D
<1> QED BY <1>7, <1>8

(* A voluntary publication advances the frontier exactly when it must. *)
LEMMA PublishFront ==
  ASSUME LadderInv, StandingInv, NEW i \in Intents, PublishSubmission(i),
         FrontInv(VersionOf[i])
  PROVE  /\ FrontInv(VersionOf[i])'
         /\ frontier'[VersionOf[i]] # frontier[VersionOf[i]] =>
              /\ frontier'[VersionOf[i]] = i /\ score[i] \in Int
              /\ Merit(i) >= At(VersionOf[i]) + MetricOf[VersionOf[i]].minimumDelta
<1> DEFINE v == VersionOf[i]
           d == MetricOf[v].direction
           D == MetricOf[v].minimumDelta
<1>1. v \in Versions /\ ResultInv(i) /\ TypeInv
  BY VersionOfType DEF StandingInv, LadderInv
<1>2. /\ status[i] = "finalized" /\ outcome[i] = "valid"
      /\ frontier' = [frontier EXCEPT ![v] = FrontierAfterPublishing(v, i)]
      /\ public' = [public EXCEPT ![i] = TRUE]
      /\ UNCHANGED <<score, receipt>>
  BY DEF PublishSubmission
<1>3. i \in ValidReceipts(v)
  BY <1>1, <1>2 DEF ResultInv, LadderInv, OrderInv, ValidReceipts
<1> HIDE DEF v
<1>4. /\ d \in Direction /\ D \in Nat \ {0} /\ Base(v) \in Int
      /\ At(v) \in Int /\ TicksOf(v, frontier[v]) \in Int /\ At(v) >= Base(v)
      /\ At(v) = Worth(TicksOf(v, frontier[v]), d)
  BY <1>1, MetricFacts, AtFacts DEF v
<1>5. /\ \A n \in ValidReceipts(v) : n \in Intents /\ Merit(n) \in Int
      /\ score[i] \in Int /\ Merit(i) = Worth(score[i], d)
  BY <1>1, <1>3, ReceiptMerit
<1>6. /\ frontier'[v] = FrontierAfterPublishing(v, i) /\ public'[i]
      /\ \A n \in Intents : n # i => public'[n] = public[n]
  BY <1>1, <1>2 DEF TypeInv, TypeOK
<1>7. ValidReceipts(v)' = ValidReceipts(v) /\ Base(v)' = Base(v) /\ \A n : Merit(n)' = Merit(n)
  BY <1>2 DEF ValidReceipts, Base, Merit
<1>8. meaningful(score[i], TicksOf(v, frontier[v]), MetricOf[v]) <=> Merit(i) >= At(v) + D
  <2>1. Gain(score[i], TicksOf(v, frontier[v]), d) = Merit(i) - At(v)
    BY <1>4, <1>5, WorthOrder
  <2> QED BY <1>3, <1>4, <1>5, <2>1 DEF meaningful
<1>9. FrontInv(v)
  BY DEF v
<1> HIDE DEF d, D
<1>10. CASE Merit(i) >= At(v) + D
  <2>1. frontier'[v] = i /\ i # NULL
    BY <1>6, <1>8, <1>10, LadderAssumption DEF FrontierAfterPublishing
  <2>2. At(v)' = Merit(i)
    BY <1>7, <2>1 DEF At
  <2>3. \A n \in ValidReceipts(v) : public'[n] => Merit(n) < Merit(i) + D
    <3> SUFFICES ASSUME NEW n \in ValidReceipts(v), public'[n] PROVE Merit(n) < Merit(i) + D
      OBVIOUS
    <3>1. n = i \/ public[n]
      BY <1>5, <1>6
    <3>2. Merit(n) \in Int /\ Merit(i) \in Int /\ D \in Nat \ {0} /\ At(v) \in Int
      BY <1>3, <1>4, <1>5
    <3>3. CASE n = i
      BY <3>2, <3>3
    <3>4. CASE public[n]
      <4>1. Merit(n) < At(v) + D
        BY <1>9, <3>4 DEF FrontInv, D
      <4> QED BY <1>10, <3>2, <4>1
    <3> QED BY <3>1, <3>3, <3>4
  <2>4. Merit(i) >= Base(v) + D
    BY <1>3, <1>4, <1>5, <1>10
  <2>5. FrontInv(v)'
    BY <1>3, <1>6, <1>7, <2>1, <2>2, <2>3, <2>4 DEF FrontInv, D
  <2> QED BY <1>5, <1>10, <2>1, <2>5 DEF v, D
<1>11. CASE ~(Merit(i) >= At(v) + D)
  <2>1. frontier'[v] = frontier[v]
    BY <1>6, <1>8, <1>11 DEF FrontierAfterPublishing
  <2>2. At(v)' = At(v)
    BY <1>7, <2>1 DEF At
  <2>3. ASSUME NEW n \in ValidReceipts(v), public'[n]
        PROVE  Merit(n) < At(v) + D
    <3>1. CASE n = i
      BY <1>3, <1>4, <1>5, <1>11, <3>1
    <3>2. CASE n # i
      <4>1. public[n]
        BY <1>5, <1>6, <2>3, <3>2
      <4> QED BY <1>9, <4>1 DEF FrontInv, D
    <3> QED BY <3>1, <3>2
  <2>4. FrontInv(v)'
    BY <1>5, <1>6, <1>7, <1>9, <2>1, <2>2, <2>3 DEF FrontInv, D
  <2> QED BY <2>1, <2>4 DEF v, D
<1> QED BY <1>10, <1>11

(* Nothing happens to the frontier of v. *)
LEMMA HeldFront ==
  ASSUME LadderInv, StandingInv, NEW v \in Versions, Held(v), frontier'[v] = frontier[v],
         \A i \in ValidReceipts(v) : public'[i] = public[i], FrontInv(v)
  PROVE  FrontInv(v)'
<1>1. Base(v)' = Base(v) /\ ValidReceipts(v)' = ValidReceipts(v)
  BY DEF Base, Held
<1>2. \A i \in ValidReceipts(v) : Merit(i)' = Merit(i)
  BY HeldMerit
<1>3. CASE frontier[v] = NULL
  BY <1>1, <1>2, <1>3 DEF FrontInv, At
<1>4. CASE frontier[v] # NULL
  <2>1. frontier[v] \in ValidReceipts(v) /\ At(v)' = At(v)
    BY <1>2, <1>4 DEF FrontInv, At
  <2> QED BY <1>1, <1>2, <1>4, <2>1 DEF FrontInv
<1> QED BY <1>3, <1>4

FrontsInv == \A v \in Versions : FrontInv(v)

(* The frontier of v moves only to a valid result, by the minimum delta. *)
Moved(v) ==
  frontier'[v] # frontier[v] =>
    /\ frontier'[v] \in Intents /\ score[frontier'[v]] \in Int
    /\ VersionOf[frontier'[v]] = v /\ score'[frontier'[v]] = score[frontier'[v]]
    /\ Merit(frontier'[v]) >= At(v) + MetricOf[v].minimumDelta

LEMMA NextFront ==
  ASSUME LadderInv, StandingInv, FrontsInv, [Next]_vars, NEW v \in Versions
  PROVE  FrontInv(v)' /\ Moved(v)
<1>1. TypeInv /\ OrderInv /\ FrontInv(v)
  BY DEF LadderInv, FrontsInv
<1>2. ASSUME NEW i \in Intents, Adjudicate(i) PROVE FrontInv(v)' /\ Moved(v)
  <2>1. PICK B \in SUBSET Intents :
          \E A \in SUBSET Published(B) : Batched(VersionOf[i], B, A)
    BY <1>1, <1>2, AdjudicateBatched
  <2>2. PICK A \in SUBSET Published(B) : Batched(VersionOf[i], B, A)
    BY <2>1
  <2>3. CASE v = VersionOf[i]
    <3>1. Batched(v, B, A)
      BY <2>2, <2>3
    <3>2. FrontInv(v)'
      BY <1>1, <3>1, BatchFront
    <3>3. frontier'[v] # frontier[v] =>
            frontier'[v] \in A /\ Merit(frontier'[v]) >= At(v) + MetricOf[v].minimumDelta
      BY <1>1, <3>1, BatchAdvance
    <3>4. \A j \in A : j \in Intents /\ score[j] \in Int /\ VersionOf[j] = v
      <4>1. \A j \in A : j \in B /\ outcome[j] = "valid"
        BY DEF Published, Valid
      <4> QED BY <3>1, <4>1, BatchMerit
    <3>5. score' = score
      BY <3>1 DEF Batched
    <3> QED BY <3>2, <3>3, <3>4, <3>5 DEF Moved
  <2>4. CASE v # VersionOf[i]
    <3>1. /\ Held(v) /\ frontier'[v] = frontier[v]
          /\ \A n \in ValidReceipts(v) : public'[n] = public[n]
      BY <2>2, <2>4, VersionOfType, BatchHeld
    <3> QED BY <1>1, <3>1, HeldFront DEF Moved
  <2> QED BY <2>3, <2>4
<1>3. CASE Steady
  <2>1. Held(v)
    BY <1>3, NextLadderInv, NextStanding, SteadyHeld
  <2>2. CASE UNCHANGED <<frontier, public>>
    BY <1>1, <2>1, <2>2, HeldFront DEF Moved
  <2>3. ASSUME NEW i \in Intents, PublishSubmission(i)
        PROVE  FrontInv(v)' /\ Moved(v)
    <3>1. CASE v = VersionOf[i]
      <4>1. score' = score
        BY <2>3 DEF PublishSubmission
      <4> QED BY <1>1, <2>3, <3>1, <4>1, PublishFront DEF Moved
    <3>2. CASE v # VersionOf[i]
      <4>1. frontier'[v] = frontier[v]
        BY <1>1, <2>3, <3>2 DEF PublishSubmission, TypeInv, TypeOK
      <4>2. \A n \in ValidReceipts(v) : public'[n] = public[n]
        <5>1. \A n \in ValidReceipts(v) : n \in Intents /\ n # i
          BY <3>2 DEF ValidReceipts
        <5>2. \A n \in Intents : n # i => public'[n] = public[n]
          BY <1>1, <2>3 DEF PublishSubmission, TypeInv, TypeOK
        <5> QED BY <5>1, <5>2
      <4> QED BY <1>1, <2>1, <4>1, <4>2, HeldFront DEF Moved
    <3> QED BY <3>1, <3>2
  <2> QED BY <1>3, <2>2, <2>3 DEF Steady
<1> QED BY <1>1, <1>2, <1>3, NextSteady

LEMMA FrontInvariant == Spec => []FrontsInv
<1>1. Init => FrontsInv
  BY DEF Init, FrontsInv, FrontInv, ValidReceipts
<1>2. ASSUME LadderInv, StandingInv, FrontsInv, [Next]_vars
      PROVE  FrontsInv'
  <2>1. \A v \in Versions : FrontInv(v)'
    BY <1>2, NextFront
  <2> QED BY <2>1 DEF FrontsInv
<1> QED BY <1>1, <1>2, LadderInvariant, StandingInvariant, PTL DEF Spec

(* The public frontier is a public valid result ahead of the baseline, never  *)
(* better than the verified best, and no public result is a meaningful        *)
(* improvement over it, for any order of adjudications and voluntary          *)
(* publications (adjudicate, publishSubmission).                              *)
THEOREM FrontierIsBestPublic == Spec => []FrontierIsPublicBest
<1>1. ASSUME LadderInv, StandingInv, BestsInv, FrontsInv
      PROVE  FrontierIsPublicBest
  <2> SUFFICES ASSUME NEW v \in Versions
               PROVE  LET m == MetricOf[v]
                          at == IF frontier[v] = NULL THEN m.baseline
                                                      ELSE receipt[frontier[v]].score IN
                      /\ frontier[v] # NULL =>
                           /\ frontier[v] \in ValidReceipts(v) /\ public[frontier[v]]
                           /\ meaningful(at, m.baseline, m)
                           /\ best[v] # NULL
                           /\ ~better(at, receipt[best[v]].score, m.direction)
                      /\ \A i \in ValidReceipts(v) :
                           public[i] => ~meaningful(receipt[i].score, at, m)
    BY DEF FrontierIsPublicBest
  <2> DEFINE m == MetricOf[v]
             d == m.direction
             D == m.minimumDelta
             at == IF frontier[v] = NULL THEN m.baseline ELSE receipt[frontier[v]].score
  <2>1. FrontInv(v) /\ BestInv(v)
    BY <1>1 DEF FrontsInv, BestsInv
  <2>2. /\ d \in Direction /\ m.baseline \in Int /\ D \in Nat \ {0} /\ Base(v) \in Int
        /\ Base(v) = Worth(m.baseline, d)
    BY MetricFacts DEF Base
  <2>3. ASSUME NEW i \in ValidReceipts(v)
        PROVE  /\ receipt[i].score \in Int /\ receipt[i].score = score[i]
               /\ Merit(i) = Worth(receipt[i].score, d) /\ Merit(i) \in Int
    BY <1>1, ReceiptMerit
  <2>4. at \in Int /\ at = TicksOf(v, frontier[v])
    BY <2>1, <2>2, <2>3 DEF FrontInv, TicksOf
  <2>5. At(v) \in Int /\ At(v) = Worth(at, d)
    BY <1>1, <2>1, <2>4, AtFacts
  <2> HIDE DEF at, m, d, D
  <2>6. ASSUME NEW i \in ValidReceipts(v), public[i]
        PROVE  ~meaningful(receipt[i].score, at, m)
    <3>1. Merit(i) < At(v) + D
      BY <2>1, <2>6 DEF FrontInv, D, m
    <3>2. Gain(receipt[i].score, at, d) = Merit(i) - At(v)
      BY <2>2, <2>3, <2>4, <2>5, WorthOrder
    <3>3. ~(Gain(receipt[i].score, at, d) >= D)
      BY <2>2, <2>3, <2>5, <3>1, <3>2
    <3> QED BY <3>3 DEF meaningful, d, D
  <2>7. ASSUME frontier[v] # NULL
        PROVE  /\ frontier[v] \in ValidReceipts(v) /\ public[frontier[v]]
               /\ meaningful(at, m.baseline, m)
               /\ best[v] # NULL /\ ~better(at, receipt[best[v]].score, d)
    <3>1. /\ frontier[v] \in ValidReceipts(v) /\ public[frontier[v]]
          /\ At(v) >= Base(v) + D
      BY <2>1, <2>7 DEF FrontInv, D, m
    <3>2. meaningful(at, m.baseline, m)
      <4>1. Gain(at, m.baseline, d) = At(v) - Base(v)
        BY <2>2, <2>4, <2>5, WorthOrder
      <4>2. Gain(at, m.baseline, d) >= D
        BY <2>2, <2>5, <3>1, <4>1
      <4> QED BY <4>2 DEF meaningful, d, D
    <3>3. At(v) = Merit(frontier[v]) /\ Merit(frontier[v]) > Base(v)
      BY <2>2, <2>5, <2>7, <3>1 DEF At
    <3>4. best[v] # NULL
      BY <2>1, <2>2, <2>3, <3>1, <3>3 DEF BestInv
    <3>5. best[v] \in ValidReceipts(v) /\ Merit(best[v]) >= At(v)
      <4>1. best[v] \in ValidReceipts(v) /\ Merit(best[v]) \in Int
        BY <2>1, <2>3, <3>4 DEF BestInv
      <4>2. frontier[v] = best[v] \/ Merit(best[v]) > Merit(frontier[v])
              \/ Merit(best[v]) = Merit(frontier[v])
        BY <2>1, <3>1, <3>4 DEF BestInv
      <4> QED BY <2>5, <3>3, <4>1, <4>2
    <3>6. ~better(at, receipt[best[v]].score, d)
      BY <2>2, <2>3, <2>4, <2>5, <3>5, WorthOrder
    <3> QED BY <3>1, <3>2, <3>4, <3>6
  <2> QED BY <2>6, <2>7 DEF at, m, d
<1> QED BY <1>1, LadderInvariant, StandingInvariant, BestInvariant, FrontInvariant, PTL

(* The frontier moves only by a gain of at least the minimum delta over where *)
(* it stood, in a batch of any size and in a voluntary publication however    *)
(* late (adjudicate, publishSubmission).                                      *)
THEOREM FrontierOnlyAdvances == Spec => FrontierMonotone
<1>1. ASSUME LadderInv, StandingInv, FrontsInv, [Next]_vars
      PROVE  [\A v \in Versions : frontier'[v] # frontier[v] =>
                Gain(score'[frontier'[v]],
                     IF frontier[v] = NULL THEN MetricOf[v].baseline
                                           ELSE score[frontier[v]],
                     MetricOf[v].direction) >= MetricOf[v].minimumDelta]_vars
  <2> SUFFICES ASSUME NEW v \in Versions, frontier'[v] # frontier[v]
               PROVE  Gain(score'[frontier'[v]], TicksOf(v, frontier[v]),
                           MetricOf[v].direction) >= MetricOf[v].minimumDelta
    BY DEF TicksOf
  <2> DEFINE n == frontier'[v]
             d == MetricOf[v].direction
             D == MetricOf[v].minimumDelta
  <2>1. /\ score[n] \in Int /\ VersionOf[n] = v /\ score'[n] = score[n]
        /\ Merit(n) >= At(v) + D
    BY <1>1, NextFront DEF Moved
  <2>2. /\ At(v) \in Int /\ TicksOf(v, frontier[v]) \in Int
        /\ At(v) = Worth(TicksOf(v, frontier[v]), d)
    BY <1>1, AtFacts DEF FrontsInv
  <2>3. d \in Direction /\ D \in Nat
    BY MetricFacts
  <2>4. Merit(n) = Worth(score[n], d)
    BY <2>1 DEF Merit
  <2> HIDE DEF n, d, D
  <2>5. Gain(score[n], TicksOf(v, frontier[v]), d) = Merit(n) - At(v) /\ Merit(n) \in Int
    BY <2>1, <2>2, <2>3, <2>4, WorthOrder
  <2>6. Gain(score[n], TicksOf(v, frontier[v]), d) >= D
    BY <2>1, <2>2, <2>3, <2>5
  <2> QED BY <2>1, <2>6 DEF n, d, D
<1> QED BY <1>1, LadderInvariant, StandingInvariant, FrontInvariant, PTL
       DEF Spec, FrontierMonotone

-----------------------------------------------------------------------------
(* Milestones *)

(* A receipt that names a milestone holds it. *)
ReceiptsHold ==
  \A i \in Intents, m \in Milestones :
    receipt[i] # NULL /\ m \in receipt[i].milestones => claim[m] = i

(* FirstCrosserClaims, for one version *)
CrossInv(v) ==
  \A m \in DOMAIN Threshold[v] :
    /\ \A i \in ValidReceipts(v) : m \in Crossed(i) => claim[m] # NULL
    /\ claim[m] # NULL /\ VersionOf[claim[m]] = v =>
         /\ claim[m] \in ValidReceipts(v) /\ m \in Crossed(claim[m])
         /\ \A j \in ValidReceipts(v) :
              m \in Crossed(j) => sequence[claim[m]] <= sequence[j]

MilestoneInv == ReceiptsHold /\ \A v \in Versions : CrossInv(v)

LEMMA MilestoneType ==
  ASSUME NEW v \in Versions, NEW m \in DOMAIN Threshold[v]
  PROVE  m \in Milestones
  BY LadderAssumption

(* A batch gives an unclaimed milestone to the first of it that crosses it,   *)
(* and only that one's receipt names it.                                      *)
LEMMA BatchClaims ==
  ASSUME LadderInv, StandingInv, NEW v \in Versions, NEW B \in SUBSET Intents,
         NEW A, Batched(v, B, A), NEW m \in Milestones
  PROVE  /\ claim[m] # NULL => claim'[m] = claim[m]
         /\ claim[m] = NULL =>
              \/ claim'[m] = NULL /\ \A j \in B : m \notin Crossed(j)
              \/ /\ claim'[m] \in B /\ m \in Crossed(claim'[m])
                 /\ \A j \in B : m \in Crossed(j) => sequence[claim'[m]] <= sequence[j]
         /\ \A j \in B : m \in Claims(B, j) => claim'[m] = j
<1> DEFINE K == {j \in B : m \in Claims(B, j)}
<1>1. claim'[m] = IF \E j \in B : m \in Claims(B, j)
                  THEN CHOOSE j \in B : m \in Claims(B, j) ELSE claim[m]
  BY DEF Batched
<1>2. \A j \in B : /\ j \in Intents /\ VersionOf[j] = v
                   /\ sequence[j] \in Nat /\ sequence[j] # 0
  BY DEF Batched, LadderInv, TypeInv, TypeOK
<1>3. \A j \in B : m \in Claims(B, j) <=>
        /\ m \in Crossed(j) /\ claim[m] = NULL
        /\ \A k \in B : sequence[k] < sequence[j] => m \notin Crossed(k)
  BY DEF Claims, Before
<1>4. \A j, k \in B : m \in Claims(B, j) /\ m \in Claims(B, k) => j = k
  <2> SUFFICES ASSUME NEW j \in B, NEW k \in B, m \in Claims(B, j), m \in Claims(B, k)
               PROVE  j = k
    OBVIOUS
  <2>1. ~(sequence[j] < sequence[k]) /\ ~(sequence[k] < sequence[j])
    BY <1>3
  <2>2. sequence[j] = sequence[k]
    BY <1>2, <2>1
  <2> QED BY <1>2, <2>2 DEF StandingInv, Distinct
<1>5. ASSUME NEW j \in B, m \in Claims(B, j) PROVE claim'[m] = j
  <2>1. claim'[m] \in B /\ m \in Claims(B, claim'[m])
    BY <1>1, <1>5
  <2> QED BY <1>4, <1>5, <2>1
<1>6. ASSUME claim[m] # NULL PROVE claim'[m] = claim[m]
  BY <1>1, <1>3, <1>6
<1>7. ASSUME claim[m] = NULL, NEW n \in B, m \in Crossed(n)
      PROVE  /\ claim'[m] \in B /\ m \in Crossed(claim'[m])
             /\ \A j \in B : m \in Crossed(j) => sequence[claim'[m]] <= sequence[j]
  <2> DEFINE S == {j \in B : m \in Crossed(j)}
             q == [j \in S |-> sequence[j]]
  <2>1. IsFiniteSet(S) /\ S # {} /\ q \in [S -> Int]
    <3>1. S \in SUBSET Intents
      OBVIOUS
    <3>2. IsFiniteSet(S)
      BY <3>1, LadderAssumption, FS_Subset
    <3> QED BY <1>2, <1>7, <3>2
  <2>2. PICK e \in S : \A j \in S : q[e] <= q[j]
    <3> HIDE DEF S, q
    <3> QED BY <2>1, EarliestExists
  <2>3. e \in B /\ m \in Crossed(e) /\ \A j \in B : m \in Crossed(j) => sequence[e] <= sequence[j]
    BY <2>2
  <2>4. m \in Claims(B, e)
    BY <1>2, <1>3, <1>7, <2>3
  <2>5. claim'[m] = e
    BY <1>5, <2>3, <2>4
  <2> QED BY <2>3, <2>5
<1>8. ASSUME claim[m] = NULL, \A j \in B : m \notin Crossed(j)
      PROVE  claim'[m] = NULL
  BY <1>1, <1>3, <1>8
<1> QED BY <1>5, <1>6, <1>7, <1>8

(* What crosses a milestone is a valid result of the milestone's version. *)
LEMMA CrossedFacts ==
  ASSUME NEW i \in Intents, NEW m \in Crossed(i)
  PROVE  m \in DOMAIN Threshold[VersionOf[i]] /\ outcome[i] = "valid"
  BY DEF Crossed, Valid

LEMMA BatchMilestones ==
  ASSUME LadderInv, StandingInv, NEW v \in Versions, NEW B \in SUBSET Intents,
         NEW A, Batched(v, B, A), MilestoneInv
  PROVE  MilestoneInv'
<1>1. \A n : Crossed(n)' = Crossed(n) /\ sequence'[n] = sequence[n]
  BY DEF Batched, Crossed, Valid, ConfirmedAchievement
<1>2. ASSUME NEW i \in Intents, NEW m \in Milestones,
             receipt'[i] # NULL, m \in receipt'[i].milestones
      PROVE  claim'[m] = i
  <2>1. CASE i \in B
    <3>1. m \in Claims(B, i)
      BY <1>2, <2>1 DEF Batched
    <3> QED BY <2>1, <3>1, BatchClaims
  <2>2. CASE i \notin B
    <3>1. claim[m] = i /\ i # NULL
      BY <1>2, <2>2, LadderAssumption DEF Batched, MilestoneInv, ReceiptsHold
    <3> QED BY <3>1, BatchClaims
  <2> QED BY <2>1, <2>2
<1>3. ASSUME NEW u \in Versions, NEW m \in DOMAIN Threshold[u]
      PROVE  /\ \A i \in ValidReceipts(u)' : m \in Crossed(i) => claim'[m] # NULL
             /\ claim'[m] # NULL /\ VersionOf[claim'[m]] = u =>
                  /\ claim'[m] \in ValidReceipts(u)' /\ m \in Crossed(claim'[m])
                  /\ \A j \in ValidReceipts(u)' :
                       m \in Crossed(j) => sequence[claim'[m]] <= sequence[j]
  <2>1. m \in Milestones
    BY <1>3, MilestoneType
  <2>2. \A n : n \in ValidReceipts(u)' <=>
                 n \in ValidReceipts(u) \/ (u = v /\ n \in B /\ outcome[n] = "valid")
    BY BatchReceipts
  <2>3. /\ \A i \in ValidReceipts(u) : m \in Crossed(i) => claim[m] # NULL
        /\ claim[m] # NULL /\ VersionOf[claim[m]] = u =>
             /\ claim[m] \in ValidReceipts(u) /\ m \in Crossed(claim[m])
             /\ \A j \in ValidReceipts(u) :
                  m \in Crossed(j) => sequence[claim[m]] <= sequence[j]
    BY DEF MilestoneInv, CrossInv
  <2>4. \A j \in B : /\ j \in Intents /\ VersionOf[j] = v /\ j # NULL
                     /\ sequence[j] \in Nat /\ sequence[j] > watermark[v]
    BY LadderAssumption DEF Batched, LadderInv, TypeInv, TypeOK
  <2>5. CASE claim[m] # NULL
    <3>1. PICK c : c = claim[m] /\ claim'[m] = c
      BY <2>1, <2>5, BatchClaims
    <3>2. ASSUME VersionOf[c] = u, NEW j \in B, u = v
          PROVE  sequence[c] <= sequence[j]
      <4>1. c \in ValidReceipts(v)
        BY <2>3, <2>5, <3>1, <3>2
      <4>2. sequence[c] \in Nat /\ sequence[c] <= watermark[v] /\ watermark[v] \in Nat
        BY <4>1, ReceiptMerit DEF LadderInv, TypeInv, TypeOK
      <4> QED BY <2>4, <4>2
    <3> QED BY <2>2, <2>3, <2>5, <3>1, <3>2
  <2>6. CASE claim[m] = NULL
    <3>1. \A j \in ValidReceipts(u) : m \notin Crossed(j)
      BY <2>3, <2>6
    <3>2. CASE claim'[m] = NULL /\ \A j \in B : m \notin Crossed(j)
      BY <2>2, <3>1, <3>2
    <3>3. CASE /\ claim'[m] \in B /\ m \in Crossed(claim'[m])
               /\ \A j \in B : m \in Crossed(j) => sequence[claim'[m]] <= sequence[j]
      <4>1. PICK c \in B : c = claim'[m] /\ m \in Crossed(c)
        BY <3>3
      <4>2. c # NULL /\ VersionOf[c] = v /\ outcome[c] = "valid"
        BY <2>4, <4>1, CrossedFacts
      <4> QED BY <2>2, <3>1, <3>3, <4>1, <4>2
    <3> QED BY <2>1, <2>6, <3>2, <3>3, BatchClaims
  <2> QED BY <2>5, <2>6
<1>4. ReceiptsHold'
  BY <1>2 DEF ReceiptsHold
<1>5. \A u \in Versions : CrossInv(u)'
  <2> SUFFICES ASSUME NEW u \in Versions PROVE CrossInv(u)'
    OBVIOUS
  <2> QED BY <1>1, <1>3 DEF CrossInv
<1> QED BY <1>4, <1>5 DEF MilestoneInv

LEMMA SteadyMilestones ==
  ASSUME LadderInv, StandingInv, Steady, \A v \in Versions : Held(v), MilestoneInv
  PROVE  MilestoneInv'
<1>1. claim' = claim /\ receipt' = receipt
  BY DEF Steady
<1>2. ReceiptsHold'
  BY <1>1 DEF MilestoneInv, ReceiptsHold
<1>3. ASSUME NEW v \in Versions PROVE CrossInv(v)'
  <2>1. ValidReceipts(v)' = ValidReceipts(v) /\ CrossInv(v)
    BY DEF Held, MilestoneInv
  <2>2. \A i \in ValidReceipts(v) : Crossed(i)' = Crossed(i) /\ sequence'[i] = sequence[i]
    BY DEF Held, Crossed, Valid, ConfirmedAchievement
  <2> QED BY <1>1, <2>1, <2>2 DEF CrossInv
<1> QED BY <1>2, <1>3 DEF MilestoneInv

LEMMA MilestoneInvariant == Spec => []MilestoneInv
<1>1. Init => MilestoneInv
  <2> SUFFICES ASSUME Init PROVE MilestoneInv
    OBVIOUS
  <2>1. ReceiptsHold
    BY DEF Init, ReceiptsHold
  <2>2. \A v \in Versions : CrossInv(v)
    BY MilestoneType DEF Init, CrossInv, ValidReceipts
  <2> QED BY <2>1, <2>2 DEF MilestoneInv
<1>2. ASSUME LadderInv, StandingInv, MilestoneInv, [Next]_vars
      PROVE  MilestoneInv'
  <2>1. ASSUME NEW i \in Intents, Adjudicate(i) PROVE MilestoneInv'
    <3>1. PICK B \in SUBSET Intents :
            \E A \in SUBSET Published(B) : Batched(VersionOf[i], B, A)
      BY <1>2, <2>1, AdjudicateBatched DEF LadderInv
    <3>2. PICK A : Batched(VersionOf[i], B, A)
      BY <3>1
    <3> QED BY <1>2, <3>2, VersionOfType, BatchMilestones
  <2>2. CASE Steady
    <3>1. \A v \in Versions : Held(v)
      BY <1>2, <2>2, NextLadderInv, NextStanding, SteadyHeld
    <3> QED BY <1>2, <2>2, <3>1, SteadyMilestones
  <2> QED BY <1>2, <2>1, <2>2, NextSteady DEF LadderInv
<1> QED BY <1>1, <1>2, LadderInvariant, StandingInvariant, PTL DEF Spec

(* A milestone belongs to the first accepted submission that crosses it with  *)
(* its required properties shown, only that submission's receipt names it,    *)
(* and a crossed milestone is claimed, however many crossing receipts one     *)
(* transaction adjudicates and however many versions map the milestone        *)
(* (adjudicate, ConfirmedAchievement).                                        *)
THEOREM FirstCrosserHoldsMilestone == Spec => []FirstCrosserClaims
<1>1. ASSUME LadderInv, StandingInv, MilestoneInv
      PROVE  FirstCrosserClaims
  <2> DEFINE shown(v, i, m) == m \in Requires[v] =>
               m \in job[i]["submission"].meets \cap job[i]["confirmation"].meets
             cross(v, m) == {i \in ValidReceipts(v) :
               /\ shown(v, i, m)
               /\ crosses(receipt[i].score, Threshold[v][m], MetricOf[v].direction)}
  <2>1. ASSUME NEW v \in Versions, NEW m \in DOMAIN Threshold[v], NEW i \in ValidReceipts(v)
        PROVE  m \in Crossed(i) <=> i \in cross(v, m)
    <3>1. /\ i \in Intents /\ VersionOf[i] = v /\ outcome[i] = "valid"
          /\ score[i] \in Int /\ receipt[i].score = score[i]
      BY <1>1, ReceiptMerit
    <3>2. Valid(i)
      BY <3>1, LadderAssumption DEF Valid
    <3>3. ConfirmedAchievement(i, m) <=> shown(v, i, m)
      BY <3>1 DEF ConfirmedAchievement, Purposes
    <3> HIDE DEF shown
    <3> QED BY <3>1, <3>2, <3>3 DEF Crossed
  <2>2. \A v \in Versions : \A m \in DOMAIN Threshold[v] : cross(v, m) \subseteq ValidReceipts(v)
    OBVIOUS
  <2> HIDE DEF cross
  <2>3. ASSUME NEW v \in Versions, NEW m \in DOMAIN Threshold[v]
        PROVE  /\ cross(v, m) # {} => claim[m] # NULL
               /\ \A i \in Intents : receipt[i] # NULL /\ m \in receipt[i].milestones
                                      => claim[m] = i
               /\ claim[m] # NULL /\ VersionOf[claim[m]] = v =>
                    /\ claim[m] \in cross(v, m)
                    /\ \A j \in cross(v, m) : sequence[claim[m]] <= sequence[j]
    <3>1. m \in Milestones /\ CrossInv(v) /\ ReceiptsHold
      BY <1>1, MilestoneType DEF MilestoneInv
    <3> QED BY <2>1, <2>2, <3>1 DEF CrossInv, ReceiptsHold
  <2> QED BY <2>3 DEF FirstCrosserClaims, cross
<1> QED BY <1>1, LadderInvariant, StandingInvariant, MilestoneInvariant, PTL

-----------------------------------------------------------------------------
(* No wakeup is lost *)

(* No run of i is still to come or to be decided, and it had one. *)
Over(i) == /\ job[i]["submission"].status \notin Unfinal \cup {"none"}
           /\ job[i]["confirmation"].status \notin Unfinal

(* Where the runs and tasks of a receipt are, by its status: the adjudication *)
(* task is inserted when its runs are over and not before, and it is not used *)
(* up while the receipt is the next one and ready.                            *)
Course(i) ==
  LET a == job[i]["submission"].status
      b == job[i]["confirmation"].status IN
  /\ status[i] \in {"none", "accepted"} => a = "none" /\ b = "none"
  /\ status[i] = "accepted" => task["validate_submission"][i] = "queued"
  /\ status[i] = "queued" => a \in Unfinal /\ b = "none"
  /\ status[i] = "confirmation_running" => a = "complete" /\ b \in Unfinal
  /\ status[i] \in {"challenge_fault", "validated", "finalized"} => Over(i)
  /\ status[i] \notin {"validated", "finalized"} => task["adjudicate"][i] = "none"
  /\ status[i] = "validated" /\ sequence[i] = watermark[VersionOf[i]] + 1
       => task["adjudicate"][i] = "queued"

(* A receipt that was resolved after its runs: it can not be opened again. *)
Closed(i) == /\ outcome[i] = "challenge_unscorable"
             /\ status[i] \in {"validated", "finalized"} /\ Over(i)

(* A resolved version keeps such a receipt, the one whose checker faulted. *)
CourseInv ==
  /\ \A i \in Intents : Unresolved(VersionOf[i]) => Course(i)
  /\ \A v \in Versions : Unresolved(v) \/ \E i \in Intents : VersionOf[i] = v /\ Closed(i)

LEMMA InitCourse == Init => CourseInv
<1> SUFFICES ASSUME Init PROVE CourseInv
  OBVIOUS
<1>1. \A i \in Intents : Course(i)
  BY DEF Init, Course, NoJob, Purposes, TaskKinds
<1>2. \A v \in Versions : Unresolved(v)
  BY DEF Init, Unresolved
<1> QED BY <1>1, <1>2 DEF CourseInv

(* A step leaves the row, the runs and the tasks of n alone. *)
Same(n) ==
  /\ status'[n] = status[n] /\ outcome'[n] = outcome[n] /\ job'[n] = job[n]
  /\ sequence'[n] = sequence[n]
  /\ \A k \in TaskKinds : task'[k][n] = task[k][n]

LEMMA SameCourse ==
  ASSUME NEW n, Same(n), watermark'[VersionOf[n]] = watermark[VersionOf[n]]
  PROVE  (Course(n) => Course(n)') /\ (Closed(n) => Closed(n)')
<1>1. "validate_submission" \in TaskKinds /\ "adjudicate" \in TaskKinds
  BY DEF TaskKinds
<1> QED BY <1>1 DEF Same, Course, Closed, Over

(* A step that concerns one receipt and resolves nothing *)
LEMMA OneCourse ==
  ASSUME CourseInv, NEW i \in Intents, UNCHANGED watermark,
         \A n \in Intents : n # i => Same(n),
         outcome'[i] = outcome[i] \/ outcome'[i] # "challenge_unscorable",
         Closed(i) => Closed(i)', Course(i) => Course(i)'
  PROVE  CourseInv'
<1>1. \A n \in Intents : (Course(n) => Course(n)') /\ (Closed(n) => Closed(n)')
  BY SameCourse
<1>2. \A n \in Intents : outcome'[n] = "challenge_unscorable" => outcome[n] = "challenge_unscorable"
  BY DEF Same
<1>3. ASSUME NEW v \in Versions
      PROVE  Unresolved(v)' => Unresolved(v)
  BY <1>1, <1>3 DEF CourseInv, Unresolved, Closed
<1>4. ASSUME NEW v \in Versions
      PROVE  Unresolved(v)' \/ \E n \in Intents : VersionOf[n] = v /\ Closed(n)'
  BY <1>1, <1>2, <1>4 DEF CourseInv, Unresolved
<1> QED BY <1>1, <1>3, <1>4, VersionOfType DEF CourseInv

LEMMA AcceptCourse ==
  ASSUME TypeInv, CourseInv, NEW i \in Intents, AcceptIntent(i)
  PROVE  CourseInv'
<1>1. status[i] = "none"
  BY DEF AcceptIntent, Accepted
<1>2. /\ status' = [status EXCEPT ![i] = "accepted"]
      /\ task' = [task EXCEPT !["validate_submission"][i] = "queued"]
      /\ UNCHANGED <<watermark, outcome, job>>
      /\ \A n \in Intents : n # i => sequence'[n] = sequence[n]
  BY DEF AcceptIntent, TypeInv, TypeOK
<1>3. /\ status'[i] = "accepted" /\ \A n \in Intents : n # i => status'[n] = status[n]
      /\ \A k \in TaskKinds, n \in Intents : n # i => task'[k][n] = task[k][n]
      /\ task'["validate_submission"][i] = "queued"
      /\ task'["adjudicate"][i] = task["adjudicate"][i]
  BY <1>2 DEF TypeInv, TypeOK, TaskKinds
<1>4. Course(i) => Course(i)'
  BY <1>1, <1>2, <1>3 DEF Course
<1>5. ~Closed(i)
  BY <1>1 DEF Closed
<1> QED BY <1>2, <1>3, <1>4, <1>5, OneCourse DEF Same

LEMMA QueueCourse ==
  ASSUME TypeInv, OrderInv, CourseInv, NEW i \in Intents, QueueSubmission(i)
  PROVE  CourseInv'
<1>1. /\ UNCHANGED <<watermark, sequence, outcome>>
      /\ \A k \in TaskKinds, n \in Intents : n # i => task'[k][n] = task[k][n]
      /\ task'["adjudicate"][i] = task["adjudicate"][i]
  BY DEF QueueSubmission, WorkOne, versionVars, TypeInv, TypeOK, TaskKinds
<1>2. status[i] # "none"
  BY DEF QueueSubmission, WorkOne, OrderInv, Unborn, Accepted
<1>3. CASE job[i]["submission"].status # "none"
  <2>1. UNCHANGED <<job, status>>
    BY <1>3 DEF QueueSubmission
  <2>2. Course(i) => Course(i)'
    BY <1>1, <1>2, <1>3, <2>1 DEF Course, Over
  <2>3. Closed(i) => Closed(i)'
    BY <1>1, <2>1 DEF Closed, Over
  <2> QED BY <1>1, <2>1, <2>2, <2>3, OneCourse DEF Same
<1>4. CASE job[i]["submission"].status = "none"
  <2>1. /\ job' = [job EXCEPT ![i]["submission"] = QueuedJob({}, NULL)]
        /\ status' = [status EXCEPT ![i] = "queued"]
    BY <1>4 DEF QueueSubmission
  <2>2. /\ \A n \in Intents : n # i => job'[n] = job[n] /\ status'[n] = status[n]
        /\ status'[i] = "queued"
        /\ job'[i]["submission"] = QueuedJob({}, NULL)
        /\ job'[i]["confirmation"] = job[i]["confirmation"]
    BY <2>1 DEF TypeInv, TypeOK, Purposes
  <2>3. QueuedJob({}, NULL).status = "queued"
    BY DEF QueuedJob, NoJob
  <2>4. Course(i) => status[i] = "accepted"
    <3>1. status[i] \in SubmissionStatus
      BY DEF TypeInv, TypeOK
    <3> QED BY <1>2, <1>4, <3>1 DEF Course, Over, SubmissionStatus, Unfinal
  <2>5. Course(i) => Course(i)'
    BY <1>1, <2>2, <2>3, <2>4 DEF Course, Unfinal
  <2>6. ~Closed(i)
    BY <1>4 DEF Closed, Over
  <2> QED BY <1>1, <2>2, <2>5, <2>6, OneCourse DEF Same
<1> QED BY <1>3, <1>4

(* A job that is claimed or given back is not over before or after. *)
LEMMA LeaseCourse ==
  ASSUME TypeInv, CourseInv, NEW i \in Intents, NEW p \in Purposes,
         \/ \E h \in Hosts : ClaimRunnerJob(i, p, h)
         \/ RecoverRunnerLease(i, p) \/ InfrastructureFault(i, p)
  PROVE  CourseInv'
<1>1. UNCHANGED <<watermark, sequence, status, outcome, task>>
  BY Zenon DEF ClaimRunnerJob, RecoverRunnerLease, InfrastructureFault, submissionVars, versionVars
<1>2. job[i][p].status \in Unfinal
  BY Zenon DEF ClaimRunnerJob, MayClaim, RecoverRunnerLease, InfrastructureFault, Unfinal
<1>3. PICK j : j.status \in Unfinal /\ job' = [job EXCEPT ![i][p] = j]
  <2> DEFINE r == job[i][p]
  <2>0. r \in Job
    BY DEF TypeInv, TypeOK
  <2>1. ASSUME NEW h, ClaimRunnerJob(i, p, h)
        PROVE  \E j : j.status \in Unfinal /\ job' = [job EXCEPT ![i][p] = j]
    <3>1. [r EXCEPT !.status = "running", !.host = h, !.attempts = r.attempts + 1].status \in Unfinal
      BY <2>0 DEF Job, Unfinal
    <3> QED BY <2>1, <3>1, Zenon DEF ClaimRunnerJob
  <2>2. ASSUME RecoverRunnerLease(i, p)
        PROVE  \E j : j.status \in Unfinal /\ job' = [job EXCEPT ![i][p] = j]
    <3>1. \A x : \A s \in Unfinal :
             [r EXCEPT !.status = s, !.excluded = x, !.host = NULL].status \in Unfinal
      BY <2>0 DEF Job
    <3>2. (IF r.attempts >= MaxAttempts THEN "attention_required" ELSE "queued") \in Unfinal
      BY DEF Unfinal
    <3> QED BY <2>2, <3>1, <3>2 DEF RecoverRunnerLease
  <2>3. ASSUME InfrastructureFault(i, p)
        PROVE  \E j : j.status \in Unfinal /\ job' = [job EXCEPT ![i][p] = j]
    <3>1. [r EXCEPT !.status = "queued", !.excluded = r.excluded \cup {r.host}, !.host = NULL].status
            \in Unfinal
      BY <2>0 DEF Job, Unfinal
    <3> QED BY <2>3, <3>1, Zenon DEF InfrastructureFault
  <2> QED BY <2>1, <2>2, <2>3
<1>4. /\ \A n \in Intents : n # i => job'[n] = job[n]
      /\ \A r \in Purposes : r # p => job'[i][r] = job[i][r]
      /\ job'[i][p].status \in Unfinal
  BY <1>3 DEF TypeInv, TypeOK
<1>5. p = "submission" \/ p = "confirmation"
  BY DEF Purposes
<1>6. "complete" \notin Unfinal /\ "none" \notin Unfinal
  BY DEF Unfinal
<1>7. Course(i) => Course(i)'
  BY <1>1, <1>2, <1>4, <1>5, <1>6 DEF Course, Over, Purposes
<1>8. ~Closed(i)
  BY <1>2, <1>5 DEF Closed, Over
<1> QED BY <1>1, <1>4, <1>7, <1>8, OneCourse DEF Same

(* A completed run: its checker faulted, *)
LEMMA FaultCourse ==
  ASSUME TypeInv, CourseInv, NEW i \in Intents, NEW p \in Purposes, ChallengeFault(i, p)
  PROVE  CourseInv'
<1>1. job[i][p] \in Job /\ job[i][p].status = "running"
  BY DEF TypeInv, TypeOK, ChallengeFault
<1>2. /\ \A n \in Intents : n # i => /\ job'[n] = job[n] /\ status'[n] = status[n]
                                     /\ outcome'[n] = outcome[n]
      /\ \A r \in Purposes : r # p => job'[i][r] = job[i][r]
      /\ job'[i][p] = Completed(i, p, "challenge_fault", NULL, {})
      /\ outcome'[i] = "pending" /\ status'[i] = "challenge_fault"
      /\ UNCHANGED <<watermark, sequence, task>>
  BY DEF ChallengeFault, TypeInv, TypeOK
<1>3. job'[i][p].status = "complete"
  BY <1>1, <1>2 DEF Completed, Job
<1>4. p = "submission" \/ p = "confirmation"
  BY DEF Purposes
<1>5. Course(i) => Course(i)'
  <2> SUFFICES ASSUME Course(i) PROVE Course(i)'
    OBVIOUS
  <2>1. status[i] \in SubmissionStatus /\ "running" \in Unfinal
        /\ "complete" \notin Unfinal /\ "none" \notin Unfinal
    BY DEF TypeInv, TypeOK, Unfinal
  <2>2. \/ status[i] = "queued" /\ p = "submission"
        \/ status[i] = "confirmation_running" /\ p = "confirmation"
    BY <1>1, <1>4, <2>1 DEF Course, Over, SubmissionStatus
  <2>3. Over(i)'
    BY <1>2, <1>3, <2>1, <2>2 DEF Course, Over, Purposes
  <2> QED BY <1>2, <2>2, <2>3 DEF Course
<1>6. ~Closed(i)
  BY <1>1, <1>4 DEF Closed, Over, Unfinal
<1> QED BY <1>2, <1>5, <1>6, OneCourse DEF Same

(* it is a valid primary, *)
LEMMA PrimaryCourse ==
  ASSUME TypeInv, CourseInv, NEW i \in Intents, NEW t, NEW met, PrimaryValid(i, t, met)
  PROVE  CourseInv'
<1>1. job[i]["submission"] \in Job /\ job[i]["submission"].status = "running"
  BY DEF TypeInv, TypeOK, PrimaryValid, Purposes
<1>2. PICK x, g : /\ job'[i]["submission"] = Completed(i, "submission", "valid", t, met)
                  /\ job'[i]["confirmation"] = QueuedJob(x, g)
  BY DEF PrimaryValid, Purposes, TypeInv, TypeOK
<1>3. /\ \A n \in Intents : n # i => job'[n] = job[n] /\ status'[n] = status[n]
      /\ status'[i] = "confirmation_running"
      /\ UNCHANGED <<watermark, sequence, outcome, task>>
  BY DEF PrimaryValid, TypeInv, TypeOK, versionVars
<1>4. job'[i]["submission"].status = "complete" /\ job'[i]["confirmation"].status = "queued"
  BY <1>1, <1>2 DEF Completed, Job, QueuedJob, NoJob
<1>5. Course(i) => Course(i)'
  <2> SUFFICES ASSUME Course(i) PROVE Course(i)'
    OBVIOUS
  <2>1. status[i] = "queued"
    <3>1. status[i] \in SubmissionStatus
      BY DEF TypeInv, TypeOK
    <3> QED BY <1>1, <3>1 DEF Course, Over, SubmissionStatus, Unfinal
  <2> QED BY <1>3, <1>4, <2>1 DEF Course, Unfinal
<1>6. ~Closed(i)
  BY <1>1 DEF Closed, Over, Unfinal
<1> QED BY <1>3, <1>5, <1>6, OneCourse DEF Same

(* or it is the last one, which inserts the adjudication task. *)
LEMMA ValidatedCourse ==
  ASSUME TypeInv, CourseInv, NEW i \in Intents, NEW p \in Purposes, NEW o, NEW t, NEW c, NEW s, NEW met,
         job[i][p].status = "running", o # "challenge_unscorable", Validated(i, o, s),
         job' = [job EXCEPT ![i][p] = Completed(i, p, c, t, met)],
         UNCHANGED <<watermark, sequence>>
  PROVE  CourseInv'
<1>1. job[i][p] \in Job /\ (p = "submission" \/ p = "confirmation")
  BY DEF TypeInv, TypeOK, Purposes
<1>2. /\ \A n \in Intents : n # i => job'[n] = job[n]
      /\ \A r \in Purposes : r # p => job'[i][r] = job[i][r]
      /\ job'[i][p] = Completed(i, p, c, t, met)
  BY DEF TypeInv, TypeOK
<1>3. /\ \A n \in Intents : n # i => status'[n] = status[n] /\ outcome'[n] = outcome[n]
      /\ status'[i] = "validated" /\ outcome'[i] = o
  BY DEF Validated, TypeInv, TypeOK
<1>4. /\ \A k \in TaskKinds, n \in Intents : n # i => task'[k][n] = task[k][n]
      /\ task["adjudicate"][i] = "none" => task'["adjudicate"][i] = "queued"
  BY DEF Validated, Enqueue, TypeInv, TypeOK, TaskKinds
<1>5. job'[i][p].status = "complete"
  <2>1. \A r \in Job : [r EXCEPT !.status = "complete", !.outcome = c, !.score = t,
                                 !.meets = met].status = "complete"
    BY DEF Job
  <2>2. Completed(i, p, c, t, met).status = "complete"
    BY <1>1, <2>1 DEF Completed
  <2> QED BY <1>2, <2>2
<1>6. Course(i) => Course(i)'
  <2> SUFFICES ASSUME Course(i) PROVE Course(i)'
    OBVIOUS
  <2>1. status[i] \in SubmissionStatus /\ "running" \in Unfinal
        /\ "complete" \notin Unfinal /\ "none" \notin Unfinal
    BY DEF TypeInv, TypeOK, Unfinal
  <2>2. \/ status[i] = "queued" /\ p = "submission"
        \/ status[i] = "confirmation_running" /\ p = "confirmation"
    BY <1>1, <2>1 DEF Course, Over, SubmissionStatus
  <2>3. Over(i)'
    BY <1>2, <1>5, <2>1, <2>2 DEF Course, Over, Purposes
  <2>4. task'["adjudicate"][i] = "queued"
    BY <1>4, <2>2 DEF Course
  <2> QED BY <1>3, <2>3, <2>4 DEF Course
<1>7. ~Closed(i)
  BY <1>1 DEF Closed, Over, Unfinal
<1> QED BY <1>2, <1>3, <1>4, <1>6, <1>7, OneCourse DEF Same

LEMMA ResultCourse ==
  ASSUME TypeInv, CourseInv, NEW i \in Intents, RunnerResult(i)
  PROVE  CourseInv'
<1>1. CASE \E p \in Purposes : InfrastructureFault(i, p) \/ ChallengeFault(i, p)
  BY <1>1, LeaseCourse, FaultCourse
<1>2. CASE \E t \in Ticks, met \in SUBSET Requires[VersionOf[i]] : PrimaryValid(i, t, met)
  BY <1>2, PrimaryCourse
<1>3. ASSUME NEW o \in RunFailures, PrimaryFailed(i, o)
      PROVE  CourseInv'
  <2>1. o # "challenge_unscorable" /\ "submission" \in Purposes
    BY DEF RunFailures, Purposes
  <2>2. /\ job[i]["submission"].status = "running" /\ Validated(i, o, NULL)
        /\ job' = [job EXCEPT ![i]["submission"] = Completed(i, "submission", o, NULL, {})]
        /\ UNCHANGED <<watermark, sequence>>
    BY <1>3 DEF PrimaryFailed
  <2> QED BY <2>1, <2>2, ValidatedCourse
<1>4. ASSUME NEW o, NEW t, NEW met, NEW overlap, ConfirmationResult(i, o, t, met, overlap)
      PROVE  CourseInv'
  <2>1. PICK d, s : d # "challenge_unscorable" /\ Validated(i, d, s)
    BY <1>4 DEF ConfirmationResult, Disagreement
  <2>2. /\ job[i]["confirmation"].status = "running" /\ "confirmation" \in Purposes
        /\ job' = [job EXCEPT ![i]["confirmation"] = Completed(i, "confirmation", o, t, met)]
        /\ UNCHANGED <<watermark, sequence>>
    BY <1>4 DEF ConfirmationResult, Purposes
  <2> QED BY <2>1, <2>2, ValidatedCourse
<1> QED BY <1>1, <1>2, <1>3, <1>4 DEF RunnerResult

(* resolve_unscorable: the receipt whose checker faulted is closed by it, and *)
(* one that an earlier resolution closed stays so.                            *)
LEMMA ResolveCourse ==
  ASSUME TypeInv, CourseInv, NEW v \in Versions, ResolveUnscorable(v)
  PROVE  CourseInv'
<1> DEFINE open == {i \in Intents : /\ VersionOf[i] = v
                                    /\ status[i] \notin {"none", "finalized"}}
<1>1. UNCHANGED <<watermark, sequence>> /\ \E i \in open : status[i] = "challenge_fault"
  BY DEF ResolveUnscorable
<1>2. ASSUME NEW n \in Intents
      PROVE  /\ status'[n] = IF n \in open THEN "validated" ELSE status[n]
             /\ outcome'[n] = IF n \in open THEN "challenge_unscorable" ELSE outcome[n]
             /\ \A p \in Purposes :
                  (VersionOf[n] = v /\ job[n][p].status \in Unfinal) \/ job'[n][p] = job[n][p]
             /\ VersionOf[n] # v => job'[n] = job[n]
  <2>1. /\ status'[n] = IF n \in open THEN "validated" ELSE status[n]
        /\ outcome'[n] = IF n \in open THEN "challenge_unscorable" ELSE outcome[n]
    BY DEF ResolveUnscorable
  <2>2. job' = [m \in Intents |-> [p \in Purposes |->
          IF VersionOf[m] = v /\ job[m][p].status \in Unfinal
          THEN [job[m][p] EXCEPT !.status = "cancelled"] ELSE job[m][p]]]
    BY Zenon DEF ResolveUnscorable, Unfinal
  <2>3. \A p \in Purposes :
          (VersionOf[n] = v /\ job[n][p].status \in Unfinal) \/ job'[n][p] = job[n][p]
    BY <2>2
  <2>4. job[n] \in [Purposes -> Job]
    BY DEF TypeInv, TypeOK
  <2> QED BY <2>1, <2>2, <2>3, <2>4
<1>3. \A k \in TaskKinds, n \in Intents : n \notin open => task'[k][n] = task[k][n]
  BY DEF ResolveUnscorable, Enqueue, TypeInv, TypeOK, TaskKinds
<1>4. ASSUME NEW n \in Intents, VersionOf[n] = v, Over(n)
      PROVE  Over(n)'
  BY <1>2, <1>4 DEF Over, Purposes
<1>5. \E n \in Intents : VersionOf[n] = v /\ Closed(n)'
  <2>1. CASE Unresolved(v)
    <3>1. PICK n \in open : status[n] = "challenge_fault"
      BY <1>1
    <3>2. n \in Intents /\ VersionOf[n] = v /\ Over(n)
      BY <2>1, <3>1 DEF CourseInv, Course
    <3> QED BY <1>2, <1>4, <3>1, <3>2 DEF Closed
  <2>2. CASE ~Unresolved(v)
    <3>1. PICK n \in Intents : VersionOf[n] = v /\ Closed(n)
      BY <2>2 DEF CourseInv
    <3>2. Over(n)'
      BY <1>4, <3>1 DEF Closed
    <3>3. outcome'[n] = "challenge_unscorable" /\ status'[n] \in {"validated", "finalized"}
      BY <1>2, <3>1 DEF Closed
    <3> QED BY <3>1, <3>2, <3>3 DEF Closed
  <2> QED BY <2>1, <2>2
<1>6. ~Unresolved(v)'
  BY <1>5 DEF Unresolved, Closed
<1>7. ASSUME NEW n \in Intents, VersionOf[n] # v
      PROVE  Same(n)
  BY <1>1, <1>2, <1>3, <1>7 DEF Same
<1> HIDE DEF open
<1>8. \A u \in Versions : u # v => (Unresolved(u)' <=> Unresolved(u))
  BY <1>7 DEF Unresolved, Same
<1>9. \A n \in Intents : VersionOf[n] # v =>
        (Course(n) => Course(n)') /\ (Closed(n) => Closed(n)')
  BY <1>1, <1>7, SameCourse
<1>10. \A n \in Intents : Unresolved(VersionOf[n])' => Course(n)'
  BY <1>6, <1>8, <1>9, VersionOfType DEF CourseInv
<1>11. \A u \in Versions : Unresolved(u)' \/ \E n \in Intents : VersionOf[n] = u /\ Closed(n)'
  BY <1>5, <1>8, <1>9 DEF CourseInv
<1> QED BY <1>10, <1>11 DEF CourseInv

(* adjudicate stops before a receipt that is not ready, so the tasks it may   *)
(* use up leave no ready receipt next.                                        *)
LEMMA AdjudicateCourse ==
  ASSUME TypeInv, Distinct, CourseInv, NEW i \in Intents, Adjudicate(i)
  PROVE  CourseInv'
<1> DEFINE v == VersionOf[i]
<1>1. v \in Versions /\ watermark[v] \in Nat /\ nextSequence[v] \in Nat
  BY VersionOfType DEF TypeInv, TypeOK
<1>2. PICK w \in watermark[v]..nextSequence[v] :
        /\ \A n \in (watermark[v] + 1)..w : Ready(v, n)
        /\ ~Ready(v, w + 1)
        /\ watermark' = [watermark EXCEPT ![v] = w]
        /\ status' = [n \in Intents |-> IF n \in Batch(v, w) THEN "finalized" ELSE status[n]]
  BY DEF Adjudicate, AdjudicateBatch
<1>3. /\ UNCHANGED <<outcome, sequence, job>>
      /\ \A n \in Intents : n # i => \A k \in TaskKinds : task'[k][n] = task[k][n]
      /\ task'["validate_submission"][i] = task["validate_submission"][i]
      /\ task["adjudicate"][i] = "queued"
  BY DEF Adjudicate, WorkOne, TypeInv, TypeOK, TaskKinds
<1>4. /\ watermark'[v] = w /\ w \in Nat /\ watermark[v] <= w
      /\ \A u \in Versions : u # v => watermark'[u] = watermark[u]
      /\ \A n \in Intents : status'[n] = IF n \in Batch(v, w) THEN "finalized" ELSE status[n]
  BY <1>1, <1>2 DEF TypeInv, TypeOK
<1>5. ASSUME NEW n \in Intents
      PROVE  n \in Batch(v, w) => VersionOf[n] = v /\ status[n] = "validated"
  <2> SUFFICES ASSUME n \in Batch(v, w) PROVE VersionOf[n] = v /\ status[n] = "validated"
    OBVIOUS
  <2>1. VersionOf[n] = v /\ sequence[n] \in (watermark[v] + 1)..w
    BY DEF Batch
  <2>2. PICK j \in Intents : VersionOf[j] = v /\ sequence[j] = sequence[n] /\ status[j] = "validated"
    BY <1>2, <2>1 DEF Ready
  <2>3. sequence[j] # 0
    BY <1>1, <2>1, <2>2
  <2>4. j = n
    BY <2>1, <2>2, <2>3 DEF Distinct
  <2> QED BY <2>1, <2>2, <2>4
<1>6. ASSUME NEW n \in Intents, Course(n)
      PROVE  Course(n)'
  <2>1. CASE n \in Batch(v, w)
    <3>1. status'[n] = "finalized" /\ Over(n)
      BY <1>4, <1>5, <1>6, <2>1 DEF Course
    <3> QED BY <1>3, <3>1 DEF Course, Over
  <2>2. CASE n \notin Batch(v, w) /\ VersionOf[n] = v
    <3>1. status'[n] = status[n]
      BY <1>4, <2>2
    <3>2. ~(status[n] = "validated" /\ sequence[n] = watermark'[v] + 1)
      BY <1>2, <1>4, <2>2 DEF Ready
    <3>3. /\ task'["validate_submission"][n] = task["validate_submission"][n]
          /\ task["adjudicate"][n] = "none" => task'["adjudicate"][n] = "none"
      BY <1>3 DEF TaskKinds
    <3> HIDE DEF v
    <3> QED BY <1>3, <1>6, <2>2, <3>1, <3>2, <3>3 DEF Course, Over
  <2>3. CASE VersionOf[n] # v
    <3>1. n # i /\ status'[n] = status[n] /\ watermark'[VersionOf[n]] = watermark[VersionOf[n]]
      BY <1>4, <1>5, <2>3, VersionOfType
    <3>2. Same(n)
      BY <1>3, <3>1 DEF Same
    <3> QED BY <1>6, <3>1, <3>2, SameCourse
  <2> QED BY <2>1, <2>2, <2>3
<1>7. ASSUME NEW n \in Intents, Closed(n)
      PROVE  Closed(n)'
  BY <1>3, <1>4, <1>7 DEF Closed, Over
<1>8. \A u \in Versions : Unresolved(u)' <=> Unresolved(u)
  BY <1>3 DEF Unresolved
<1> QED BY <1>6, <1>7, <1>8, VersionOfType DEF CourseInv

LEMMA NextCourse == LadderInv /\ StandingInv /\ CourseInv /\ [Next]_vars => CourseInv'
<1> SUFFICES ASSUME LadderInv, StandingInv, CourseInv, [Next]_vars PROVE CourseInv'
  OBVIOUS
<1>1. TypeInv /\ OrderInv /\ Distinct
  BY DEF LadderInv, StandingInv
<1>2. CASE UNCHANGED <<watermark, status, outcome, job, sequence, task>>
  <2>1. \A n : Same(n)
    BY <1>2 DEF Same
  <2>2. \A n : (Course(n) => Course(n)') /\ (Closed(n) => Closed(n)')
    BY <1>2, <2>1, SameCourse
  <2>3. \A u : Unresolved(u)' <=> Unresolved(u)
    BY <1>2 DEF Unresolved
  <2> QED BY <2>2, <2>3 DEF CourseInv
<1>3. ASSUME NEW i \in Intents, AcceptIntent(i) \/ QueueSubmission(i) \/ RunnerResult(i)
             \/ Adjudicate(i) \/ PublishSubmission(i)
      PROVE  CourseInv'
  <2>1. PublishSubmission(i) => UNCHANGED <<watermark, status, outcome, job, sequence, task>>
    BY DEF PublishSubmission
  <2> QED BY <1>1, <1>2, <1>3, <2>1, AcceptCourse, QueueCourse, ResultCourse, AdjudicateCourse
<1>4. ASSUME NEW i \in Intents, NEW p \in Purposes,
             (\E h \in Hosts : ClaimRunnerJob(i, p, h)) \/ RecoverRunnerLease(i, p)
      PROVE  CourseInv'
  BY <1>1, <1>4, LeaseCourse
<1>5. ASSUME NEW v \in Versions, EditorDecision(v) \/ DeadlinePasses(v)
      PROVE  CourseInv'
  <2>1. \/ ResolveUnscorable(v)
        \/ UNCHANGED <<watermark, status, outcome, job, sequence, task>>
    BY <1>5 DEF EditorDecision, Pause, Resume, Reject, Withdraw, Compromise, DeadlinePasses,
       submissionVars
  <2> QED BY <1>1, <1>2, <2>1, ResolveCourse
<1>6. CASE UNCHANGED vars
  BY <1>2, <1>6 DEF vars, versionVars, submissionVars
<1> QED BY <1>3, <1>4, <1>5, <1>6 DEF Next

(* Until a version is resolved unscorable, the receipt after its watermark    *)
(* always has a task queued or a run to come, or its checker faulted, for any *)
(* number of receipts and hosts and however often worker tasks are repeated:  *)
(* that an adjudication task is inserted once per receipt loses no wakeup     *)
(* (enqueue, queueSubmission, runnerResult, adjudicate).                      *)
THEOREM NextReceiptHasWork == Spec => []NextHasWork
<1>1. ASSUME LadderInv, CourseInv
      PROVE  NextHasWork
  <2> SUFFICES ASSUME NEW i \in Intents, Unresolved(VersionOf[i]),
                      sequence[i] = watermark[VersionOf[i]] + 1
               PROVE  \/ status[i] = "accepted" /\ task["validate_submission"][i] = "queued"
                      \/ \E p \in Purposes : job[i][p].status \in Unfinal
                      \/ status[i] = "challenge_fault"
                      \/ status[i] = "validated" /\ task["adjudicate"][i] = "queued"
    BY DEF NextHasWork
  <2>1. Course(i) /\ status[i] \in SubmissionStatus /\ watermark[VersionOf[i]] \in Nat
    BY <1>1, VersionOfType DEF CourseInv, LadderInv, TypeInv, TypeOK
  <2>2. status[i] # "none" /\ status[i] # "finalized"
    <3>1. OrderInv /\ sequence[i] # 0 /\ ~(sequence[i] \in 1..watermark[VersionOf[i]])
      BY <1>1, <2>1 DEF LadderInv
    <3> QED BY <3>1 DEF OrderInv, Unborn, Accepted, WatermarkOrder
  <2> QED BY <2>1, <2>2 DEF Course, SubmissionStatus, Purposes
<1> QED BY <1>1, InitCourse, NextCourse, LadderInvariant, StandingInvariant, PTL DEF Spec
=============================================================================
