# Science Ladder: formal models

TLA+ models of the Science Ladder control plane, its runner daemon and its audit
witnesses, the TLC instances that check them, and TLAPS proofs of the properties
that matter most. Paths below are relative to the repository root.

## 1. The system

Science Ladder runs scientific challenges with machine-checked scores. A *version*
of a challenge is locked and published; researchers submit artifacts; trusted
*runner hosts* execute each artifact twice (a primary and a confirmation run); the
control plane adjudicates the receipts of a version strictly in the order in which
they were accepted, awards milestones to the first artifact that crosses them,
tracks the verified best result and the public frontier, and records everything in
an audit log that three independent *witnesses* countersign.

The control plane is a set of HTTP handlers (`internal/platform`) and a worker loop
over one PostgreSQL database. Nothing is kept in memory between requests. Other
processes are `cmd/runnerd` (one per host, with a durable spool), `cmd/witness` (one
per witness operator, with a journal) and `cmd/host-signer`.

| Component | State | Operations | Talks to | Correct when |
|---|---|---|---|---|
| Acceptance and adjudication (`submissions.go`, `runners.go`, `adjudication.go`, `editorial.go`) | `challenge_versions`, `submissions`, `milestone_claims`, `capacity*`, `validation_grants` | acceptIntent, queueSubmission, runnerResult, adjudicate, publishSubmission, editorDecision | worker tasks, runner rows | order of receipt decides, capacity comes back, nothing stalls unseen |
| Runner leases and spool (`runners.go`, `cmd/runnerd`) | `runner_jobs`, `runner_results`, the spool directory, `WorkRoot/active` | claim, recover, cancel, ingest; run, persist, post, replay | mTLS HTTP between daemon and API | one lease at a time, one verdict, no result lost |
| Score arithmetic (`adjudication.go`, `pkg/protocol`) | none | better, crosses, meaningful, ConfirmedScore, SummarizeTimings | called by runnerResult, adjudicate, the guest | as the metric and the policy say |
| Worker queue, signing, editor emails (`worker.go`, `signing.go`, `review_notifications.go`) | `jobs`, `receipts.envelope`, `review_notifications` | enqueue, lease, run, complete, back off, sign, send, sweep, retry | every handler that enqueues; KMS; mail provider | no effect repeated unasked, nothing forgotten |
| Audit log and witnesses (`platform/audit.go`, `internal/audit`, `cmd/witness`) | `audit_events`, `audit_checkpoints`, `witness_receipts`; journals; signed key histories | audit, checkpointTick, publicCheckpoints, witnessReceipt; openWitness, Observe, observeOne | public HTTP; anyone may push bundles | no equivocation, no two quorums, every event certified |
| Review up to the lock (`creation.go`, `preparation.go`, `review.go`, `metric_review.go`, `review_sources.go`) | versions, preflights, builder jobs, review runs, approvals | startPreflight, commitBuild, scientificReviewAttempt, requestScientificReview, decisions, lockChallenge | builders, the review provider, editors | what was reviewed is what is locked |
| Versions, migration, hidden suites (`versions.go`, `creation.go`, `editorial.go`, `suites.go`) | lineage, intake, migration evidence, milestone mappings, suites | createVersion, publish, stageMigration, completeMigration, pause, resume, withdraw, reveal | ladder, worker | signed evidence stays true, milestones are claimed once, suites stay secret |
| Intake (`frontier_admission.go`, `submissions.go`, `worker.go`, `preparation.go`, `candidates.go`) | tickets, intents, fetch tasks, preparation jobs, candidates | createFrontierTicket, createIntent, fetchSubmission, commitBuild, acceptIntent | GitHub, builders | every intent was admitted, budgets hold, intents come to rest |
| Host authorization (`runner_authorization.go`, `internal/runner/admission.go`, `lease.go`, `cmd/runnerd`) | enrollments, the lease of a host, admission windows | renew, check, claim, run, recover | API, operator | leases fit authorizations, withdrawals take effect, the host comes back |
| Sandboxed execution (`guest_linux.go`, `broker_linux.go`, `measurement.go`, `runtime.go`) | the session of one virtual machine | serve builds, runs and pairs; report; sign | checker, solver's program, host | scores rest on whole schedules, faults are nobody's loss |

What is hard here:

* **Order.** Runs finish in any order, several receipts are adjudicated in one
  transaction, owners publish old results later: order of receipt must still decide.
* **Split transactions.** A claim reads a row, signs outside the transaction and
  writes with a compare and swap; `checkpointTick` and `signReceipt` sign after or
  before the commit; a review, a fetch and a `createVersion` read, wait for minutes on
  somebody else, and write; `observeOne` reads, posts, fetches and observes.
* **Failure.** Daemons, workers and witnesses crash between writing, syncing, posting
  and removing; answers are lost and requests repeated; leases expire under a run;
  the database is restored from a backup; an email may or may not have been sent.
* **Late events.** Results, tasks and reviews arrive after an editor has decided.
* **Waiting.** A ladder waits for its next receipt; a job for hosts that may all be
  excluded; a certificate for two of three witnesses; PID 1 of the guest for a broker
  that waits for the checker's descendants.
* **Clocks.** A host's authorization, its admission window, the lease of a job and the
  transport of a claim are limits chosen in different places, on two clocks.

`PROJECT.json` lists these as hazards, each at the line where it bites, with the
properties that would show it.

## 2. Modules

| Module | Contents |
|---|---|
| `Scores` | the comparison, threshold, minimum-delta and confirmation arithmetic |
| `Ladder` | acceptance to adjudication, publication, editorial decisions |
| `RunnerLease` | claim, lease, fence, run, spool, delivery |
| `LeaseContract` | abstract specification of the runner queue; `RunnerLease` refines it |
| `AuditLog` | audit events, checkpoints, witness journals, quorums, key histories |
| `Review` | a version from creation to its lock |
| `Versions` | extends `Review`: seasons, security migrations, milestones, the hidden suite |
| `Intake` | tickets, intents, fetch, preparation, candidates, acceptance; uses `Scores` |
| `WorkQueue` | the task outbox with receipt signing, and the email outbox |
| `Hosts` | authorization, admission window and serve loop of a host |
| `Sandbox` | guest, checker, broker, paired timing, the host's receipt |
| `MC*` | instances of these for TLC |
| `*Proofs` | theorems and proofs (`VersionsProofs` has those of `Review` too) |

Operators commented *Seeded fault* are wrong variants of the definition below
them. They are used by no specification; substituted for it, each makes the property
it is paired with in `PROJECT.json` fail, which shows that the property depends on
that piece of code.

### Ladder

A variable is a column of the schema (`migrations/001_initial.sql`), indexed by
version or by intent; a submission is named by its intent. An action is one
transaction: the handlers lock the rows they decide on, so their reads and writes are
atomic. `AcceptIntent` is `acceptIntent` with its checks in order (intake, deadline,
account limit, host groups, duplicate, capacity); `QueueSubmission` and `Adjudicate`
are worker tasks, and `WorkOne` also allows a task to be run again after its effect
was committed and before it was marked complete. `RunnerResult` covers every accepted
outcome of a primary or confirmation run. `Adjudicate` computes what the loop of
`adjudicate` computes: the longest run of ready receipts after the watermark
(`Batch`), the milestones each crosses that none before it claimed (`Claims`), the
carried best (`Record`) and the carried frontier (`Advances`), which are defined from
the members of the batch before it rather than by iteration. `EditorDecision` has the
decisions available on a published version.

Scores are integers (ticks). The result of a run is an input: an outcome, ticks, for
measured evaluations the properties met, and whether the timing intervals of the two
runs overlap.

Abstractions: a lease is only its host here (`RunnerLease` has the rest); a task may
fail any number of times but has no attempt limit (`WorkQueue` has it); `resume` lacks
the guard on staged migrations, which is in `Versions`.

### RunnerLease and LeaseContract

`SelectJob` and `ClaimRunnerJob` are the two halves of `claimRunnerJob`; between them
anything may happen to the row. A lease carries the fence it was granted under and a
token; `secret()` is fresh, so the number of the claim stands for it. `RunnerResult`
answers a post by the checks of the handler in their order (token, stored duplicate,
lease) and commits it. A daemon starts by replaying its spool, polls, runs, persists,
posts up to a limit, removes the file on an accepted answer and exits otherwise;
`Crash`, `LosePost`, `PostTimesOut`, `ClaimFails` and `RunFails` are the faults. Posts
in flight form a set: two copies of one delivery are one element, which loses nothing
because the second copy to arrive is a duplicate or is refused and changes no row.

`LeaseContract` says what the rest of the system relies on: leases of a job are
granted one at a time, and a job gets at most one verdict, under the lease that is
current when it is decided. The refinement mapping `JobState` takes the running row as
the current lease and the stored result as the verdict.

Hosts are honest: signatures, delegations and input bindings verify.

### AuditLog

`db` holds the three audit tables, `backup` what a point-in-time recovery returns to.
A checkpoint is named by its order of creation, since its digest covers the time of
issue; `made` keeps all of them, also those a restore forgot. `CheckpointTick` is
`checkpointTick` up to its commit (take the pending row again, or insert the next),
`SignCheckpoint` the signature and the conditional UPDATE after it, `TickFails`
everything that prevents the UPDATE.

A witness has a journal whose first `synced` records are durable. `Writes` is `Observe`
up to `journal.Write`, `ObserveReturns` the sync and the release of the signature,
`ObserveFails` a short write or failed sync, `Crash` keeps any part of what was not
synced. `OpenWitness` may use any history not older than the one used before.
`ReplayLatest` and `Fetch` are the halves of `observeOne`, `Push` is the public POST
handler, so that bundles arrive between the halves. `WitnessReceipt` stores a vote and
counts the quorum by the membership the control plane's own history gives for the time
of issue. Time is the number of histories the root has signed (`epoch`).

The log starts bootstrapped: the genesis is pinned, certified, and the first members
run. The platform is honest about events (a bundle's events are those its checkpoint
covers; the hash chain, Merkle root and signatures are not modelled), but through
restores it forks its chain. A successful fsync is taken to make durable everything
written before it, also after an earlier failed one; `Observe` never relies on this
within a process (it is poisoned), `openWitness` does.

### Review and Versions

`Review` follows one version: `StartPreflight` and the preflight task, which queues a
build on one builder or on two (`Independent`); `CommitBuild`, `CommitFailedBuild` and
`CommitFirstBuild` are `commitBuild` for its outcomes; `BeginReview` and `FinishReview`
are `scientificReviewAttempt` before and after the provider answers, with `AbandonReview`
for everything that fails in between and `LoseReviewer` for a worker that dies, whose task is
taken again however many attempts it has had. A builder job whose hosts are all excluded, by
lost leases, faults or the group of the first build, is `stranded` (`StrandBuild`) until an
operator enrolls a host (`EnrollBuilder`). Whatever a provider and the fetched sources say
is an input (`Observation`, `Conclusions`); how they become an outcome is the code's
(`ResolveSources`, `ApplyMetricAssessment`, `ReviewOutcome`). Each editor decision is an
action, and `LockChallenge` has the checks of `lockChallenge`. That `resolve_unscorable` also
cancels a preflight left over on a published version is left out: the version is locked, and
a build no longer moves it.

`Versions` adds the versions' lineage. `createVersion` is two steps around its fetch
(`BeginVersion`, `FinishVersion`, with the checks on both sides as the code repeats
them). `StageMigration`, the signing task and `CompleteMigration` are the stages of a
security migration, with attempts that fail (`RetryMigration`) or whose worker dies
(`LoseMigrator`); its evidence is the watermark and frontier that were signed.
`IncidentPauses` is the result of a run that pauses the intake, also over `closed`.
Receipts are counters here (`next`, `watermark`, `frontier`): `Ladder` has their
contents. One hidden suite is shared by the versions that name it. The history
variable `reopened` holds the versions whose closed intake was opened again (finding 4);
three properties are stated up to it.

### Intake

Accounts make claims; a ticket (`createFrontierTicket`) is issued when the claim improves
the frontier of that moment, and a `createIntent` consumes it after the same check against the
present frontier. `BeginFetch`, `StoreFetch` and `FailFetch` are `fetchSubmission` and its
worker task around the talk with GitHub. `LoseFetch` is an attempt that dies or whose
context ends after eight minutes; the lease outlives it, so attempts never overlap. A preparation job ends in a result of the
trusted builder (`CommitArtifact`, `FailArtifact`), in a lost lease (`LosePreparation`) or in
an infrastructure fault (`FaultPreparation`); both of these may declare the disk first, and
exclude the host, the former unless the policy is `platform`. A queued job with all
`PoolSize` hosts excluded is `Stranded`. `ResolveUnscorable` cancels the jobs of the version and
leaves its intents as they are. Tickets expire in order of issue, because all live
equally long. Candidates take part only in the budget. The daily budgets refuse
requests and are not modelled: a request refused changes nothing.

### WorkQueue

A task is a row with a status and its attempts; the attempt is the token, since each
lease gets a fresh one. A worker process picks, runs and finishes; it may stop, or be
paused past its lease and go on. `ReadReceipt`, `StoreEnvelope` are `signReceipt` around
the signer. `configured` holds the processes whose email settings are complete
(`reviewEmailReady`); the others neither sweep nor pick notices. Back-off is a nondeterministic delay. The email outbox has its own leases:
`LoadNotice` checks that the review still waits for an editor, `PostTaken` and
`PostRefused` are the provider's side, `SweepNotice` turns an expired send into
`uncertain`, which only an editor who accepts a duplicate may retry. `delivered` and
`acknowledged` count what the provider took and what editors accepted. A refusal (429 or 5xx)
is taken to mean that the provider did not take the email.

### Hosts

Each deadline is the time left until it on the host's clock, and `Tick` lowers them all,
so any number of renewals is a finite state space. The platform's clock is `Skew` ahead.
`Renew`, `RenewFails`, `NoRefresh` and `AwaitRenewal` are the refresh of a profile (a request of
at most 15 seconds, so one step), `CheckControls` the admission check. A claim is `SendClaim` on
the host and three steps of the endpoint: `SelectProfile` reads the rows of host and profile without a
lock, `StampLease` gives the lease its end, `ClaimRunnerJob` stands for the conditional UPDATE
and the answer; time and operators move in between, and `NoClaim` may end the request at each of
them. `StartRun` and `RunRefused` are the checks before a run. `FinishRun` ends it: the loop goes on,
or the daemon exits because its result could not be persisted, was not delivered (it stays in
the `spool`) or was refused. `Restart` succeeds when the signed files verify (`trusted`) and the
replay of the spool delivers what is there; a receipt the platform refuses ends every start
(`ReplayRefused`) until an operator takes it out (`Reconcile`). What makes the platform refuse is
`RunnerLease`'s subject and a free choice here. `ChangeTrust`, `ChangeControls`, `SwitchHost`,
`SwitchEnrollment` and `RecoverStaleRun` are the operator's.

`TimeAssumption` relates only constants the code derives from each other: the safety window is the
base lease plus the reserve. Skew, transport, lifetime and the attestation in the host's file
(`DiskLife`) are arbitrary, and the properties say what follows from them: `Overrun` is the part
of transport and skew that exceeds the reserve, `LongestHeld` the longest authorization a host may
have. In the code the reserve and the client's timeout are both five minutes, so `Overrun` is
the skew where the platform's clock is ahead (finding 8). All profiles start from one
attestation, as `LoadAdmissionWindow` is given one.

### Sandbox

One virtual machine. `StartMachine` and `SetupFails` are the host's part before it runs, `Boot`
and `BootFails` the guest's up to the start of checker and broker; a session context that expires
while the broker is set up is one that expires right after `Boot`. The broker serves a build, then runs, or, for a measured
challenge, alternating pairs of baseline and candidate, and it can be cancelled between
the start and the end of each execution. PID 1 waits for the checker, cancels and drains the
broker, kills what is left and prints one frame; the host turns console and monitor
exit into a receipt. `medianIntervalIndex`, `OrderStatistic` and `SummarizeTimings` are the
arithmetic of paired timings on exact ratios; `WithinConfidence` states what they promise
by counting subsets, without the index. `trail`, `vouched` and `broke` are history; `broke` names
every failure that was nobody's fault, also those the code does not tell from the program's or
the checker's own (`EndedAs`, `CheckerUnstarted`, an output that is `unreadable`). Runs without a
submitted program (`broker == nil`) are not modelled.

## 3. Runs

All bounds are constants in the configuration files. Deadlock is checked in `hosts` and
`sandbox`, whose systems never come to rest (a finished session stutters). It is off
elsewhere because the bounded systems do come to rest (all intents decided, all events
certified); that they do not stop too early is what the liveness properties say.

| Run | Instance | Shows |
|---|---|---|
| `ladder_order` | 3 receipts of 2 owners on one version, ticks 1 and 2, milestone at 2 | `WatermarkOrder`, `VerifiedBest`, `FrontierIsPublicBest`, `FrontierMonotone` |
| `ladder_editor` | 2 receipts on a measured version, checker faults, all decisions, the deadline, 4 units | `FirstCrosserClaims`, `CapacityConserved`, `RetiredRefuses` |
| `ladder_live` | fair; 2 receipts, 2 hosts in 2 groups, independent policy, minimizing metric with tolerance, ticks 1, 2, 4, active limit 1, 2 claims per job, faults | `ConfirmedTwice`, `NoSilentStall` |
| `lease` | fair; 1 job, 2 hosts, independent policy, 2 claims, 2 posts, 1 fault, cancellation | `FencesDistinct`, `StoredStaysAccepted`, `ImplementsContract`, `JobsSettle` |
| `audit` | 3 witnesses, 1 event, 1 heartbeat after the genesis, 1 fault, 1 restore | `ChainCovers`, `NoEquivocation`, `CertifiedIsRetained`, `OneQuorum` |
| `audit_live` | fair; 4 witnesses, 2 histories, 1 event, 1 fault | `OldQuorumsVerify`, `EventsCertified` |
| `review` | fair; 1 version with a v2 manifest and two builders, 2 preflights, 1 request, 2 tries, up to 3 attempts with worker deaths, 2 decisions, builders that run out | `LockBindsReview`, `PreflightResolves`, `ReviewAnswered` |
| `versions` | fair, from the state in which version 1 has just been published; 2 versions naming one hidden suite, 2 milestones, 1 receipt each, 1 frontier advance, 3 decisions, 2 tries and 1 worker death per migration, incidents, version 2 may expire, version 1 reveals early | `MigrationEvidence`, `ClaimedWhereOpen`, `SuiteSecret`, `MigrationSettles` |
| `intake` | fair; 1 account, 2 commits with the same content, 3 claims of 2 artifacts, 2 tickets, 1 candidate, both limits 2, 2 tries, 2 hosts under the independent policy, one disk, a rival artifact, an advancing frontier, resolve_unscorable | `AdmissionBound`, `ActiveBounded`, `AcceptedStays`, `IntentSettles` |
| `queue` | fair; 2 workers, 1 receipt, 1 email, 2 attempts, 3 faults, 2 retries, settings that come and go | `NoSilentDuplicate`, `SignedOnce`, `OutboxDrains` |
| `hosts` | fair; 2 profiles, 5 kinds of jobs, times scaled (lifetime 8, file attestation 10, longest lease 4, reserve 1, transport 1, skew 1), 1 fault or intervention | `LeaseCovered`, `WithdrawalBites`, `HostRecovers` |
| `sandbox` | fair; 1 warmup, 3 repetitions at 70 % confidence, candidate times 1 and 2 against a baseline of 2, every failure of setup, boot, broker, guest and monitor | `MeasuredRunIsWhole`, `ScoreIsConfident`, `FaultIsNotLoss`, `SessionEnds` |

Why the bounds reach the interesting cases. Three receipts are the fewest with a gap
that a later receipt could jump, a batch of two, and a frontier that moves twice; two
tick values give a tie, a gain and a crossing. Two groups let a confirmation wait for
the other group; two claims per job let one lease be lost and another succeed, with a
late delivery of the first. One restore gives two competing branches, and one event and
one heartbeat branches of different lengths. Two builders and two preflights let a late
build of the first meet the second, and one request and two decisions let a review
outlast both. One receipt per version is enough for it to be accepted, resolved
or published before, during and after a migration; three decisions pause, resume
and withdraw. Two commits with the same content compete for a budget of two with a
candidate. In `queue` the two outboxes share only their processes, so each is explored
from a reachable state in which the other has drained; two workers and three faults let
a paused attempt and its successor both be lost. Two tries let a failed attempt of a review or
a migration be repeated before the last one fails, and the deaths reach an attempt beyond that
limit. Two hosts let a preparation lose one and succeed on the other, or lose both. The
times of `hosts` keep what matters of the code's constants: the reserve equals the longest
transport, so that the skew of 1 makes leases outlast the authorization, and the attestation in
the file outlasts a renewed one. `HostRecovers` also needs that a host accepts what the platform
grants (lifetime and skew within the longest renewal, here 9) and that this exceeds the margin of
every profile, as 24 hours exceed 18 hours and five minutes. Two profiles are the host's own
and one with its own enrollment. Three repetitions at 70 %
have an interval index above zero, with a minimum, a median and a maximum, and times 1
and 2 give tied, conclusive and inconclusive schedules. Larger numbers are covered by
the theorems for the safety properties proved there.

Symmetry is used in `audit` only (the three witnesses), where no liveness is checked.

### Fairness

* `Ladder!FairSpec`: `RunWorker` loops for ever and leases every queued task, so
  `QueueSubmission` and `Adjudicate` of a queued task are weakly fair; hosts poll for
  work, and a host that runs a job reports something about it. No editor, publication
  or acceptance is assumed.
* `RunnerLease!FairSpec`: recovery runs in every round of the worker loop, leases
  expire with time, handlers end, systemd restarts daemons (`Restart=on-failure`), a
  daemon acts on every answer or timeout. Nothing is assumed of the network.
* `AuditLog!FairSpec`: the worker loop ticks; signing is *strongly* fair, i.e. a
  signer that is tried again and again succeeds at some time although single attempts
  fail; witnesses are started and their observers poll every five seconds. A poisoned
  witness, or one whose journal is torn, is never assumed to recover.
* `Review!FairReviewSpec`: queued tasks are run; a builder job that a host may still claim
  is committed, runs out of attempts or runs out of hosts (`JobsSettle` of `RunnerLease`
  shows that these are the ends it has); a review that began ends in some way, since its
  context expires after eight minutes. Workers die a bounded number of times (`MaxLost`).
  Creators, editors and operators, who could enroll a host, owe nothing.
* `Versions!Fairness`: only that the `complete_migration` task is run, with a bounded number
  of worker deaths; the signing
  of the migration, whose task may be given up, is not assumed.
* `Intake!FairSpec`: fetch tasks that are queued or running, and preparation jobs that some
  host may claim, make some step, losing a lease included. Nothing is assumed of a job that
  has no host left.
* `WorkQueue!Fairness`: a process takes its next step or stops; a task that is due
  again and again is picked, because the oldest `available_at` goes first (strong
  fairness, as a process may be busy); the sweep runs in every round of a configured
  process. Nobody owes a configuration: the second half of `OutboxDrains` speaks of systems
  in which some process comes to keep one.
* `Hosts!FairSpec`: the serve loop, the restart of the daemon by systemd and time.
  Operators owe nothing; `HostRecovers` speaks of hosts that come to stay enrolled, with
  files and controls in order and no refused receipt in the spool.
* `Sandbox!FairSpec`: executions end (they are killed with the session), the broker
  notices its cancellation, the kernel delivers the kill, PID 1 goes on. Nothing makes
  the checker finish or a timer fire.

## 4. Proofs

Every theorem holds for all values of the constants that satisfy the named assumptions of
its module. These are types and finiteness, three members per key history, that `NULL` is
none of the values it stands beside, that version identifiers start at 1 without gaps, that
the measurement policy is valid, and for `Hosts` that the safety window is the base lease plus
the reserve and lease limits lie between the base and the maximum lease. Each proof has an inductive invariant and a lemma per action; where results
build on each other, the later invariants are inductive relative to the earlier ones.

**Ladder** (`LadderInv`). `TypeOK` is not inductive: a result excludes the job's host, which
is a host because the job is running (`RunningHost`). `WatermarkOrder` needs that no
sequence number exceeds `next_sequence`, that nothing exists for an intent that was not
accepted (`Unborn`), and that only adjudication finalizes. Every action but acceptance and
adjudication is `Quiet`: it leaves sequences, receipts, reservations and claims alone.
Capacity needs that a reservation is held exactly while the receipt is missing; the account
limit counts a subset of what `acceptIntent` counted; `RetiredRefuses` needs that intake is
open on published versions only. Theorems: `TypeCorrect`, `AdjudicationInOrder`,
`CapacityIsConserved`, `AccountLimit`, `ClaimantsArePublic`, `RetiredAcceptsNothing`.

On top of it stand four more invariants. `StandingInv`: sequences are given out once; a
confirmation runs only after a valid primary; a valid outcome rests on both runs; a
finalized submission is what its receipt says, and only one resolved without a score can be
opened again (finding 1). Hence the runs behind a valid receipt are never touched again
(`Settled`), which gives `ConfirmedByTwoRuns`. The three that follow are about what a batch
does, so every other step is shown once to keep them (`Steady`), and maximized and minimized
metrics are brought into one direction (`Merit`). `BestInv`: the last in sequence of the
batch's records is the earliest of its best; as later sequences lose ties, so it is of the
whole prefix (`BestIsEarliestBest`). `FrontInv`: the frontier, whose value is `At`, may move
several times in a batch, and after it no public receipt is a minimum delta ahead; a
publication is compared with the frontier as it stands. This gives `FrontierIsBestPublic`
and the action property `FrontierOnlyAdvances`. `MilestoneInv`: an unclaimed milestone goes
to the first of the batch that crosses it, and all adjudicated before it have lower
sequences and did not cross (`FirstCrosserHoldsMilestone`).

Why the watermark need not stall is `CourseInv`: each open receipt of a version that was not
resolved unscorable stands at one place of its course (`Course`: to be queued, running,
faulted, validated), and whichever transaction moves it on leaves a task or a run for the next
place. The delicate one is the adjudicate task, which is inserted once per receipt and may
find the receipt before it unfinished: it is then used up, but the one that finishes later
has its own, and its batch takes the others along. So it is the receipt after the
watermark that has work for certain (`NextReceiptHasWork`). A resolved version stays out of
this because it keeps a receipt that was resolved after its runs (`Closed`).

**RunnerLease** (`LeaseInv`). A claim does not advance the fence, so why do two leases never
share one? Because whatever ends a lease advances it: `FenceInv` says that a known lease
under the row's present fence *is* the row's lease, and `ClaimInv` that a handler holding
the present fence read the row before any later exclusion. Stored results are those of
complete rows whose token never changes again (`StoredInv`). The refinement maps claims to
`Grant`, commits to `Decide`, and everything else to `Revoke` or a stutter. Theorems:
`LeaseTypeCorrect`, `FencesAreDistinct`, `ExcludedHostsNeverRun`,
`StoredResultsStayAccepted`, `DeliveriesAreNotDropped`, `QueueImplementsContract`.

**AuditLog** (`AuditInv`). A journal holds at place *i* a checkpoint of height *i*, and what
a witness released lies in its synced prefix (`Sound`). Two released checkpoints of one
height are therefore the same record, which gives `NoEquivocation`. Votes in the database
*and in its backup* were released (`VotesInv`), so every certificate is backed by two
releases (`Backed`); two certificates of one membership of three share a witness
(`QuorumsMeet`), which gives `OneQuorum`. The chain invariant is stated of `db` and of
`backup` alike, since a restore swaps them. For the old quorums, `QuorumsInv` keeps, again
in both, the two votes that were counted when a row was marked certified; the members
registered at its issue are among the operators that every later history looks up. Theorems:
`AuditTypeCorrect`, `CheckpointsCoverTheLog`, `WitnessesDoNotEquivocate`,
`CertifiedAreRetained`, `QuorumsDoNotFork`, `OldQuorumsStillVerify`.

**WorkQueue**. A process that holds the token of a row is alone with it: tokens are attempts
and only grow (the type part). `NoSilentDuplicate` counts: what the provider took, plus the
sends that may still reach it, plus what a pending row still entitles to, is at most one
more than what editors accepted (`CreditsKept`); with `AcceptedTaken`, that an accepted row
was taken, it is `MailInv`. A lease in the future belongs to a process that works under the
latest token, and only what is signed is called succeeded (`HolderInv`), so that no task is
left to nobody. Theorems: `QueueTypeCorrect`, `ReceiptsAreSignedOnce`,
`EmailsAreNotRepeatedSilently`, `TasksAreNotForgotten`.

**Hosts** (`HInv`). While a claim is in flight the window it was sent in has shrunk by at most
its age, and a withdrawal that the endpoint did not see is no older (`InFlight`). A lease is
stamped at some moment of that request; since the margin of the profile holds the lease and
the reserve (`WindowFits`), it reaches beyond the authorization by less than `Overrun`, and
beyond a withdrawal by at most itself and the request (`Covered`). The time since a withdrawal
plus what the host still holds, cached or in its file, is at most `LongestHeld` (`Withdrawals`).
Nothing is assumed of skew, transport or the file's attestation. Theorems: `HostsTypeCorrect`,
`LeasesAreCovered`, `WithdrawalsBite`.

**Intake** (`IntakeInv`). An accepted intent is safe from a failed fetch or build because,
by then, no attempt of either is under way (`RowsOK`); admission is a fact about consumed
tickets, which never change again (`AllAdmitted`). The same row invariant says that an intent
which waits for its fetch or its job has one, also between the lease that is lost and its
return to the queue; the job may have no host left, and it is cancelled only on a compromised
version (`WaitingIntentsHaveWork`). Theorems: `IntakeTypeCorrect`,
`IntentsAreAdmitted`, `PreparationsAreBounded`, `AcceptanceStands`, `WaitingIntentsHaveWork`.

**Sandbox** (`FaultInv`). A failure of the broker is remembered in its fault, and one of the
guest, in its boot too, on the console, until the receipt is made (`Remembered`); a failure of
the host ends in the receipt itself. The failures that the code mistakes for others
(`Mistaken`) leave both alone, so they do not hide a real fault that comes with them. That a scored run is whole
needs what was executed at every moment before (`WholeInv`): a measured run without a fault
has built both programs on writable trees, then run two per recorded pair, in order and
sealed, and those of the pair under way (`TrailInv`); a pair is vouched for exactly when its
quality is recorded (`VouchInv`); a score on the console stands for all of it (`FrameInv`).
The number of runs is bounded because a pair is started only when both of its runs are free
(`LimitInv`). What a score is worth is first a matter of arithmetic: the factorial of the
model satisfies its equation, so a quotient of factorials counts subsets by Pascal's rule
(`ChooseCounts`) and `TailSum` those with fewer than *k* members (`TailCounts`); the index
that is chosen then keeps the tail within the error the policy allows (`IndexFits`), and a
ratio at that place in the order exists and has fewer than *k* trials below it
(`LowerIsConfident`). Induction over naturals is used as a fact about sets of naturals
(`Induction`). The step to the specification is `WorthInv`: the trials are not touched once
the frame is printed, and the frame is the only source of a score. That a session ends has
two safety parts: `StepsLeft`, which weighs the runs that are left, the build, the place of
the broker and of PID 1, is a natural number that every step makes smaller, and until the
receipt somebody has a step to take, because PID 1 cancels the broker before it waits for it
(`EndInv`). Theorems: `FaultsAreNotLosses`, `MeasuredRunsAreWhole`, `SandboxTypeCorrect`,
`ScoresAreConfident`, `SessionsAreFinite`, `SomeoneAlwaysMoves`.

**Review and Versions** (`ReviewInv`, `VersionsInv`). A lock is bound to the newest run
because a review that would be stored later finds the version no longer reviewable, and one
that is outstanding prevents the lock (`Bound`). The work a version waits for exists
(`Work`) because a locked version is past its preflights, so that a build which ends takes
any other out of `machine_preflight` (one that is stranded is the stated exception), and because the task of the first review, which is
inserted once, is complete only with a review. A migration succeeds the version right
before it (`LineInv`), which once it is completed is closed and as the signed evidence has
it (`EvidenceInv`); the versions that list a milestone are consecutive, and all but the
newest are closed and drained (`MapInv`); once the suite is revealed every version bound to
it is over (`SuiteInv`). Most actions change none of the columns these speak of, which one
lemma shows for all of them (`OrdinaryStep`). Theorems: `LocksBindReviews`, `ReviewsHaveWork`,
`VersionsTypeCorrect`, `MigrationsStayTrue`, `ClaimsStayOpen`, `SuitesStaySecret`.

Some theorems have no run: the type invariants, `ActiveLimitHolds` (`AccountLimit`),
`ClaimsArePublic` (`ClaimantsArePublic`), `ExcludedNeverRuns` (`ExcludedHostsNeverRun`),
`NothingDropped` (`DeliveriesAreNotDropped`), `NextHasWork` (`NextReceiptHasWork`),
`IntentHasWork` (`WaitingIntentsHaveWork`), `TaskHasHolder` (`TasksAreNotForgotten`),
`ReviewHasWork` (`ReviewsHaveWork`), `SessionShrinks` (`SessionsAreFinite`) and
`SomeoneMoves` (`SomeoneAlwaysMoves`) are proved and not checked again by TLC.

**Only model-checked.** Liveness (`NoSilentStall`, `JobsSettle`, `EventsCertified`,
`PreflightResolves`, `ReviewAnswered`, `MigrationSettles`, `IntentSettles`, `OutboxDrains`,
`HostRecovers`, `SessionEnds`), which is out of the prover's reach. Every safety property
that a run checks is proved, and so are the safety parts of several liveness properties:
what `NoSilentStall`, `IntentSettles`, `PreflightResolves`, `ReviewAnswered` and the first half
of `OutboxDrains` wait for exists (`NextHasWork`, `IntentHasWork`, `ReviewHasWork`,
`TaskHasHolder`), and `SessionEnds` follows from `SessionShrinks`, `SomeoneMoves` and the
fairness of the steps that `SomeoneMoves` names.

### Stated exceptions

* `MigrationEvidence`, `ClaimedWhereOpen` and `SuiteSecret` do not speak of versions whose closed
  intake was opened again (`reopened`, findings 4 and 5).
* `NextHasWork` and the instance of `NoSilentStall` do not speak of versions that were resolved
  unscorable (finding 1).
* `FaultIsNotLoss` excludes five failures which the code does not tell from what they look
  like (finding 9): a program that cannot be started, a products mount that fails and a guest
  kernel that panics before it prints count as the submission's error, an output that cannot be
  read and a checker that cannot be started as the checker's. Except for the panic, a fault
  that comes with one of them still prevails.
* `PreflightResolves`, `IntentSettles` and `JobsSettle` accept a job that has run out of hosts, and
  `IntentSettles` one that `resolve_unscorable` cancelled: its intent stays `quarantine_pending` and
  keeps its place in the budget of its account. Nobody is told of either.
* `OutboxDrains` speaks of emails only while some process keeps complete settings; without them
  they stay `pending`, as `docs/review-notifications.md` says.
* `HostRecovers` does not speak of a host with a refused receipt in its spool (finding 3) or whose
  files no longer verify.
* `LeaseCovered` and `WithdrawalBites` are stated up to `Overrun` (finding 8).
* `ActiveBounded` counts candidates and intents; preflights and requested reviews, which draw on
  the same budget, are in `Review`.

## 5. Findings

Disagreements met while translating. The models have what the code does; quotations of
the documents are in `PROJECT.json`. No run is made for them.

1. *A late `validate_submission` task re-opens a resolved receipt* (`runners.go:60`).
   `queueSubmission` writes `status='queued'` without looking at the status, so a receipt that
   `resolve_unscorable` ended is executed again. The adjudicate task that the resolution
   inserted may run meanwhile and is used up; the later result inserts none (`enqueue`
   ignores a known key), so the receipts stay validated, are never adjudicated and keep
   their capacity.
2. *Grants of unscorable receipts stay consumed* (`editorial.go:161`), where the
   architecture says they are restored.
3. *A repeated infrastructure fault is not harmless* (`runners.go:358`). Nothing records
   that the fault was accepted; after a lost 202 the daemon is refused with 409, exits, and
   cannot start until an operator cleans its spool.
4. *A closed intake opens again* (`creation.go:383`, `editorial.go:111`): publication writes
   `open` over `closed`, and so do pause, or the pause of an incident (`runners.go:461`), and resume.
5. *A suite may be revealed before a version that uses it opens* (`suites.go:223`): a version
   rejected before publication counts as closed.
6. *A late build takes a compromised version back into review* (`preparation.go:278`).
7. *A migration hides that its predecessor was compromised* (`versions.go:301`): `superseded` is
   written over it.
8. *The reserve for transport and skew is used up by transport* (`internal/runner/admission.go:13`):
   a claim may take five minutes (`cmd/runnerd/main.go:361`), the whole reserve, so with a
   platform clock that is ahead at all a lease may outlast the authorization, by less than
   the skew.
9. *Some failures of the platform count as the submission's* (`broker_linux.go:348`,
   `guest_linux.go:192`): see the exceptions of `FaultIsNotLoss`.

## 6. Not modelled

* Canonical JSON, signatures, digests, Merkle arithmetic, sealed secrets: pure functions
  over bytes with fuzz and golden tests; their verdicts are inputs here. Decimal and
  rational normalisation of scores: scores are ticks already.
* The OCI builder, the scanner, disk preparation and the Firecracker configuration:
  file-system work without shared state, whose outcome is an input of `Review`, `Intake` and
  `Sandbox`.
* The separate host-signer process and the certificates of `Hosts`; `checkProductionAdmission`;
  the stored response of `mutate` and its conflict answer.
* OAuth and sessions, read queries, routes, the command line, the web client, and the
  conformance and inventory tools: no rule of the control plane depends on their state.
* Locks below the transaction: a transaction that PostgreSQL aborts on a deadlock has no
  effect and is retried by its caller.
* Sizes: a checkpoint whose events exceed the 8 MiB of a bundle is refused by every witness;
  `EventsCertified` assumes that bundles fit. Its instance has one checkpoint after the genesis.
  Daily budgets.
* The URL of a hidden suite, which lives 15 minutes, and comparisons of the clocks of
  two hosts in confirmation.
* `fetchSubmission` gives up an intent for good on an error that may be transient
  (`worker.go:115`); in `Intake` a fetch may therefore fail for any reason.

The models of the ladder, of intake and of versions share columns but are checked apart:
acceptance is an action of `Ladder` with the ladder's checks and of `Intake` with the intent's,
and receipts are counters in `Versions`. Their product is far beyond TLC; each states what
it takes from the others where it does so.
