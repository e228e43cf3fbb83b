------------------------------- MODULE Intake -------------------------------
(***************************************************************************)
(* The way of a solution to the ladder: a local claim is screened and gets *)
(* a ticket, the ticket is consumed by a submission intent, a worker       *)
(* fetches the exact commit from GitHub, a trusted builder turns it into a *)
(* read-only disk, and the owner accepts the prepared intent.  Claims and  *)
(* candidates share one budget of remote preparations per account.         *)
(*                                                                         *)
(* Requests and results are transactions; a fetch is two steps, because    *)
(* fetchSubmission reads the intent, talks to GitHub for minutes and then  *)
(* writes.  What acceptance does to the ladder is module Ladder's subject. *)
(* A request refused because the intake is closed, or because a daily      *)
(* budget is spent, changes nothing: here it is a request not made.        *)
(***************************************************************************)
EXTENDS Naturals, Sequences, FiniteSets, Scores

CONSTANTS
  Owners,                \* accounts
  Commits,               \* repository and exact commit
  Artifacts,             \* canonical artifact digests
  Content,               \* the artifact GitHub serves for a commit
  Disks,                 \* digests a builder may produce
  Candidates,            \* candidate documents
  Author,                \* the account of a candidate
  Claims,                \* the claims made: owner, commit, artifact, ticks
  Rivals,                \* artifacts other accounts may get accepted
  Scored,                \* public frontier scores reached by others
  metric,                \* the locked metric
  LiveTickets,           \* live unconsumed tickets of one account (3)
  ActiveLimit,           \* active preparations of one account (5)
  MaxTries,              \* attempts of a worker task or a runner job (8)
  PoolSize,              \* hosts that serve preparations
  Policy,                \* verificationPolicy of the manifest
  MaxTickets,            \* bound: tickets ever issued
  None                   \* SQL NULL

NoTicket   == 0

ASSUME IntakeAssumption ==
  /\ None \notin Owners \cup Artifacts \cup Disks
  /\ IsFiniteSet(Commits) /\ IsFiniteSet(Candidates)
  /\ Content \in [Commits -> Artifacts]
  /\ Author \in [Candidates -> Owners]
  /\ metric \in Metric
  /\ Claims \subseteq [owner : Owners, commit : Commits,
                       artifact : Artifacts, ticks : Int]
  /\ Scored \subseteq Int /\ Rivals \subseteq Artifacts
  /\ {LiveTickets, ActiveLimit, PoolSize, MaxTickets} \subseteq Nat
  /\ Policy \in {"platform", "independent"}
  /\ MaxTries \in Nat \ {0}

VARIABLES
  frontier,     \* score of the public frontier, the baseline when none
  tickets,      \* frontier_tickets in order of creation
  expired,      \* how many of them are past their fifteen minutes
  candidate,    \* candidates.status
  intent,       \* submission_intents
  fetch,        \* the fetch_submission task of an intent
  job,          \* the artifact_prepare runner job of an intent
  submitted,    \* artifact digests of the version's submissions
  version       \* challenge_versions.status

ticketVars == <<tickets, expired>>
workVars   == <<intent, fetch, job>>
vars == <<frontier, ticketVars, candidate, workVars, submitted, version>>

-----------------------------------------------------------------------------
(* Types *)

IntentStatus == {"none", "github_fetch", "quarantine_pending", "ready",
                 "failed", "accepted"}
Holding      == {"github_fetch", "quarantine_pending", "ready"}
TaskStatus   == {"none", "queued", "running", "complete", "attention_required"}
Ticket == [owner : Owners, commit : Commits, artifact : Artifacts,
           ticks : Int, frontier : Int, consumed : BOOLEAN]
Intent == [status : IntentStatus, ticket : Nat,
           artifact : Artifacts \cup {None}, disk : Disks \cup {None}]
Fetch  == [status : TaskStatus, tries : Nat, inFlight : Nat]
JobStatus == TaskStatus \cup {"cancelled"}
Job    == [status : JobStatus, tries : Nat, declared : Disks \cup {None},
           excluded : Nat]      \* hosts in excludedHostIds

IntakeTypeOK ==
  /\ frontier \in Int
  /\ tickets \in Seq(Ticket)
  /\ expired \in 0..Len(tickets)
  /\ candidate \in [Candidates -> {"none", "resolving_sources", "settled"}]
  /\ intent \in [Owners -> [Commits -> Intent]]
  /\ fetch \in [Owners -> [Commits -> Fetch]]
  /\ job \in [Owners -> [Commits -> Job]]
  /\ submitted \subseteq Artifacts
  /\ version \in {"published", "compromised"}

NoIntent == [status |-> "none", ticket |-> NoTicket, artifact |-> None,
             disk |-> None]
NoTask   == [status |-> "none", tries |-> 0, inFlight |-> 0]
NoJob    == [status |-> "none", tries |-> 0, declared |-> None, excluded |-> 0]

Init ==
  /\ frontier = metric.baseline
  /\ tickets = << >> /\ expired = 0
  /\ candidate = [k \in Candidates |-> "none"]
  /\ intent = [o \in Owners |-> [c \in Commits |-> NoIntent]]
  /\ fetch = [o \in Owners |-> [c \in Commits |-> NoTask]]
  /\ job = [o \in Owners |-> [c \in Commits |-> NoJob]]
  /\ submitted = {}
  /\ version = "published"

-----------------------------------------------------------------------------
(* The budget of remote preparations *)

(* Seeded fault: a prepared intent no longer counts. *)
ActiveBeforeReady(o) ==
  Cardinality({k \in Candidates :
                 Author[k] = o /\ candidate[k] = "resolving_sources"})
    + Cardinality({c \in Commits :
                     intent[o][c].status \in Holding \ {"ready"}})

(* Preflights and review requests hold a slot exactly as candidates do, until *)
(* their task resolves; one kind stands for the three.                        *)
ActivePreparations(o) ==
  Cardinality({k \in Candidates :
                 Author[k] = o /\ candidate[k] = "resolving_sources"})
    + Cardinality({c \in Commits : intent[o][c].status \in Holding})

(* reservePreparation, serialized by an advisory lock. *)
reservePreparation(o) == ActivePreparations(o) < ActiveLimit

(* importCandidate; a document known already is answered without a new row.   *)
ImportCandidate(k) ==
  /\ candidate[k] = "none"
  /\ reservePreparation(Author[k])
  /\ candidate' = [candidate EXCEPT ![k] = "resolving_sources"]
  /\ UNCHANGED <<frontier, ticketVars, workVars, submitted, version>>

(* resolveCandidate: whatever the sources answered, the slot is free again.   *)
ResolveCandidate(k) ==
  /\ candidate[k] = "resolving_sources"
  /\ candidate' = [candidate EXCEPT ![k] = "settled"]
  /\ UNCHANGED <<frontier, ticketVars, workVars, submitted, version>>

-----------------------------------------------------------------------------
(* Frontier tickets *)

(* AdmissionFrontier: never below the frozen baseline. *)
AdmissionFrontier ==
  IF better(frontier, metric.baseline, metric.direction) THEN frontier
  ELSE metric.baseline

(* checkFrontierClaim.  The lock digest and the form of the report are part   *)
(* of a claim that reaches the comparison. *)
FrontierImprovement(ticks) == meaningful(ticks, AdmissionFrontier, metric)

Live(t)     == t > expired /\ ~tickets[t].consumed
LiveOf(o)   == {t \in DOMAIN tickets : tickets[t].owner = o /\ Live(t)}

(* The claim is the same in every field. *)
SameClaim(t, c) ==
  /\ tickets[t].owner = c.owner /\ tickets[t].commit = c.commit
  /\ tickets[t].artifact = c.artifact /\ tickets[t].ticks = c.ticks

(* The artifact has been accepted, or the account has consumed a ticket for it. *)
Duplicate(o, a) ==
  \/ a \in submitted
  \/ \E t \in DOMAIN tickets :
       tickets[t].owner = o /\ tickets[t].artifact = a /\ tickets[t].consumed

(* createFrontierTicket.  The claim that consumed a ticket, and an identical  *)
(* live claim, are answered with the ticket that exists: no state changes.    *)
createFrontierTicket(c) ==
  /\ version = "published"
  /\ Len(tickets) < MaxTickets
  /\ \A t \in DOMAIN tickets :
       SameClaim(t, c) => ~tickets[t].consumed /\ ~Live(t)
  /\ FrontierImprovement(c.ticks)
  /\ ~Duplicate(c.owner, c.artifact)
  /\ Cardinality(LiveOf(c.owner)) < LiveTickets
  /\ tickets' = Append(tickets,
       [owner |-> c.owner, commit |-> c.commit, artifact |-> c.artifact,
        ticks |-> c.ticks, frontier |-> AdmissionFrontier, consumed |-> FALSE])
  /\ UNCHANGED <<frontier, expired, candidate, workVars, submitted, version>>

ExpireTicket ==
  /\ expired < Len(tickets)
  /\ expired' = expired + 1
  /\ UNCHANGED <<frontier, tickets, candidate, workVars, submitted, version>>

-----------------------------------------------------------------------------
(* Submission intents *)

(* Seeded fault: the claim is not screened again. *)
ConsumableOnce(t, o, c) ==
  /\ tickets[t].owner = o /\ tickets[t].commit = c
  /\ Live(t)

(* consumeFrontierTicket screens the claim again, against today's frontier.   *)
Consumable(t, o, c) ==
  /\ tickets[t].owner = o /\ tickets[t].commit = c
  /\ Live(t)
  /\ FrontierImprovement(tickets[t].ticks)

(* createIntent.  An intent of the same account and commit is returned as it  *)
(* is and its request's ticket is left alone; otherwise ticket, budget, row   *)
(* and fetch task stand or fall together.                                     *)
createIntent(o, c, t) ==
  /\ version = "published"
  /\ intent[o][c].status = "none"
  /\ Consumable(t, o, c)
  /\ reservePreparation(o)
  /\ intent' = [intent EXCEPT ![o][c].status = "github_fetch",
                              ![o][c].ticket = t]
  /\ tickets' = [tickets EXCEPT ![t].consumed = TRUE,
                                ![t].frontier = AdmissionFrontier]
  /\ fetch' = [fetch EXCEPT ![o][c].status = "queued"]
  /\ UNCHANGED <<frontier, expired, candidate, job, submitted, version>>

(* fetchSubmission returns at once, and the task is complete, unless the      *)
(* intent still waits for its fetch.                                          *)
Begun(f, i) ==
  IF i.status # "github_fetch" THEN [f EXCEPT !.status = "complete"]
  ELSE [f EXCEPT !.status = "running", !.tries = f.tries + 1,
                 !.inFlight = f.inFlight + 1]

(* workOne picks the task. *)
BeginFetch(o, c) ==
  /\ fetch[o][c].status = "queued"
  /\ fetch' = [fetch EXCEPT ![o][c] = Begun(@, intent[o][c])]
  /\ UNCHANGED <<frontier, ticketVars, candidate, intent, job,
                 submitted, version>>

(* Seeded fault: attempts are not counted. *)
RetriedForever(f) ==
  [f EXCEPT !.status = IF @ # "running" THEN @ ELSE "queued",
            !.tries = 0,
            !.inFlight = @ - 1]

(* The task goes back to the queue, or to an operator after MaxTries.         *)
Retried(f) ==
  [f EXCEPT !.status = IF @ # "running" THEN @
                       ELSE IF f.tries >= MaxTries THEN "attention_required"
                       ELSE "queued",
            !.inFlight = @ - 1]

Completed(f) ==
  [f EXCEPT !.status = IF @ = "running" THEN "complete" ELSE @,
            !.inFlight = @ - 1]

(* failIntent: GitHub refuses, the repository is not the account's own or the *)
(* artifact is malformed; the row is overwritten whatever its status.         *)
FailFetch(o, c) ==
  /\ fetch[o][c].inFlight > 0
  /\ intent' = [intent EXCEPT ![o][c].status = "failed"]
  /\ fetch' = [fetch EXCEPT ![o][c] = Completed(@)]
  /\ UNCHANGED <<frontier, ticketVars, candidate, job, submitted, version>>

(* The digest rebuilt from GitHub must be the one previewed with the claim.   *)
PreviewMatches(o, c) == tickets[intent[o][c].ticket].artifact = Content[c]

StoreFetch(o, c) ==
  /\ fetch[o][c].inFlight > 0
  /\ PreviewMatches(o, c)
  /\ intent' = [intent EXCEPT ![o][c] =
       IF @.status # "github_fetch" THEN @
       ELSE [@ EXCEPT !.status = "quarantine_pending",
                      !.artifact = Content[c]]]
  /\ job' = [job EXCEPT ![o][c].status = IF @ = "none" THEN "queued" ELSE @]
  /\ \E lost \in BOOLEAN :      \* the commit may succeed unacknowledged
       fetch' = [fetch EXCEPT ![o][c] =
                   IF lost THEN Retried(@) ELSE Completed(@)]
  /\ UNCHANGED <<frontier, ticketVars, candidate, submitted, version>>

(* Seeded fault: the attempt goes on beside the one that replaces it. *)
LoseLease(o, c) ==
  /\ fetch[o][c].inFlight > 0
  /\ fetch' = [fetch EXCEPT ![o][c] = [Retried(@) EXCEPT !.inFlight = @ + 1]]
  /\ UNCHANGED <<frontier, ticketVars, candidate, intent, job,
                 submitted, version>>

(* Storage or the database fails, the worker dies, or its context ends after  *)
(* eight minutes: nothing was written, and the lease outlives the attempt.    *)
LoseFetch(o, c) ==
  /\ fetch[o][c].inFlight > 0
  /\ fetch' = [fetch EXCEPT ![o][c] = Retried(@)]
  /\ UNCHANGED <<frontier, ticketVars, candidate, intent, job,
                 submitted, version>>

-----------------------------------------------------------------------------
(* Isolated preparation: an attempt of the runner job ends in one of four     *)
(* ways; its lease and its fence are module RunnerLease's subject.            *)

(* The job is queued and some host may still claim it.                        *)
Claimable(o, c) == job[o][c].status = "queued" /\ job[o][c].excluded < PoolSize

(* Queued with attempts left, but every host is in excludedHostIds.           *)
Stranded(o, c) == job[o][c].status = "queued" /\ job[o][c].excluded >= PoolSize

(* runnerObject: a job declares one disk for ever; verifyBuildObjects refuses *)
(* a report whose disk is another.                                            *)
Declares(o, c, d) == job[o][c].declared \in {None, d}

(* The result of the job: commitBuild makes the intent ready only while it    *)
(* waits for quarantine ...                                                   *)
CommitArtifact(o, c, d) ==
  /\ Claimable(o, c)
  /\ Declares(o, c, d)
  /\ job' = [job EXCEPT ![o][c].status = "complete", ![o][c].declared = d]
  /\ intent' = [intent EXCEPT ![o][c] =
       IF @.status # "quarantine_pending" THEN @
       ELSE [@ EXCEPT !.status = "ready", !.disk = d]]
  /\ UNCHANGED <<frontier, ticketVars, candidate, fetch,
                 submitted, version>>

(* ... and a report of failure fails it whatever its status. *)
FailArtifact(o, c) ==
  /\ Claimable(o, c)
  /\ job' = [job EXCEPT ![o][c].status = "complete"]
  /\ intent' = [intent EXCEPT ![o][c].status = "failed"]
  /\ UNCHANGED <<frontier, ticketVars, candidate, fetch,
                 submitted, version>>

(* recoverRunnerLeases: the host vanished, perhaps after declaring its disk.  *)
(* Unless the policy is "platform" the job is not offered to it again.        *)
LosePreparation(o, c, d) ==
  /\ Claimable(o, c)
  /\ d # None => Declares(o, c, d)
  /\ job' = [job EXCEPT
       ![o][c].status = IF job[o][c].tries + 1 >= MaxTries
                        THEN "attention_required" ELSE @,
       ![o][c].tries = @ + 1,
       ![o][c].declared = IF d = None THEN @ ELSE d,
       ![o][c].excluded = IF Policy = "platform" THEN @ ELSE @ + 1]
  /\ UNCHANGED <<frontier, ticketVars, candidate, intent, fetch,
                 submitted, version>>

(* runnerResult of an infrastructure_fault: queued again whatever the number  *)
(* of attempts, and the host is excluded under either policy.                 *)
FaultPreparation(o, c, d) ==
  /\ Claimable(o, c)
  /\ d # None => Declares(o, c, d)
  /\ job' = [job EXCEPT
       ![o][c].tries = @ + 1,
       ![o][c].declared = IF d = None THEN @ ELSE d,
       ![o][c].excluded = @ + 1]
  /\ UNCHANGED <<frontier, ticketVars, candidate, intent, fetch,
                 submitted, version>>

-----------------------------------------------------------------------------
(* Acceptance and the rest of the platform *)

(* acceptIntent: an artifact of the same account is answered with the         *)
(* existing submission and leaves the intent as it is; another account's is   *)
(* refused.  The frontier is not consulted again.                             *)
acceptIntent(o, c) ==
  /\ version = "published"
  /\ intent[o][c].status = "ready"
  /\ tickets[intent[o][c].ticket].artifact = intent[o][c].artifact
  /\ intent[o][c].artifact \notin submitted
  /\ submitted' = submitted \cup {intent[o][c].artifact}
  /\ intent' = [intent EXCEPT ![o][c].status = "accepted"]
  /\ UNCHANGED <<frontier, ticketVars, candidate, fetch, job, version>>

(* An account outside Owners has the same artifact accepted. *)
OthersAccept(a) ==
  /\ version = "published"
  /\ a \notin submitted
  /\ submitted' = submitted \cup {a}
  /\ UNCHANGED <<frontier, ticketVars, candidate, workVars, version>>

(* editorialDecision, resolve_unscorable: a checker fault on some submission   *)
(* ends the version and cancels all of its unfinished runner jobs, those that *)
(* prepare an intent too; the intents are left as they are.                   *)
ResolveUnscorable ==
  /\ submitted # {} /\ version = "published"
  /\ version' = "compromised"
  /\ job' = [o \in Owners |-> [c \in Commits |->
       IF job[o][c].status \in {"queued", "attention_required"}
       THEN [job[o][c] EXCEPT !.status = "cancelled"] ELSE job[o][c]]]
  /\ UNCHANGED <<frontier, ticketVars, candidate, intent, fetch, submitted>>

(* The ladder advances the public frontier (module Ladder, FrontierMonotone). *)
AdvanceFrontier(n) ==
  /\ better(n, frontier, metric.direction)
  /\ frontier' = n
  /\ UNCHANGED <<ticketVars, candidate, workVars, submitted, version>>

FetchStep(o, c) ==
  BeginFetch(o, c) \/ FailFetch(o, c) \/ StoreFetch(o, c) \/ LoseFetch(o, c)

PreparationStep(o, c) ==
  \/ FailArtifact(o, c)
  \/ \E d \in Disks : CommitArtifact(o, c, d)
  \/ \E d \in Disks \cup {None} :
       LosePreparation(o, c, d) \/ FaultPreparation(o, c, d)

Next ==
  \/ ExpireTicket
  \/ ResolveUnscorable
  \/ \E n \in Scored : AdvanceFrontier(n)
  \/ \E a \in Rivals : OthersAccept(a)
  \/ \E c \in Claims : createFrontierTicket(c)
  \/ \E k \in Candidates : ImportCandidate(k) \/ ResolveCandidate(k)
  \/ \E o \in Owners, c \in Commits :
       \/ \E t \in DOMAIN tickets : createIntent(o, c, t)
       \/ FetchStep(o, c) \/ PreparationStep(o, c) \/ acceptIntent(o, c)

Spec == Init /\ [][Next]_vars

(* RunWorker ticks for ever, runners poll for ever, and every attempt has a   *)
(* deadline: a running task, or a queued one that some worker or host may     *)
(* take, always takes another step.                                           *)
FairSpec ==
  Spec /\ \A o \in Owners, c \in Commits :
            WF_vars(FetchStep(o, c)) /\ WF_vars(PreparationStep(o, c))

-----------------------------------------------------------------------------
(* Properties *)

(* Every intent was admitted by one ticket of its own account, commit and     *)
(* artifact, whose claim improved the public frontier recorded on the ticket  *)
(* when it was consumed; two intents never share a ticket, and what was       *)
(* fetched and accepted is the artifact claimed (frontier_admission.go:131,   *)
(* worker.go:130, submissions.go:217).                                        *)
AdmissionBound ==
  \A o \in Owners, c \in Commits : intent[o][c].status # "none" =>
    LET t == intent[o][c].ticket IN
    /\ t \in DOMAIN tickets
    /\ tickets[t].consumed /\ tickets[t].owner = o /\ tickets[t].commit = c
    /\ meaningful(tickets[t].ticks, tickets[t].frontier, metric)
    /\ intent[o][c].artifact \in {None, tickets[t].artifact}
    /\ \A p \in Owners, e \in Commits :
         intent[p][e].ticket = t => p = o /\ e = c

(* An account never holds more unresolved preparations than allowed, although *)
(* rows change status in other transactions than the one that counted them    *)
(* (admission.go:23).                                                         *)
ActiveBounded ==
  \A o \in Owners :
    Cardinality({k \in Candidates :
                   Author[k] = o /\ candidate[k] = "resolving_sources"})
      + Cardinality({c \in Commits : intent[o][c].status \in Holding})
        <= ActiveLimit

(* failIntent and a failed build overwrite any status: an accepted intent is  *)
(* safe from them only because an attempt ends before its lease does and a    *)
(* job reports once (worker.go:157, preparation.go:172).                      *)
AcceptedStays ==
  [][\A o \in Owners, c \in Commits :
       intent[o][c].status = "accepted" => intent'[o][c].status = "accepted"]_vars

(* An admitted intent becomes ready or failed, or its task or job is left for *)
(* an operator (worker.go:92, preparation.go:162).  Two cases nobody is told  *)
(* of remain: every host is excluded from the job (runners.go:75, 373), and   *)
(* resolve_unscorable cancelled it under the intent (editorial.go:175).       *)
IntentSettles ==
  \A o \in Owners, c \in Commits :
    intent[o][c].status \in {"github_fetch", "quarantine_pending"} ~>
      \/ intent[o][c].status \in {"ready", "failed", "accepted"}
      \/ "attention_required" \in {fetch[o][c].status, job[o][c].status}
      \/ Stranded(o, c)
      \/ version = "compromised" /\ job[o][c].status = "cancelled"

(* What IntentSettles rests on: an intent that waits has what it waits for, a *)
(* fetch that is queued or under way, or a job some host may claim, or one    *)
(* before an operator, although task, row and job are written by different    *)
(* transactions and each is inserted once (worker.go:92, preparation.go:20).  *)
(* Its job may also have run out of hosts, or have been cancelled with the    *)
(* version (editorial.go:175): then nothing is left that would end the wait.  *)
IntentHasWork ==
  \A o \in Owners, c \in Commits :
    /\ intent[o][c].status = "github_fetch" =>
         \/ fetch[o][c].status \in {"queued", "attention_required"}
         \/ fetch[o][c].inFlight > 0
    /\ intent[o][c].status = "quarantine_pending" =>
         \/ Claimable(o, c) \/ Stranded(o, c)
         \/ job[o][c].status = "attention_required"
         \/ job[o][c].status = "cancelled" /\ version = "compromised"
=============================================================================
