------------------------------ MODULE Versions ------------------------------
(***************************************************************************)
(* The versions of one challenge: how a successor is created beside a      *)
(* fetch of its source, published as a season or through a signed security *)
(* migration, paused, withdrawn or compromised by an editor, and when the  *)
(* hidden suite its versions share may be revealed.  Module Review is the  *)
(* life of each version up to its lock.                                    *)
(*                                                                         *)
(* Submissions are counted only: accepted receipts (next), resolved ones   *)
(* (watermark), the public frontier and milestone claims; module Ladder    *)
(* has them in full.                                                       *)
(***************************************************************************)
EXTENDS Review

CONSTANTS
  Milestones,      \* milestone ids of the challenge
  FirstMilestones, \* the ones of the first manifest
  Hidden,          \* versions whose manifest names the one hidden suite
  EarlyReveal,     \* versions whose revealAt precedes their deadline
  Expiring,        \* versions whose deadline may pass in this instance
  MaxReceipts,     \* bound: receipts accepted by one version
  MaxFrontier      \* bound: advances of one public frontier

Transitions == {"season", "security_migration"}
NoVersion   == 0
NoDraft     == [prior |-> NoVersion, kind |-> "season", frontier |-> 0]
NoEvidence  == [signature |-> "none", watermark |-> 0, frontier |-> 0]

ASSUME VersionsAssumption ==
  /\ VersionIds \subseteq Nat \ {0} /\ 1 \in VersionIds
  /\ \A v \in VersionIds : 1..v \subseteq VersionIds
  /\ IsFiniteSet(Milestones) /\ FirstMilestones \subseteq Milestones
  /\ Hidden \subseteq VersionIds /\ EarlyReveal \subseteq VersionIds
  /\ Expiring \subseteq VersionIds
  /\ MaxReceipts \in Nat /\ MaxFrontier \in Nat

VARIABLES
  predecessor,    \* challenge_versions.predecessor_id
  transition,     \* challenge_versions.transition_kind
  priorFrontier,  \* challenge_versions.prior_frontier_digest
  manifest,       \* the milestones of the locked manifest
  expired,        \* versions whose deadline has passed
  next,           \* challenge_versions.next_sequence
  watermark,      \* challenge_versions.watermark
  frontier,       \* public_frontier_id, as the number of its advances
  mapping,        \* milestone_version_mappings
  claim,          \* the version of a milestone's claim
  draft,          \* a createVersion request waiting for its source
  evidence,       \* the migration receipt of migration_receipt_digest
  completion,     \* the complete_migration task row
  completions,    \* its attempts
  revealed,       \* hidden_suites.revealed_at IS NOT NULL
  reopened        \* history: versions whose closed intake opened again

lineage    == <<predecessor, transition, priorFrontier, manifest, draft>>
receipts   == <<next, watermark, frontier, claim>>
migration  == <<evidence, completion, completions>>
versionVars == <<lineage, receipts, migration, mapping, expired, revealed,
                 reopened>>
vars == <<reviewVars, versionVars>>

VersionsTypeOK ==
  /\ ReviewTypeOK
  /\ predecessor \in [VersionIds -> VersionIds \cup {NoVersion}]
  /\ transition \in [VersionIds -> Transitions]
  /\ priorFrontier \in [VersionIds -> Nat]
  /\ manifest \in [VersionIds -> SUBSET Milestones]
  /\ expired \in SUBSET VersionIds
  /\ next \in [VersionIds -> Nat] /\ watermark \in [VersionIds -> Nat]
  /\ frontier \in [VersionIds -> Nat]
  /\ mapping \in [Milestones -> SUBSET VersionIds]
  /\ claim \in [Milestones -> VersionIds \cup {NoVersion}]
  /\ draft \in [prior : VersionIds \cup {NoVersion}, kind : Transitions,
                frontier : Nat]
  /\ evidence \in [VersionIds -> [signature : Signature, watermark : Nat,
                                  frontier : Nat]]
  /\ completion \in [VersionIds -> TaskStatus]
  /\ completions \in [VersionIds -> Nat]
  /\ revealed \in BOOLEAN
  /\ reopened \in SUBSET VersionIds

(* createChallenge: the first version and its milestones, which a trigger     *)
(* maps to it.                                                                *)
VersionsInit ==
  /\ predecessor = [v \in VersionIds |-> NoVersion]
  /\ transition = [v \in VersionIds |-> "season"]
  /\ priorFrontier = [v \in VersionIds |-> 0]
  /\ manifest = [v \in VersionIds |-> IF v = 1 THEN FirstMilestones ELSE {}]
  /\ expired = {}
  /\ next = [v \in VersionIds |-> 0] /\ watermark = [v \in VersionIds |-> 0]
  /\ frontier = [v \in VersionIds |-> 0]
  /\ mapping = [m \in Milestones |-> IF m \in FirstMilestones THEN {1} ELSE {}]
  /\ claim = [m \in Milestones |-> NoVersion]
  /\ draft = NoDraft
  /\ evidence = [v \in VersionIds |-> NoEvidence]
  /\ completion = [v \in VersionIds |-> "none"]
  /\ completions = [v \in VersionIds |-> 0]
  /\ revealed = FALSE
  /\ reopened = {}

Init == ReviewInit /\ VersionsInit

-----------------------------------------------------------------------------
(* Creating a successor *)

Exists(v)  == status[v] # "none"
Newest(v)  == Exists(v) /\ \A w \in VersionIds : Exists(w) => w <= v
Drained(v) == next[v] = watermark[v]
Shut(v)    == intake[v] \in {"paused", "closed"}

(* The checks of createVersion on the newest version, made before the fetch   *)
(* and again in its transaction.                                              *)
MayPrecede(v, kind) ==
  /\ Newest(v) /\ Drained(v)
  /\ kind = "security_migration" => Shut(v)

(* requireSuiteOwner and lockSuiteOwner *)
SuiteAvailable(v) == v \in Hidden => ~revealed

(* createVersion up to the fetch: what it saw of the predecessor *)
BeginVersion(v, kind) ==
  /\ draft = NoDraft /\ v + 1 \in VersionIds
  /\ MayPrecede(v, kind) /\ SuiteAvailable(v + 1)
  /\ draft' = [prior |-> v, kind |-> kind, frontier |-> frontier[v]]
  /\ UNCHANGED <<reviewVars, predecessor, transition, priorFrontier, manifest,
                 receipts, migration, mapping, expired, revealed, reopened>>

(* The fetch, the manifest or one of the checks after it fails. *)
AbandonVersion ==
  /\ draft # NoDraft
  /\ draft' = NoDraft
  /\ UNCHANGED <<reviewVars, predecessor, transition, priorFrontier, manifest,
                 receipts, migration, mapping, expired, revealed, reopened>>

(* one_pending_security_migration, and the test resume makes *)
PendingMigration(v) ==
  \E w \in VersionIds :
    /\ predecessor[w] = v /\ transition[w] = "security_migration"
    /\ status[w] \notin {"published", "superseded", "compromised"}

(* Milestone ids of a new manifest: unknown ones are created; a known one     *)
(* may only be carried by a migration, unclaimed, from the predecessor.       *)
MayList(m, prior, kind) ==
  mapping[m] = {} \/ ( /\ kind = "security_migration"
                       /\ claim[m] = NoVersion /\ prior \in mapping[m])

(* createVersion's transaction *)
FinishVersion ==
  LET prior == draft.prior  v == prior + 1 IN
  /\ draft # NoDraft
  /\ MayPrecede(prior, draft.kind) /\ SuiteAvailable(v)
  /\ frontier[prior] = draft.frontier
  /\ status[prior] # "machine_preflight"
  /\ draft.kind = "security_migration" => ~PendingMigration(prior)
  /\ \E ms \in SUBSET Milestones \ {{}} :
       /\ \A m \in ms : MayList(m, prior, draft.kind)
       /\ manifest' = [manifest EXCEPT ![v] = ms]
       /\ mapping' = [m \in Milestones |->
                        IF m \in ms /\ mapping[m] = {} THEN {v} ELSE mapping[m]]
  /\ predecessor' = [predecessor EXCEPT ![v] = prior]
  /\ transition' = [transition EXCEPT ![v] = draft.kind]
  /\ priorFrontier' = [priorFrontier EXCEPT ![v] = draft.frontier]
  /\ draft' = NoDraft
  /\ IF draft.kind = "season"
     THEN /\ status' = [status EXCEPT ![v] = "draft", ![prior] = "superseded"]
          /\ intake' = [intake EXCEPT ![prior] = "closed"]
     ELSE /\ status' = [status EXCEPT ![v] = "draft"]
          /\ UNCHANGED intake
  /\ UNCHANGED <<review, lock, buildState, reviewState, boundRuns, decisions,
                 receipts, migration, expired, revealed, reopened>>
-----------------------------------------------------------------------------
(* Publication *)

(* challenge_one_open_version *)
NoOtherOpen(v) == \A w \in VersionIds \ {v} : intake[w] # "open"

(* History: a closed intake is closed no longer. *)
Reopen == reopened' = reopened \cup {v \in VersionIds : /\ intake[v] = "closed"
                                                      /\ intake'[v] # "closed"}

MayPublish(v) == status[v] = "locked" /\ lock[v] = "signed"

(* publishChallenge, of a season *)
PublishChallenge(v) ==
  /\ MayPublish(v)
  /\ transition[v] = "season"
  /\ v \notin expired /\ NoOtherOpen(v)
  /\ status' = [status EXCEPT ![v] = "published"]
  /\ intake' = [intake EXCEPT ![v] = "open"]
  /\ Reopen
  /\ UNCHANGED <<review, lock, buildState, reviewState, boundRuns, decisions,
                 lineage, receipts, migration, mapping, expired,
                 revealed>>

(* The predecessor a migration relies on: paused or closed, every accepted    *)
(* receipt resolved, and the public frontier the new version reproduced.      *)
PredecessorReady(v) ==
  LET u == predecessor[v] IN
  /\ Drained(u) /\ Shut(u) /\ frontier[u] = priorFrontier[v]

(* publishChallenge, of a migration: stageMigration *)
StageMigration(v) ==
  LET u == predecessor[v] IN
  /\ MayPublish(v)
  /\ transition[v] = "security_migration"
  /\ PredecessorReady(v)
  /\ evidence' = [evidence EXCEPT ![v] = [signature |-> "pending",
                     watermark |-> watermark[u], frontier |-> frontier[u]]]
  /\ status' = [status EXCEPT ![v] = "migration_signing"]
  /\ completion' = [completion EXCEPT ![v] = IF @ = "none" THEN "queued" ELSE @]
  /\ UNCHANGED <<review, intake, lock, buildState, reviewState, boundRuns,
                 decisions, lineage, receipts, completions, mapping, expired,
                 revealed, reopened>>

SignMigration(v) ==
  /\ evidence[v].signature = "pending"
  /\ evidence' = [evidence EXCEPT ![v].signature = "signed"]
  /\ UNCHANGED <<reviewVars, lineage, receipts, completion, completions, mapping,
                 expired, revealed, reopened>>

Carried(v) == {m \in manifest[v] : v \notin mapping[m]}

(* Seeded fault: the predecessor is left as it was. *)
OpenSuccessor(v) ==
  /\ status' = [status EXCEPT ![v] = "published"]
  /\ intake' = [intake EXCEPT ![v] = "open"]

(* The predecessor is closed, whatever its status, and the successor opens. *)
Succeed(v) ==
  /\ status' = [status EXCEPT ![predecessor[v]] = "superseded", ![v] = "published"]
  /\ intake' = [intake EXCEPT ![predecessor[v]] = "closed", ![v] = "open"]

(* completeMigration, the transfer *)
CompleteMigration(v) ==
  LET u == predecessor[v] IN
  /\ completion[v] = "queued" /\ status[v] = "migration_signing"
  /\ PredecessorReady(v)
  /\ evidence[v] = [signature |-> "signed", watermark |-> watermark[u],
                    frontier |-> frontier[u]]
  /\ \A m \in manifest[v] : claim[m] = NoVersion
  /\ \A m \in Carried(v) : u \in mapping[m]
  /\ v \notin expired /\ \A w \in VersionIds \ {u, v} : intake[w] # "open"
  /\ mapping' = [m \in Milestones |-> IF m \in manifest[v]
                                      THEN mapping[m] \cup {v} ELSE mapping[m]]
  /\ Succeed(v)
  /\ Reopen
  /\ completion' = [completion EXCEPT ![v] = "complete"]
  /\ UNCHANGED <<review, lock, buildState, reviewState, boundRuns, decisions,
                 lineage, receipts, evidence, completions, expired, revealed>>

(* Seeded fault: the retry is not counted. *)
MigrationRetries(v) == completions

MigrationAttempts(v) == [completions EXCEPT ![v] = @ + 1]

(* completeMigration refuses or fails; the task is retried a few times only. *)
RetryMigration(v) ==
  /\ completion[v] = "queued"
  /\ completions' = MigrationAttempts(v)
  /\ completion' = [completion EXCEPT ![v] =
       IF completions'[v] >= MaxTries THEN "attention_required" ELSE "queued"]
  /\ UNCHANGED <<reviewVars, lineage, receipts, evidence, mapping, expired,
                 revealed, reopened>>

(* Its worker dies; the expired lease is taken again, whatever the count.     *)
LoseMigrator(v) ==
  /\ completion[v] = "queued" /\ completions[v] < MaxLost
  /\ completions' = MigrationAttempts(v)
  /\ UNCHANGED <<reviewVars, lineage, receipts, evidence, completion, mapping,
                 expired, revealed, reopened>>

-----------------------------------------------------------------------------
(* Editorial decisions on a published version: editorDecision *)

Pause(v) ==
  /\ Decide(v, "pause") /\ status[v] = "published"
  /\ intake' = [intake EXCEPT ![v] = "paused"]
  /\ Reopen
  /\ UNCHANGED <<status, review, lock, buildState, reviewState, boundRuns,
                 lineage, receipts, migration, mapping, expired,
                 revealed>>

Resume(v) ==
  /\ Decide(v, "resume") /\ ~PendingMigration(v)
  /\ status[v] = "published" /\ intake[v] = "paused" /\ v \notin expired
  /\ NoOtherOpen(v)
  /\ intake' = [intake EXCEPT ![v] = "open"]
  /\ UNCHANGED <<status, review, lock, buildState, reviewState, boundRuns,
                 versionVars>>

Withdraw(v) ==
  /\ Decide(v, "withdraw") /\ status[v] \in {"published", "superseded"}
  /\ status' = [status EXCEPT ![v] = "withdrawn"]
  /\ intake' = [intake EXCEPT ![v] = "closed"]
  /\ UNCHANGED <<review, lock, buildState, reviewState, boundRuns, versionVars>>

-----------------------------------------------------------------------------
(* Receipts, as the versions see them *)

(* acceptIntent *)
AcceptReceipt(v) ==
  /\ status[v] = "published" /\ intake[v] = "open" /\ v \notin expired
  /\ next[v] < MaxReceipts
  /\ next' = [next EXCEPT ![v] = @ + 1]
  /\ UNCHANGED <<reviewVars, lineage, watermark, frontier, claim, migration,
                 mapping, expired, revealed, reopened>>

(* adjudicate, one receipt: it may claim open milestones, which publishes it, *)
(* and a published one may advance the frontier.                              *)
ResolveReceipt(v) ==
  /\ watermark[v] < next[v]
  /\ watermark' = [watermark EXCEPT ![v] = @ + 1]
  /\ \E ms \in SUBSET {m \in Milestones : v \in mapping[m] /\ claim[m] = NoVersion} :
       claim' = [m \in Milestones |-> IF m \in ms THEN v ELSE claim[m]]
  /\ \E advance \in BOOLEAN :
       /\ advance => frontier[v] < MaxFrontier
       /\ frontier' = [frontier EXCEPT ![v] = IF advance THEN @ + 1 ELSE @]
  /\ UNCHANGED <<reviewVars, lineage, next, migration, mapping, expired, revealed, reopened>>

(* A run of an unresolved receipt reports a checker fault, or disagrees with  *)
(* the other: its result pauses the intake, over 'closed' too.                *)
IncidentPauses(v) ==
  /\ Exists(v) /\ watermark[v] < next[v]
  /\ intake' = [intake EXCEPT ![v] = "paused"]
  /\ Reopen
  /\ UNCHANGED <<status, review, lock, buildState, reviewState, boundRuns,
                 decisions, lineage, receipts, migration, mapping, expired,
                 revealed>>

(* publishSubmission, of a result kept private so far: at any time, whatever  *)
(* has become of the version.                                                 *)
PublishLater(v) ==
  /\ watermark[v] > 0 /\ frontier[v] < MaxFrontier
  /\ frontier' = [frontier EXCEPT ![v] = @ + 1]
  /\ UNCHANGED <<reviewVars, lineage, next, watermark, claim, migration, mapping,
                 expired, revealed, reopened>>

DeadlinePasses(v) ==
  /\ v \in Expiring \ expired /\ Exists(v)
  /\ expired' = expired \cup {v}
  /\ UNCHANGED <<reviewVars, lineage, receipts, migration, mapping, revealed, reopened>>

-----------------------------------------------------------------------------
(* Hidden suites *)

Bound == {v \in Hidden : Exists(v)}
Due(v) == v \in EarlyReveal \/ v \in expired

(* Seeded fault: only the reveal time counts. *)
RevealTimePassed(v) == Due(v)

MayReveal(v) == (intake[v] = "closed" \/ v \in expired) /\ Due(v)

(* revealSuite: the test is made before the suite is opened and again in the  *)
(* transaction that holds its row.                                            *)
RevealSuite ==
  /\ ~revealed /\ Bound # {} /\ \A v \in Bound : MayReveal(v)
  /\ revealed' = TRUE
  /\ UNCHANGED <<reviewVars, lineage, receipts, migration, mapping, expired, reopened>>

Next ==
  \/ \E v \in VersionIds :
       \/ ReviewStep(v) /\ UNCHANGED versionVars
       \/ \E kind \in Transitions : BeginVersion(v, kind)
       \/ PublishChallenge(v) \/ StageMigration(v) \/ SignMigration(v)
       \/ CompleteMigration(v) \/ RetryMigration(v) \/ LoseMigrator(v)
       \/ Pause(v) \/ Resume(v) \/ Withdraw(v)
       \/ AcceptReceipt(v) \/ ResolveReceipt(v) \/ IncidentPauses(v)
       \/ PublishLater(v) \/ DeadlinePasses(v)
  \/ FinishVersion \/ AbandonVersion \/ RevealSuite

Spec == Init /\ [][Next]_vars

(* The worker loop runs the complete_migration task. *)
Fairness ==
  \A v \in VersionIds :
    WF_vars(CompleteMigration(v) \/ RetryMigration(v))

FairSpec == Spec /\ Fairness

-----------------------------------------------------------------------------
(* Properties *)

(* The signed migration receipt stays true: once the successor is published   *)
(* the predecessor has exactly the receipts the evidence counts, all of them  *)
(* resolved, whatever editors and solvers do to either version later          *)
(* (stageMigration, completeMigration, acceptIntent, resume), unless a closed *)
(* intake was opened again.                                                   *)
MigrationEvidence ==
  \A v \in VersionIds :
    transition[v] = "security_migration" /\ completion[v] = "complete" =>
      LET u == predecessor[v] IN
      /\ priorFrontier[v] = evidence[v].frontier
      /\ u \notin reopened => /\ next[u] = evidence[v].watermark
                             /\ watermark[u] = evidence[v].watermark

(* A milestone is claimed in the newest version that lists it: a claimed one  *)
(* is never carried on, and one that was carried on is never claimed in the   *)
(* version it came from.                                                      *)
ClaimedWhereOpen ==
  \A m \in Milestones : claim[m] # NoVersion =>
    /\ claim[m] \in mapping[m]
    /\ claim[m] \notin reopened => \A w \in mapping[m] : w <= claim[m]

(* While a version accepts solutions its hidden suite is secret, unless its   *)
(* intake had been closed (rejected, or shut before its lock) and opened      *)
(* again.                                                                     *)
Competing(v) == status[v] = "published" /\ intake[v] = "open" /\ v \notin expired
SuiteSecret ==
  revealed => \A v \in Hidden : Competing(v) => v \in reopened

(* A staged migration is published or needs an operator. *)
MigrationSettles ==
  \A v \in VersionIds :
    status[v] = "migration_signing" ~>
      status[v] # "migration_signing" \/ completion[v] = "attention_required"

=============================================================================
