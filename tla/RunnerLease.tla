---------------------------- MODULE RunnerLease ----------------------------
(***************************************************************************)
(* How a verification host obtains a runner job, executes it and delivers  *)
(* its signed result: the runner API of the control plane (runners.go) and *)
(* the runner daemon with its durable result spool (cmd/runnerd).  A claim *)
(* reads a row, signs outside the transaction and completes with a compare *)
(* and swap; leases expire, are recovered and cancelled; requests and      *)
(* replies are lost or arrive after the daemon stopped waiting; daemons    *)
(* crash and restart.                                                      *)
(*                                                                         *)
(* A lease is named by the result token of its claim: secret() is fresh,   *)
(* so the number of the claim stands for it.  Hosts are honest: signature, *)
(* delegation and input bindings of a result always verify.                *)
(***************************************************************************)
EXTENDS Integers, FiniteSets

CONSTANTS
  Jobs,         \* runner_jobs of one challenge version
  Hosts,        \* enabled runner hosts
  Platform,     \* jobs under the platform policy; the others exclude a host
  Outcomes,     \* terminal outcomes of a run
  MaxAttempts,  \* claims after which an expired lease needs attention (8)
  MaxPosts,     \* posts of one delivery before the daemon gives up (3)
  MaxFaults,    \* bound: daemon crashes and failing claim handlers
  MayCancel,    \* whether an editor resolves the version in this instance
  NULL

Fault == "infrastructure_fault"

VARIABLES
  row,       \* runner_jobs
  result,    \* runner_results: job -> stored delivery
  claims,    \* claim handlers between their SELECT and their compare and swap
  posts,     \* result requests on their way to the API
  taken,     \* history: deliveries the API has accepted
  daemon,    \* what each host's runnerd is doing
  holding,   \* the lease a host is executing
  tries,     \* posts of the current delivery that failed
  reply,     \* the answer a waiting daemon has received
  spool,     \* the persisted delivery of a host
  workdir,   \* an interrupted run left the directory WorkRoot/active behind
  faults     \* daemon crashes and failed claim handlers so far

serverVars == <<row, result, claims, taken>>
hostVars   == <<daemon, holding, tries, reply, spool, workdir>>
vars == <<serverVars, posts, hostVars, faults>>

-----------------------------------------------------------------------------
(* Types *)

RowStatus == {"queued", "running", "complete", "attention_required", "cancelled"}
Row == [status : RowStatus, fence : Nat, holder : Hosts \cup {NULL},
        token : Nat \cup {NULL}, expired : BOOLEAN, attempts : Nat,
        excluded : SUBSET Hosts]
Lease    == [job : Jobs, host : Hosts, fence : Nat, token : Nat]
Delivery == [lease : Lease, outcome : Outcomes \cup {Fault}]
Claim    == [job : Jobs, host : Hosts, fence : Nat, waiting : BOOLEAN]

ASSUME LeaseAssumption ==
  /\ IsFiniteSet(Hosts)
  /\ Platform \subseteq Jobs
  /\ Fault \notin Outcomes
  /\ MaxAttempts \in Nat /\ MaxPosts \in Nat \ {0} /\ MaxFaults \in Nat
  /\ MayCancel \in BOOLEAN
  /\ NULL \notin Hosts \cup Nat \cup Lease \cup Delivery
  /\ NULL \notin [host : Hosts, number : Nat]

(* starting: replayResults; idle: the serve loop; claiming: waits for a     *)
(* claim; executing: runtime.Run; delivering: posts its result; exited      *)
DaemonState == {"starting", "idle", "claiming", "executing", "delivering",
                "exited"}

TypeOK ==
  /\ row \in [Jobs -> Row]
  /\ result \in [Jobs -> Delivery \cup {NULL}]
  /\ claims \subseteq Claim
  /\ posts \subseteq Delivery
  /\ taken \subseteq Delivery
  /\ daemon \in [Hosts -> DaemonState]
  /\ holding \in [Hosts -> Lease \cup {NULL}]
  /\ tries \in [Hosts -> Nat]
  /\ reply \in [Hosts -> {"none", "waiting", "accepted", "failed"}]
  /\ spool \in [Hosts -> Delivery \cup {NULL}]
  /\ workdir \in [Hosts -> BOOLEAN]
  /\ faults \in Nat

Init ==
  /\ row = [j \in Jobs |-> [status |-> "queued", fence |-> 1, holder |-> NULL,
                            token |-> NULL, expired |-> FALSE, attempts |-> 0,
                            excluded |-> {}]]
  /\ result = [j \in Jobs |-> NULL]
  /\ claims = {} /\ posts = {} /\ taken = {}
  /\ daemon = [h \in Hosts |-> "starting"]
  /\ holding = [h \in Hosts |-> NULL]
  /\ tries = [h \in Hosts |-> 0]
  /\ reply = [h \in Hosts |-> "none"]
  /\ spool = [h \in Hosts |-> NULL]
  /\ workdir = [h \in Hosts |-> FALSE]
  /\ faults = 0

-----------------------------------------------------------------------------
(* Claiming a job: claimRunnerJob *)

Claimable(j, h) == row[j].status = "queued" /\ h \notin row[j].excluded

(* The daemon asks for work; the handler reads a queued row, commits and     *)
(* goes on to sign outside the transaction.  FOR UPDATE SKIP LOCKED lets     *)
(* concurrent handlers pass over the oldest row, so any row may be read.     *)
SelectJob(h, j) ==
  /\ daemon[h] = "idle"
  /\ Claimable(j, h)
  /\ claims' = claims \cup {[job |-> j, host |-> h, fence |-> row[j].fence,
                             waiting |-> TRUE]}
  /\ daemon' = [daemon EXCEPT ![h] = "claiming"]
  /\ UNCHANGED <<row, result, taken, posts, holding, tries, reply, spool,
                 workdir, faults>>

(* The claims whose client no longer waits for h: timeout or crash. *)
Orphaned(h) == {IF c.host = h THEN [c EXCEPT !.waiting = FALSE] ELSE c : c \in claims}

AbandonClaim(h) ==
  /\ daemon[h] = "claiming"
  /\ daemon' = [daemon EXCEPT ![h] = "idle"]
  /\ claims' = Orphaned(h)
  /\ UNCHANGED <<row, result, taken, posts, holding, tries, reply, spool,
                 workdir, faults>>

(* Seeded fault: the compare and swap looks at the fence only. *)
SwapsByFence(c) == row[c.job].fence = c.fence

Swaps(c) == row[c.job].status = "queued" /\ row[c.job].fence = c.fence

Granted(r, h) == [r EXCEPT !.status = "running", !.holder = h,
                           !.token = r.attempts + 1, !.expired = FALSE,
                           !.attempts = r.attempts + 1]

(* The compare and swap, and the answer, which only a daemon that still      *)
(* waits receives; 409 job_claimed sends it back to its loop.                *)
ClaimRunnerJob(c) ==
  LET j == c.job
      h == c.host
      answered == c.waiting /\ daemon[h] = "claiming"
      lease == [job |-> j, host |-> h, fence |-> c.fence,
                token |-> row[j].attempts + 1] IN
  /\ c \in claims
  /\ claims' = claims \ {c}
  /\ row' = IF Swaps(c) THEN [row EXCEPT ![j] = Granted(row[j], h)] ELSE row
  /\ daemon' = [daemon EXCEPT ![h] =
       IF ~answered THEN @ ELSE IF Swaps(c) THEN "executing" ELSE "idle"]
  /\ holding' = [holding EXCEPT ![h] = IF answered /\ Swaps(c) THEN lease ELSE @]
  /\ UNCHANGED <<result, taken, posts, tries, reply, spool, workdir, faults>>

(* The handler fails after its SELECT: object storage, suite grant or signer *)
(* unavailable.  Nothing is written.                                         *)
ClaimFails(c) ==
  /\ c \in claims /\ faults < MaxFaults
  /\ claims' = claims \ {c}
  /\ faults' = faults + 1
  /\ daemon' = [daemon EXCEPT ![c.host] =
       IF c.waiting /\ @ = "claiming" THEN "idle" ELSE @]
  /\ UNCHANGED <<row, result, taken, posts, holding, tries, reply, spool, workdir>>

-----------------------------------------------------------------------------
(* Leases ending without a result *)

LeaseExpires(j) ==
  /\ row[j].status = "running" /\ ~row[j].expired
  /\ row' = [row EXCEPT ![j].expired = TRUE]
  /\ UNCHANGED <<result, claims, taken, posts, hostVars, faults>>

(* Seeded fault: the fence is not superseded. *)
RecoveredSameFence(j, r) ==
  [r EXCEPT !.status = IF r.attempts >= MaxAttempts THEN "attention_required"
                                                    ELSE "queued",
            !.holder = NULL, !.token = NULL, !.expired = FALSE]

Recovered(j, r) ==
  [r EXCEPT !.status = IF r.attempts >= MaxAttempts THEN "attention_required"
                                                    ELSE "queued",
            !.fence = r.fence + 1,
            !.excluded = IF j \in Platform THEN r.excluded
                                           ELSE r.excluded \cup {r.holder},
            !.holder = NULL, !.token = NULL, !.expired = FALSE]

(* Seeded fault: leases that used up their attempts are passed over. *)
RecoversBelowLimit ==
  /\ \E j \in Jobs : row[j].expired /\ row[j].attempts < MaxAttempts
  /\ row' = [j \in Jobs |-> IF row[j].expired /\ row[j].attempts < MaxAttempts
                            THEN Recovered(j, row[j]) ELSE row[j]]
  /\ UNCHANGED <<result, claims, taken, posts, hostVars, faults>>

(* recoverRunnerLeases: one statement for every expired lease *)
RecoverRunnerLeases ==
  /\ \E j \in Jobs : row[j].expired
  /\ row' = [j \in Jobs |-> IF row[j].expired THEN Recovered(j, row[j]) ELSE row[j]]
  /\ UNCHANGED <<result, claims, taken, posts, hostVars, faults>>

(* resolve_unscorable cancels every job of the version that has not ended. *)
CancelJobs ==
  LET live == {"queued", "running", "attention_required"} IN
  /\ MayCancel
  /\ \E j \in Jobs : row[j].status \in live
  /\ row' = [j \in Jobs |-> IF row[j].status \in live
                            THEN [row[j] EXCEPT !.status = "cancelled",
                                                !.fence = row[j].fence + 1,
                                                !.expired = FALSE]
                            ELSE row[j]]
  /\ UNCHANGED <<result, claims, taken, posts, hostVars, faults>>

-----------------------------------------------------------------------------
(* Receiving a result: runnerResult *)

(* Seeded fault: the lease is looked at before the stored result. *)
AnswerLeaseFirst(d) ==
  LET r == row[d.lease.job] IN
  IF \/ r.token # d.lease.token \/ r.status # "running"
     \/ r.holder # d.lease.host \/ r.expired \/ r.fence # d.lease.fence
  THEN "refused" ELSE "commit"

(* The capability is checked first, then a stored result, then the lease. *)
Answer(d) ==
  LET r == row[d.lease.job] IN
  IF r.token # d.lease.token THEN "refused"
  ELSE IF r.status = "complete"
  THEN IF result[d.lease.job] = d THEN "duplicate" ELSE "refused"
  ELSE IF \/ r.status # "running" \/ r.holder # d.lease.host
          \/ r.expired \/ r.fence # d.lease.fence
  THEN "refused" ELSE "commit"

Faulted(r, h) == [r EXCEPT !.status = "queued", !.fence = r.fence + 1,
                           !.holder = NULL, !.expired = FALSE,
                           !.excluded = r.excluded \cup {h}]

Commit(d) ==
  LET j == d.lease.job IN
  IF d.outcome = Fault
  THEN /\ row' = [row EXCEPT ![j] = Faulted(row[j], d.lease.host)]
       /\ UNCHANGED result
  ELSE /\ row' = [row EXCEPT ![j].status = "complete", ![j].expired = FALSE]
       /\ result' = [result EXCEPT ![j] = d]

(* The API handles a post; its answer reaches the daemon or is lost. *)
RunnerResult(d) ==
  LET h == d.lease.host
      heard == IF Answer(d) = "refused" THEN "failed" ELSE "accepted" IN
  /\ d \in posts
  /\ posts' = posts \ {d}
  /\ IF Answer(d) = "commit" THEN Commit(d) ELSE UNCHANGED <<row, result>>
  /\ taken' = IF Answer(d) = "refused" THEN taken ELSE taken \cup {d}
  /\ reply' \in IF reply[h] = "waiting" /\ spool[h] = d
                THEN {reply, [reply EXCEPT ![h] = heard]} ELSE {reply}
  /\ UNCHANGED <<claims, daemon, holding, tries, spool, workdir, faults>>

(* A request may never reach the API. *)
LosePost(d) ==
  /\ d \in posts
  /\ posts' = posts \ {d}
  /\ UNCHANGED <<serverVars, hostVars, faults>>

-----------------------------------------------------------------------------
(* The daemon: runnerd serve *)

(* runtime.Run fails before an authoritative result: an input cannot be      *)
(* fetched, or the work directory of an interrupted run is still there.  The *)
(* lease is left to expire.                                                  *)
RunFails(h) ==
  /\ daemon[h] = "executing"
  /\ daemon' = [daemon EXCEPT ![h] = "idle"]
  /\ holding' = [holding EXCEPT ![h] = NULL]
  /\ UNCHANGED <<serverVars, posts, tries, reply, spool, workdir, faults>>

(* The run ends and persistResult stores its signed receipt durably, under   *)
(* the job's name, before the first post.                                    *)
FinishRun(h, o) ==
  /\ daemon[h] = "executing" /\ ~workdir[h]
  /\ spool' = [spool EXCEPT ![h] = [lease |-> holding[h], outcome |-> o]]
  /\ daemon' = [daemon EXCEPT ![h] = "delivering"]
  /\ holding' = [holding EXCEPT ![h] = NULL]
  /\ UNCHANGED <<serverVars, posts, tries, reply, workdir, faults>>

(* The post of a persisted delivery, by the serve loop or by replayResults. *)
PostResult(h) ==
  /\ daemon[h] \in {"delivering", "starting"}
  /\ spool[h] # NULL /\ reply[h] = "none"
  /\ posts' = posts \cup {spool[h]}
  /\ reply' = [reply EXCEPT ![h] = "waiting"]
  /\ UNCHANGED <<serverVars, daemon, holding, tries, spool, workdir, faults>>

(* The request times out or its answer is lost. *)
PostTimesOut(h) ==
  /\ reply[h] = "waiting"
  /\ reply' = [reply EXCEPT ![h] = "failed"]
  /\ UNCHANGED <<serverVars, posts, daemon, holding, tries, spool, workdir, faults>>

(* removePersisted follows an accepted post and nothing else. *)
RemovePersisted(h) ==
  /\ reply[h] \in {"accepted", "failed"}
  /\ spool' = [spool EXCEPT ![h] = IF reply[h] = "accepted" THEN NULL ELSE @]

(* What the daemon does with an answer: back to its loop when accepted,      *)
(* another post while some are left, otherwise it exits; replayResults exits *)
(* after a single failed post.                                               *)
HandleReply(h) ==
  /\ RemovePersisted(h)
  /\ reply' = [reply EXCEPT ![h] = "none"]
  /\ IF reply[h] = "accepted"
     THEN /\ daemon' = [daemon EXCEPT ![h] = "idle"]
          /\ tries' = [tries EXCEPT ![h] = 0]
     ELSE IF daemon[h] = "delivering" /\ tries[h] + 1 < MaxPosts
     THEN /\ tries' = [tries EXCEPT ![h] = @ + 1]
          /\ UNCHANGED daemon
     ELSE /\ daemon' = [daemon EXCEPT ![h] = "exited"]
          /\ tries' = [tries EXCEPT ![h] = 0]
  /\ UNCHANGED <<serverVars, posts, holding, workdir, faults>>

(* replayResults finds no persisted delivery. *)
StartServing(h) ==
  /\ daemon[h] = "starting" /\ spool[h] = NULL
  /\ daemon' = [daemon EXCEPT ![h] = "idle"]
  /\ UNCHANGED <<serverVars, posts, holding, tries, reply, spool, workdir, faults>>

(* A crash loses what is in memory.  In a run it leaves the work directory   *)
(* behind, unless the run had already removed it.                            *)
Crash(h) ==
  /\ faults < MaxFaults
  /\ daemon[h] # "exited"
  /\ faults' = faults + 1
  /\ daemon' = [daemon EXCEPT ![h] = "exited"]
  /\ holding' = [holding EXCEPT ![h] = NULL]
  /\ tries' = [tries EXCEPT ![h] = 0]
  /\ reply' = [reply EXCEPT ![h] = "none"]
  /\ claims' = Orphaned(h)
  /\ workdir' \in IF daemon[h] = "executing"
                  THEN {workdir, [workdir EXCEPT ![h] = TRUE]} ELSE {workdir}
  /\ UNCHANGED <<row, result, taken, posts, spool>>

(* systemd restarts the service (Restart=on-failure). *)
Restart(h) ==
  /\ daemon[h] = "exited"
  /\ daemon' = [daemon EXCEPT ![h] = "starting"]
  /\ UNCHANGED <<serverVars, posts, holding, tries, reply, spool, workdir, faults>>

-----------------------------------------------------------------------------
HostStep(h) ==
  \/ \E j \in Jobs : SelectJob(h, j)
  \/ AbandonClaim(h) \/ RunFails(h)
  \/ \E o \in Outcomes \cup {Fault} : FinishRun(h, o)
  \/ PostResult(h) \/ PostTimesOut(h) \/ HandleReply(h) \/ StartServing(h)
  \/ Crash(h) \/ Restart(h)

Next ==
  \/ \E h \in Hosts : HostStep(h)
  \/ \E c \in claims : ClaimRunnerJob(c) \/ ClaimFails(c)
  \/ \E d \in posts : RunnerResult(d) \/ LosePost(d)
  \/ \E j \in Jobs : LeaseExpires(j)
  \/ RecoverRunnerLeases \/ CancelJobs

Spec == Init /\ [][Next]_vars

(* Fairness: the worker loop recovers leases every round and time passes;    *)
(* handlers that were admitted end; daemons are restarted, poll for work,    *)
(* execute what they hold and act on every answer or timeout.  Nothing is    *)
(* assumed of the network: every request and reply may be lost.              *)
FairSpec ==
  /\ Spec
  /\ WF_vars(RecoverRunnerLeases)
  /\ \A j \in Jobs : WF_vars(LeaseExpires(j))
  /\ WF_vars(\E c \in claims : ClaimRunnerJob(c))
  /\ \A h \in Hosts :
       /\ WF_vars(\E j \in Jobs : SelectJob(h, j))
       /\ WF_vars(RunFails(h) \/ \E o \in Outcomes \cup {Fault} : FinishRun(h, o))
       /\ WF_vars(PostResult(h)) /\ WF_vars(PostTimesOut(h))
       /\ WF_vars(HandleReply(h)) /\ WF_vars(StartServing(h)) /\ WF_vars(Restart(h))

-----------------------------------------------------------------------------
(* Properties *)

(* Everything that names a lease: what hosts execute, keep or have sent. *)
KnownLeases ==
  {holding[h] : h \in {x \in Hosts : holding[x] # NULL}}
    \cup {d.lease : d \in posts \cup taken}
    \cup {spool[h].lease : h \in {x \in Hosts : spool[x] # NULL}}

(* A fence number belongs to one lease of a job: leases that were lost,       *)
(* recovered, abandoned or retried never share it, although a claim does not  *)
(* advance the fence itself (fence CAS in claimRunnerJob, fence+1 elsewhere). *)
FencesDistinct ==
  \A a, b \in KnownLeases : a.job = b.job /\ a.fence = b.fence => a = b

(* A host excluded from a job never holds it again, not even by a claim whose *)
(* SELECT preceded the exclusion.                                             *)
ExcludedNeverRuns ==
  \A j \in Jobs : row[j].status = "running" => row[j].holder \notin row[j].excluded

(* A result the API has stored is never refused to a daemon that posts it     *)
(* again after a lost answer or a restart, whatever happened in between.      *)
StoredStaysAccepted ==
  \A d \in taken : d.outcome # Fault => Answer(d) = "duplicate"

(* A persisted result leaves the spool only after the API accepted it. *)
NothingDropped ==
  [][\A h \in Hosts : spool'[h] # spool[h] /\ spool[h] # NULL => spool[h] \in taken]_vars

(* The daemon of h can only exit and restart: its persisted delivery is not   *)
(* and will not be accepted.                                                  *)
ShutOut(h) == spool[h] # NULL /\ Answer(spool[h]) = "refused"

Settled(j) == row[j].status \in {"complete", "attention_required", "cancelled"}

(* Every job ends, is put before an operator, or no host is left for it: each *)
(* is excluded or waits for the reconciliation of its spool.                  *)
JobsSettle ==
  \A j \in Jobs :
    <>(Settled(j) \/ \A h \in Hosts : h \in row[j].excluded \/ ShutOut(h))

(* The contract's view of a job. *)
JobState(j) ==
  [granted |-> row[j].attempts,
   lease   |-> IF row[j].status = "running"
               THEN [host |-> row[j].holder, number |-> row[j].token] ELSE NULL,
   verdict |-> IF result[j] = NULL THEN NULL
               ELSE [by |-> [host |-> result[j].lease.host,
                             number |-> result[j].lease.token],
                     outcome |-> result[j].outcome]]

Contract == INSTANCE LeaseContract WITH state <- [j \in Jobs |-> JobState(j)]

(* The runner API implements the lease contract: through concurrent claims,   *)
(* expiry, recovery, cancellation, retries and late posts a job has one lease *)
(* at a time and at most one verdict, from the lease current when it commits. *)
ImplementsContract == Contract!Spec

=============================================================================
