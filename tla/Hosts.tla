------------------------------- MODULE Hosts -------------------------------
(***************************************************************************)
(* A verification host: the authorization lease the platform grants it,     *)
(* the admission window runnerd derives from that lease and from the signed *)
(* advisory snapshot, and the serve loop that renews, checks, claims and    *)
(* runs.  The API side is renewRunnerAuthorization and the checks of the    *)
(* claim endpoint; the queue of jobs is the constant set Jobs, any of which *)
(* may be waiting (module RunnerLease models the queue, the fence and the   *)
(* delivery of results).                                                    *)
(*                                                                          *)
(* Every deadline is kept as the time that remains until it on the host's   *)
(* clock, so that the state space is finite without bounding the number of  *)
(* renewals.  The platform stamps deadlines with its own clock, which is    *)
(* Skew ahead of the host's.                                                *)
(***************************************************************************)
EXTENDS Integers

CONSTANTS
    NProfiles,      \* profiles served round robin; the first is the host's own
    MaxJob,         \* maxJobSeconds of a profile's capabilities, 0 when not set
    Jobs,           \* [purpose, v2, timeout, fixtures]
    Lifetime,       \* runnerAuthorizationLifetime (24 h)
    MaxRenewal,     \* the longest lease a host accepts (25 h)
    SafetyWindow,   \* AdmissionSafetyWindow (20 min)
    Slack,          \* transport and skew reserve (5 min)
    RenewFloor,     \* renew at least this long before expiry (6 h)
    Hour,           \* and this long before the margin (1 h)
    RetryAfter,     \* pause between renewal attempts (1 min)
    BaseLease,      \* shortest lease (15 min)
    Setup,          \* added to the session timeout (60 s)
    Overhead,       \* added to every v2 schedule (600 s)
    PrepareTime,    \* v2 schedule of an artifact preparation (300 s)
    MaximumJobLease,\* 18 h
    Tolerance,      \* excess over its schedule a job's lease may show (1 min)
    Skew,           \* platform clock minus host clock
    Transit,        \* longest claim request (client timeout, 5 min)
    DiskLife,       \* time left at first to the attestation in the config file
    AdvisoryLife,   \* time left to the advisory snapshot at the start
    MaxFaults       \* bound: requests lost, crashes, operator interventions

Profiles == 1 .. NProfiles
Base == 1
Larger(a, b) == IF a >= b THEN a ELSE b

ASSUME ProfileAssumption ==
    /\ NProfiles \in Nat \ {0}
    /\ MaxJob \in [Profiles -> Nat]
    /\ \A p \in Profiles : MaxJob[p] = 0 \/ MaxJob[p] \in BaseLease .. MaximumJobLease

ASSUME TimeAssumption ==
    /\ {Lifetime, MaxRenewal, SafetyWindow, Slack, RenewFloor, Hour, RetryAfter, BaseLease,
        Setup, Overhead, PrepareTime, MaximumJobLease, Tolerance, Transit, DiskLife,
        AdvisoryLife, MaxFaults} \subseteq Nat
    /\ Skew \in Int
    /\ BaseLease <= MaximumJobLease
    /\ SafetyWindow = BaseLease + Slack

ASSUME JobAssumption ==
    Jobs \subseteq [purpose : {"preflight", "artifact_prepare", "submission", "confirmation"},
                    v2 : BOOLEAN, timeout : Nat, fixtures : Nat]

VARIABLES
    hostEnabled,    \* runner_hosts.enabled
    enrolled,       \* [Profiles -> BOOLEAN] enrollment and profile rows enabled
    withdrawn,      \* history: how long each enrollment has been disabled
    trusted,        \* LoadAdmissionWindow accepts the signed files and their pins
    controls,       \* the other pins and host controls CheckHost looks at
    left,           \* [Profiles -> time until the cached authorization expires]
    disk,           \* time until the attestation in the config file expires
    validIn,        \* time until the advisory snapshot becomes valid
    advisory,       \* time until it expires
    attempt,        \* [Profiles -> time until nextAttempt, or Unset]
    checked,        \* controlsChecked of a profile
    turn,           \* nextProfile: the profile of this iteration
    pc,             \* where the serve loop is; "down": no process
    asked,          \* purposes of the claim in flight
    age,            \* how long the claim has been in flight
    job,            \* the claimed job
    lease,          \* time until its lease ends
    active,         \* the directory <workRoot>/active exists
    spool,          \* the persisted result: "none", "kept", or "refused" by the platform
    faults

vars == <<hostEnabled, enrolled, withdrawn, trusted, controls, left, disk, validIn, advisory,
          attempt, checked, turn, pc, asked, age, job, lease, active, spool, faults>>
platform == <<hostEnabled, enrolled, withdrawn>>
checks == <<trusted, controls>>
deadlines == <<left, disk, validIn, advisory>>
claim == <<asked, age, job, lease>>
local == <<active, spool>>

Unset == -1
NoJob == [purpose |-> "none", v2 |-> FALSE, timeout |-> 0, fixtures |-> 0]

----------------------------------------------------------------------------
(* Lease durations and the admission window. *)

Schedule(j) ==
    CASE j.purpose = "preflight" -> (j.timeout + Setup) * 2 * j.fixtures
      [] j.purpose = "artifact_prepare" -> PrepareTime
      [] OTHER -> j.timeout + Setup

JobLeaseDuration(j) ==
    IF ~j.v2 THEN BaseLease
    ELSE LET duration == Larger(Schedule(j) + Overhead, BaseLease)
         IN  IF duration > MaximumJobLease THEN MaximumJobLease ELSE duration

\* A limit of zero in the capabilities means the lease every host can cover.
MatchJobLease(j, p) == JobLeaseDuration(j) <= (IF MaxJob[p] = 0 THEN BaseLease ELSE MaxJob[p])

(* Seeded fault: the enrolled job length is not reserved. *)
MarginOfWindow(p) == SafetyWindow

margin(p) == IF MaxJob[p] = 0 THEN SafetyWindow ELSE Larger(MaxJob[p] + Slack, SafetyWindow)

Check(p) == validIn = 0 /\ left[p] > margin(p)

Purposes(p) ==
    IF ~Check(p) THEN {}
    ELSE {"artifact_prepare", "submission", "confirmation"}
         \cup (IF advisory > margin(p) THEN {"preflight"} ELSE {})

NeedsRenewal(p) == left[p] <= Larger(RenewFloor, margin(p) + Hour)

\* RenewAuthorization: only a lease of a plausible length for the same enrollment.
FreshAccepted == Lifetime + Skew > SafetyWindow /\ Lifetime + Skew <= MaxRenewal

(* Seeded fault: one attempt per start. *)
RefreshOnce(p) == attempt[p] = Unset

RefreshDue(p) == attempt[p] = Unset \/ (attempt[p] = 0 /\ NeedsRenewal(p))

Following(p) == IF p = NProfiles THEN 1 ELSE p + 1
NextIteration == pc' = "loop" /\ turn' = Following(turn)
Fault == faults < MaxFaults /\ faults' = faults + 1

----------------------------------------------------------------------------
Init ==
    /\ hostEnabled = TRUE
    /\ enrolled = [p \in Profiles |-> TRUE]
    /\ withdrawn = [p \in Profiles |-> 0]
    /\ trusted = TRUE /\ controls = TRUE
    /\ disk \in {0, DiskLife}
    /\ left = [p \in Profiles |-> disk]
    /\ validIn \in {0, 1} /\ advisory \in {0, AdvisoryLife}
    /\ attempt = [p \in Profiles |-> Unset]
    /\ checked = [p \in Profiles |-> FALSE]
    /\ turn = 1 /\ pc = "loop"
    /\ asked = {} /\ age = 0 /\ job = NoJob /\ lease = 0
    /\ active = FALSE /\ spool = "none" /\ faults = 0

(* renewRunnerAuthorization and refresh: the rows are locked while the lease is signed, so a
   revocation is before or after it, never in between.  RenewAuthorization loads the window
   again, so it refuses when the signed files no longer verify. *)
Renewable == hostEnabled /\ enrolled[turn] /\ FreshAccepted /\ trusted

Renew ==
    /\ pc = "loop" /\ RefreshDue(turn) /\ Renewable
    /\ left' = [left EXCEPT ![turn] = Lifetime + Skew]
    /\ attempt' = [attempt EXCEPT ![turn] = RetryAfter]
    /\ checked' = [checked EXCEPT ![turn] = FALSE]
    /\ pc' = "check"
    /\ UNCHANGED <<platform, checks, disk, validIn, advisory, turn, claim, local, faults>>

\* Refused by the platform or by the host, or the request failed: the old lease is kept.
RenewFails ==
    /\ pc = "loop" /\ RefreshDue(turn)
    /\ \/ ~Renewable /\ UNCHANGED faults
       \/ Fault
    /\ attempt' = [attempt EXCEPT ![turn] = RetryAfter]
    /\ pc' = "check"
    /\ UNCHANGED <<platform, checks, deadlines, checked, turn, claim, local>>

NoRefresh ==
    /\ pc = "loop" /\ ~RefreshDue(turn)
    /\ pc' = "check"
    /\ UNCHANGED <<platform, checks, deadlines, attempt, checked, turn, claim, local, faults>>

AwaitRenewal ==
    /\ pc = "check" /\ ~Check(turn)
    /\ NextIteration
    /\ UNCHANGED <<platform, checks, deadlines, attempt, checked, claim, local, faults>>

\* A host whose pins or controls changed ends the daemon.
CheckHost(p) == trusted /\ controls /\ left[p] > 0

CheckControls ==
    /\ pc = "check" /\ Check(turn) /\ ~checked[turn]
    /\ \/ CheckHost(turn) /\ checked' = [checked EXCEPT ![turn] = TRUE] /\ UNCHANGED pc
       \/ ~CheckHost(turn) /\ pc' = "down" /\ UNCHANGED checked
    /\ UNCHANGED <<platform, checks, deadlines, attempt, turn, claim, local, faults>>

\* claimIfAdmitted: the window is read again in the step that sends the request.
SendClaim ==
    /\ pc = "check" /\ checked[turn]
    /\ Purposes(turn) # {}
    /\ asked' = Purposes(turn) /\ age' = 0 /\ pc' = "claiming"
    /\ UNCHANGED <<platform, checks, deadlines, attempt, checked, turn, job, lease, local,
                   faults>>

----------------------------------------------------------------------------
(* The claim endpoint: the rows of the host and of its profile are read without a lock, the
   lease is stamped in a transaction on the job alone, and the answer leaves after the job was
   signed and the fence compared.  The operator and the clock move in between. *)

\* Which jobs the platform may give the profile of an authenticated host.
Selectable(p) ==
    {j \in Jobs : /\ j.purpose \in asked
                  /\ j.v2 = (p # Base)
                  /\ p # Base => MatchJobLease(j, p)}

(* Seeded fault: the profile's enrollment is not read. *)
SelectAnyProfile(p) == hostEnabled

selectRunnerProfile(p) == hostEnabled /\ (p = Base \/ enrolled[p])

SelectProfile ==
    /\ pc = "claiming" /\ selectRunnerProfile(turn)
    /\ pc' = "selected"
    /\ UNCHANGED <<platform, checks, deadlines, attempt, checked, turn, claim, local, faults>>

\* A host that is ahead of the platform by more than the lease sees it end at once.
StampLease(j) ==
    /\ pc = "selected" /\ j \in Selectable(turn)
    /\ job' = j /\ lease' = Larger(JobLeaseDuration(j) + Skew, 0)
    /\ pc' = "stamped"
    /\ UNCHANGED <<platform, checks, deadlines, attempt, checked, turn, asked, age, local,
                   faults>>

ClaimRunnerJob ==
    /\ pc = "stamped"
    /\ asked' = {} /\ age' = 0 /\ pc' = "claimed"
    /\ UNCHANGED <<platform, checks, deadlines, attempt, checked, turn, job, lease, local,
                   faults>>

InRequest == pc \in {"claiming", "selected", "stamped"}

\* Nothing to do, refused, claimed by another, or no answer: the loop pauses and goes on.
NoClaim ==
    /\ InRequest
    /\ asked' = {} /\ age' = 0 /\ job' = NoJob /\ lease' = 0 /\ NextIteration
    /\ UNCHANGED <<platform, checks, deadlines, attempt, checked, local, faults>>

----------------------------------------------------------------------------
\* Run and Prepare check the host and the job's binding before anything executes.
ValidateJob(j, p) == lease > 0 /\ lease <= JobLeaseDuration(j) + Tolerance
                     /\ (p # Base => MatchJobLease(j, p))

NeedsGuest(j) == j.purpose # "artifact_prepare"

Startable == CheckHost(turn) /\ ValidateJob(job, turn) /\ (NeedsGuest(job) => ~active)

StartRun ==
    /\ pc = "claimed" /\ Startable
    /\ active' = (active \/ NeedsGuest(job)) /\ pc' = "running"
    /\ UNCHANGED <<platform, checks, deadlines, attempt, checked, turn, claim, spool, faults>>

\* The claim is dropped; its lease runs out at the platform.
RunRefused ==
    /\ pc = "claimed" /\ ~Startable
    /\ job' = NoJob /\ lease' = 0 /\ NextIteration
    /\ UNCHANGED <<platform, checks, deadlines, attempt, checked, asked, age, local, faults>>

(* The run ends without an authoritative result, or its result is persisted, posted and
   removed; a result the platform refuses, or cannot be reached for in three attempts, stays in
   the spool and ends the daemon, and so does a spool that cannot be written.  What makes the
   platform refuse one (a lease that is over, a fence that moved) is module RunnerLease's. *)
FinishRun ==
    /\ pc = "running"
    /\ active' = (active /\ ~NeedsGuest(job))
    /\ job' = NoJob /\ lease' = 0
    /\ \/ NextIteration /\ UNCHANGED <<spool, faults>>
       \/ /\ pc' = "down" /\ UNCHANGED turn
          /\ \/ spool' = "refused" /\ UNCHANGED faults
             \/ spool' \in {"none", "kept"} /\ Fault
    /\ UNCHANGED <<platform, checks, deadlines, attempt, checked, asked, age>>

----------------------------------------------------------------------------
(* The process, the operator and time. *)

\* The directory of a guest that was running stays behind.
Crash ==
    /\ pc # "down" /\ Fault
    /\ pc' = "down"
    /\ UNCHANGED <<platform, checks, deadlines, attempt, checked, turn, claim, local>>

\* serve starts from the file's attestation, which renewals never replace, once the signed
\* files verify and replayResults has delivered and removed what the spool holds.
Restart ==
    /\ pc = "down" /\ trusted /\ spool # "refused"
    /\ spool' = "none"
    /\ left' = [p \in Profiles |-> disk]
    /\ attempt' = [p \in Profiles |-> Unset]
    /\ checked' = [p \in Profiles |-> FALSE]
    /\ turn' = 1 /\ pc' = "loop"
    /\ asked' = {} /\ age' = 0 /\ job' = NoJob /\ lease' = 0
    /\ UNCHANGED <<platform, checks, disk, validIn, advisory, active, faults>>

\* A start that ends at once: the platform refuses the receipt now, and at every later start.
ReplayRefused ==
    /\ pc = "down" /\ trusted /\ spool = "kept"
    /\ spool' = "refused"
    /\ UNCHANGED <<platform, checks, deadlines, attempt, checked, turn, pc, claim, active, faults>>

\* The operator takes a refused receipt out of the spool.
Reconcile ==
    /\ pc = "down" /\ spool = "refused"
    /\ spool' = "none"
    /\ UNCHANGED <<platform, checks, deadlines, attempt, checked, turn, pc, claim, active, faults>>

\* Operator recovery of a stale run, or a reboot, which empties the tmpfs work root.
RecoverStaleRun ==
    /\ pc = "down" /\ active
    /\ active' = FALSE
    /\ UNCHANGED <<platform, checks, deadlines, attempt, checked, turn, pc, claim, spool, faults>>

\* Files or host controls are changed under the daemon, and put right again.
ChangeTrust ==
    /\ \/ trusted /\ Fault
       \/ ~trusted /\ UNCHANGED faults
    /\ trusted' = ~trusted
    /\ UNCHANGED <<platform, controls, deadlines, attempt, checked, turn, pc, claim, local>>

ChangeControls ==
    /\ \/ controls /\ Fault
       \/ ~controls /\ UNCHANGED faults
    /\ controls' = ~controls
    /\ UNCHANGED <<platform, trusted, deadlines, attempt, checked, turn, pc, claim, local>>

SwitchHost ==
    /\ \/ hostEnabled /\ Fault
       \/ ~hostEnabled /\ UNCHANGED faults
    /\ hostEnabled' = ~hostEnabled
    /\ UNCHANGED <<enrolled, withdrawn, checks, deadlines, attempt, checked, turn, pc, claim,
                   local>>

SwitchEnrollment(p) ==
    /\ \/ enrolled[p] /\ Fault
       \/ ~enrolled[p] /\ UNCHANGED faults
    /\ enrolled' = [enrolled EXCEPT ![p] = ~@]
    /\ withdrawn' = [withdrawn EXCEPT ![p] = 0]
    /\ UNCHANGED <<hostEnabled, checks, deadlines, attempt, checked, turn, pc, claim, local>>

Sooner(t) == IF t > 0 THEN t - 1 ELSE t

\* The longest authorization a host may hold, and how far a lease may outlast it.
LongestHeld == Larger(Lifetime + Skew, DiskLife)
Overrun == Larger(Transit + Skew - Slack, 0)
LongAgo == LongestHeld + Overrun + MaximumJobLease + Transit + Larger(Skew, 0) + 1

\* A request ends with the client's timeout and a run with its lease.
Tick ==
    /\ InRequest => age < Transit
    /\ pc = "running" => lease > 0
    /\ left' = [p \in Profiles |-> Sooner(left[p])]
    /\ attempt' = [p \in Profiles |-> Sooner(attempt[p])]
    /\ disk' = Sooner(disk) /\ validIn' = Sooner(validIn) /\ advisory' = Sooner(advisory)
    /\ lease' = Sooner(lease)
    /\ age' = IF InRequest THEN age + 1 ELSE age
    /\ withdrawn' = [p \in Profiles |-> IF enrolled[p] \/ withdrawn[p] = LongAgo
                                        THEN withdrawn[p] ELSE withdrawn[p] + 1]
    /\ UNCHANGED <<hostEnabled, enrolled, checks, checked, turn, pc, asked, job, local, faults>>

Serve == Renew \/ RenewFails \/ NoRefresh \/ AwaitRenewal \/ CheckControls \/ SendClaim
         \/ NoClaim \/ StartRun \/ RunRefused \/ FinishRun

Endpoint == SelectProfile \/ ClaimRunnerJob \/ \E j \in Jobs : StampLease(j)

Operator ==
    \/ Reconcile \/ RecoverStaleRun \/ ChangeTrust \/ ChangeControls \/ SwitchHost
    \/ \E p \in Profiles : SwitchEnrollment(p)

Next == Serve \/ Endpoint \/ Operator \/ Crash \/ Restart \/ ReplayRefused \/ Tick

Spec == Init /\ [][Next]_vars

(* The loop never waits for ever: every request and every run has a deadline, the pauses are
   seconds, the daemon is supervised, and time passes.  Nothing is assumed of the operator,
   who may leave an enrollment, the files and controls, a refused receipt or a stale directory
   as they are, nor of what the platform answers. *)
FairSpec == Spec /\ WF_vars(Serve) /\ WF_vars(Restart) /\ WF_vars(Tick)

----------------------------------------------------------------------------
(* Properties. *)

HostsTypeOK ==
    /\ hostEnabled \in BOOLEAN /\ trusted \in BOOLEAN /\ controls \in BOOLEAN
    /\ active \in BOOLEAN /\ spool \in {"none", "kept", "refused"}
    /\ enrolled \in [Profiles -> BOOLEAN] /\ checked \in [Profiles -> BOOLEAN]
    /\ left \in [Profiles -> Nat] /\ withdrawn \in [Profiles -> Nat]
    /\ attempt \in [Profiles -> Nat \cup {Unset}]
    /\ disk \in Nat /\ validIn \in Nat /\ advisory \in Nat
    /\ turn \in Profiles
    /\ pc \in {"loop", "check", "claiming", "selected", "stamped", "claimed", "running", "down"}
    /\ asked \subseteq {"preflight", "artifact_prepare", "submission", "confirmation"}
    /\ age \in Nat /\ job \in Jobs \cup {NoJob} /\ lease \in Nat
    /\ faults \in 0 .. MaxFaults

(* The lease of a job that runs, as the platform stamped it while the request was under way,
   outlasts the host's authorization, and for a preflight the advisory snapshot the scan relies
   on, by less than transport and skew exceed the reserve: not at all when they fit it.  With
   the figures of the code, where a request may take the whole reserve of five minutes, that is
   by less than the platform's clock is ahead.  The margin of the window, the lease limits of
   the claim endpoint and the reserve are chosen in three places (admission.go, lease.go, the
   claim query) and must fit together. *)
LeaseCovered ==
    pc = "running" => /\ lease < left[turn] + Overrun
                      /\ job.purpose = "preflight" => lease < advisory + Overrun

(* An operator who withdraws an enrollment is obeyed in bounded time.  On the host's own
   profile, where the claim endpoint does not look at the enrollment, no run goes on for longer
   than the longest authorization held at the withdrawal (from a renewal or from the file) and
   the overrun of one lease.  On every other profile only a run whose request had passed
   selectRunnerProfile goes on: to the end of a lease stamped at most a request's time later. *)
WithdrawalBites ==
    pc = "running" =>
        withdrawn[turn] <= IF turn = Base THEN LongestHeld + Overrun
                           ELSE Larger(JobLeaseDuration(job) + Skew, 0) + Transit

Wholesome == /\ hostEnabled /\ trusted /\ controls /\ spool # "refused"
             /\ \A p \in Profiles : enrolled[p]

(* A host that stays enrolled is admitted again and again, whatever lapsed meanwhile: an
   authorization that expired during a long run or an outage, a crash, a file that still holds
   the attestation of the first enrollment.  It needs an operator when its files no longer
   verify and when the platform refuses a receipt in the spool, which ends every start. *)
HostRecovers ==
    <>[]Wholesome => \A p \in Profiles : []<>Check(p)
=============================================================================
