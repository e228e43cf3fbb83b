----------------------------- MODULE HostsProofs -----------------------------
(* What is proved of the admission window, for every number of profiles, every *)
(* length of lease, window, reserve and request, every skew of the clocks, any *)
(* attestation in the file and any number of faults.                           *)
EXTENDS Hosts, TLAPS

----------------------------------------------------------------------------
(* Arithmetic of the window *)

LEMMA Times ==
    /\ Lifetime \in Nat /\ SafetyWindow \in Nat /\ Slack \in Nat /\ BaseLease \in Nat
    /\ Setup \in Nat /\ Overhead \in Nat /\ PrepareTime \in Nat /\ MaximumJobLease \in Nat
    /\ Transit \in Nat /\ AdvisoryLife \in Nat /\ MaxFaults \in Nat /\ RetryAfter \in Nat
    /\ DiskLife \in Nat /\ Skew \in Int
    /\ BaseLease <= MaximumJobLease /\ SafetyWindow = BaseLease + Slack
BY TimeAssumption

LEMMA Bounds ==
    /\ LongestHeld \in Nat /\ Lifetime + Skew <= LongestHeld /\ DiskLife <= LongestHeld
    /\ Overrun \in Nat /\ Transit + Skew - Slack <= Overrun
BY Times DEF LongestHeld, Overrun, Larger

LEMMA Durations ==
    ASSUME NEW j \in Jobs
    PROVE  /\ JobLeaseDuration(j) \in Nat
           /\ BaseLease <= JobLeaseDuration(j)
           /\ ~j.v2 => JobLeaseDuration(j) = BaseLease
<1>1. j.timeout \in Nat /\ j.fixtures \in Nat
  BY JobAssumption
<1>2. Schedule(j) \in Int
  <2>1. j.timeout + Setup \in Int
    BY <1>1, Times
  <2>2. (j.timeout + Setup) * 2 \in Int
    BY <2>1
  <2>3. ((j.timeout + Setup) * 2) * j.fixtures \in Int
    BY <1>1, <2>2
  <2>. QED
    BY <2>1, <2>3, Times DEF Schedule
<1>. QED
  BY <1>2, Times DEF JobLeaseDuration, Larger

LEMMA Margins ==
    ASSUME NEW p \in Profiles
    PROVE  /\ margin(p) \in Nat /\ SafetyWindow <= margin(p)
           /\ MaxJob[p] # 0 => MaxJob[p] + Slack <= margin(p)
BY Times, ProfileAssumption DEF margin, Larger

(* A job the claim endpoint may give a profile fits its margin, with the      *)
(* reserve for transport and skew to spare.                                   *)
LEMMA WindowFits ==
    ASSUME NEW p \in Profiles, NEW j \in Jobs, j.v2 = (p # Base),
           p # Base => MatchJobLease(j, p)
    PROVE  JobLeaseDuration(j) + Slack <= margin(p)
<1>1. CASE p = Base
  BY <1>1, Durations, Margins, Times
<1>2. CASE p # Base /\ MaxJob[p] = 0
  BY <1>2, Durations, Margins, Times DEF MatchJobLease
<1>3. CASE p # Base /\ MaxJob[p] # 0
  <2>1. MaxJob[p] \in Nat
    BY ProfileAssumption
  <2>. QED
    BY <1>3, <2>1, Durations, Margins, Times DEF MatchJobLease
<1>. QED
  BY <1>1, <1>2, <1>3

----------------------------------------------------------------------------
(* The inductive invariant *)

(* While a claim is in flight the window it was sent in has shrunk by at most *)
(* its age, and a withdrawal the endpoint did not see is at most that old.    *)
InFlight ==
    InRequest =>
        /\ age <= Transit
        /\ left[turn] + age > margin(turn)
        /\ "preflight" \in asked => advisory + age > margin(turn)
        /\ withdrawn[turn] + margin(turn) < LongestHeld + age
        /\ pc # "claiming" /\ turn # Base => withdrawn[turn] <= age

(* A stamped lease that has not run out, and that of a running job, ends soon *)
(* after the authorization and soon after a withdrawal.                       *)
Leased == pc = "running" \/ (pc \in {"stamped", "claimed"} /\ lease > 0)

Covered ==
    Leased =>
        /\ lease < left[turn] + Overrun
        /\ job.purpose = "preflight" => lease < advisory + Overrun
        /\ withdrawn[turn] + lease <= LongestHeld + Overrun
        /\ turn # Base => withdrawn[turn] + lease <= JobLeaseDuration(job) + Skew + Transit

HasJob == pc \in {"stamped", "claimed", "running"} => job \in Jobs

(* What was signed before a withdrawal ends within the longest lifetime.      *)
Withdrawals ==
    /\ \A p \in Profiles : enrolled[p] => withdrawn[p] = 0
    /\ \A p \in Profiles : left[p] > 0 => withdrawn[p] + left[p] <= LongestHeld
    /\ \A p \in Profiles : disk > 0 => withdrawn[p] + disk <= LongestHeld

HInv == HostsTypeOK /\ InFlight /\ Covered /\ HasJob /\ Withdrawals

LEMMA HostsInit == Init => HInv
<1> SUFFICES ASSUME Init PROVE HInv
  OBVIOUS
<1>1. HostsTypeOK
  <2>1. disk \in Nat /\ validIn \in Nat /\ advisory \in Nat
    BY Times DEF Init
  <2>2. left \in [Profiles -> Nat] /\ withdrawn \in [Profiles -> Nat]
    BY <2>1 DEF Init
  <2>3. turn \in Profiles
    BY ProfileAssumption DEF Init, Profiles
  <2>4. /\ enrolled \in [Profiles -> BOOLEAN] /\ checked \in [Profiles -> BOOLEAN]
        /\ attempt \in [Profiles -> Nat \cup {Unset}]
    BY DEF Init
  <2>5. faults \in 0 .. MaxFaults
    BY Times DEF Init
  <2>6. /\ hostEnabled \in BOOLEAN /\ trusted \in BOOLEAN /\ controls \in BOOLEAN
        /\ active \in BOOLEAN /\ spool \in {"none", "kept", "refused"}
        /\ pc = "loop"
        /\ asked \subseteq {"preflight", "artifact_prepare", "submission", "confirmation"}
        /\ age \in Nat /\ job \in Jobs \cup {NoJob} /\ lease \in Nat
    BY DEF Init
  <2>. QED
    BY <2>1, <2>2, <2>3, <2>4, <2>5, <2>6 DEF HostsTypeOK
<1>2. InFlight /\ Covered /\ HasJob
  BY DEF Init, InFlight, Covered, HasJob, InRequest, Leased
<1>3. Withdrawals
  BY Times, Bounds DEF Init, Withdrawals
<1>. QED
  BY <1>1, <1>2, <1>3 DEF HInv

LEMMA FollowingTyped == \A p \in Profiles : Following(p) \in Profiles
BY ProfileAssumption DEF Following, Profiles

LEMMA FaultTyped == HostsTypeOK /\ (Fault \/ UNCHANGED faults) => faults' \in 0 .. MaxFaults
BY Times DEF HostsTypeOK, Fault

(* A step that leaves the window, the claim and the enrollments alone. *)
Untouched ==
    UNCHANGED <<enrolled, withdrawn, left, disk, advisory, turn, pc, asked, age, job, lease>>

LEMMA UntouchedKeeps ==
    ASSUME HInv, HostsTypeOK', Untouched
    PROVE  HInv'
<1>1. margin(turn)' = margin(turn) /\ JobLeaseDuration(job)' = JobLeaseDuration(job)
  BY DEF Untouched, margin, JobLeaseDuration, Schedule
<1>. QED
  BY <1>1 DEF HInv, Untouched, InFlight, Covered, HasJob, Withdrawals, InRequest, Leased

(* Between claims only the authorizations matter. *)
LEMMA IdleKeeps ==
    ASSUME HostsTypeOK', Withdrawals', pc' \in {"loop", "check", "down"}
    PROVE  HInv'
BY DEF HInv, InFlight, Covered, HasJob, InRequest, Leased

(* Steps before a claim: renewals, checks. *)
LEMMA BeforeClaim ==
    ASSUME HInv, Renew \/ RenewFails \/ NoRefresh \/ AwaitRenewal \/ CheckControls
    PROVE  HInv'
<1>. USE DEF HInv
<1>1. CASE Renew
  <2>1. Lifetime + Skew \in Nat
    BY <1>1, Times DEF Renew, Renewable, FreshAccepted
  <2>2. HostsTypeOK'
    BY <1>1, <2>1, Times DEF Renew, HostsTypeOK, platform, checks, claim, local
  <2>3. Withdrawals'
    <3>1. enrolled[turn] /\ withdrawn[turn] = 0 /\ turn \in Profiles
      BY <1>1 DEF Renew, Renewable, Withdrawals, HostsTypeOK
    <3>. QED
      BY <1>1, <2>1, <3>1, Bounds DEF Renew, HostsTypeOK, Withdrawals, platform
  <2>. QED BY <1>1, <2>2, <2>3, IdleKeeps DEF Renew
<1>2. CASE RenewFails
  <2>1. /\ UNCHANGED <<platform, checks, deadlines, checked, turn, claim, local>>
        /\ attempt' = [attempt EXCEPT ![turn] = RetryAfter] /\ pc' = "check"
        /\ Fault \/ UNCHANGED faults
    BY <1>2 DEF RenewFails
  <2>2. HostsTypeOK'
    BY <2>1, FaultTyped, Times DEF HostsTypeOK, platform, checks, deadlines, claim, local
  <2>3. Withdrawals'
    BY <2>1 DEF Withdrawals, platform, deadlines
  <2>. QED BY <2>1, <2>2, <2>3, IdleKeeps
<1>3. CASE NoRefresh
  <2>1. HostsTypeOK' /\ Withdrawals'
    BY <1>3 DEF NoRefresh, HostsTypeOK, Withdrawals, platform, checks, deadlines, claim, local
  <2>. QED BY <1>3, <2>1, IdleKeeps DEF NoRefresh
<1>4. CASE AwaitRenewal
  <2>1. HostsTypeOK'
    BY <1>4, FollowingTyped DEF AwaitRenewal, NextIteration, HostsTypeOK, platform, checks,
                                deadlines, claim, local
  <2>2. Withdrawals'
    BY <1>4 DEF AwaitRenewal, Withdrawals, platform, deadlines
  <2>. QED BY <1>4, <2>1, <2>2, IdleKeeps DEF AwaitRenewal, NextIteration
<1>5. CASE CheckControls
  <2>1. /\ checked' \in [Profiles -> BOOLEAN] /\ pc' \in {"check", "down"}
        /\ UNCHANGED <<platform, checks, deadlines, attempt, turn, claim, local, faults>>
    BY <1>5 DEF CheckControls, HostsTypeOK
  <2>2. HostsTypeOK' /\ Withdrawals'
    BY <2>1 DEF HostsTypeOK, Withdrawals, platform, checks, deadlines, claim, local
  <2>. QED BY <2>1, <2>2, IdleKeeps
<1>. QED
  BY <1>1, <1>2, <1>3, <1>4, <1>5

(* The claim: the window is open when it is sent and fits when the lease is stamped. *)
LEMMA Sending ==
    ASSUME HInv, SendClaim
    PROVE  HInv'
<1>. USE DEF HInv
<1>1. /\ Check(turn) /\ asked' = Purposes(turn) /\ age' = 0 /\ pc' = "claiming"
      /\ turn \in Profiles
      /\ UNCHANGED <<platform, checks, deadlines, attempt, checked, turn, job, lease, local,
                     faults>>
  BY DEF SendClaim, Purposes, HostsTypeOK
<1>2. /\ asked' \subseteq {"preflight", "artifact_prepare", "submission", "confirmation"}
      /\ "preflight" \in asked' => advisory > margin(turn)
  BY <1>1 DEF Purposes
<1>3. HostsTypeOK'
  BY <1>1, <1>2 DEF HostsTypeOK, platform, checks, deadlines, local
<1>4. InFlight'
  <2>1. margin(turn)' = margin(turn) /\ margin(turn) \in Nat
    BY <1>1, Margins DEF margin
  <2>2. /\ left[turn] > margin(turn) /\ left[turn] \in Nat /\ withdrawn[turn] \in Nat
        /\ advisory \in Nat
    BY <1>1 DEF Check, HostsTypeOK
  <2>3. withdrawn[turn] + margin(turn) < LongestHeld
    BY <1>1, <2>1, <2>2, Bounds DEF Withdrawals
  <2>. QED
    BY <1>1, <1>2, <2>1, <2>2, <2>3, Times, Bounds DEF InFlight, deadlines, platform
<1>5. Covered' /\ HasJob' /\ Withdrawals'
  BY <1>1 DEF Covered, HasJob, Withdrawals, Leased, platform, deadlines
<1>. QED BY <1>3, <1>4, <1>5

LEMMA Selecting ==
    ASSUME HInv, SelectProfile
    PROVE  HInv'
<1>. USE DEF HInv
<1>1. /\ pc = "claiming" /\ pc' = "selected" /\ turn \in Profiles
      /\ turn # Base => withdrawn[turn] = 0
      /\ UNCHANGED <<platform, checks, deadlines, attempt, checked, turn, claim, local, faults>>
  BY DEF SelectProfile, selectRunnerProfile, Withdrawals, HostsTypeOK
<1>2. HostsTypeOK'
  BY <1>1 DEF HostsTypeOK, platform, checks, deadlines, claim, local
<1>3. InFlight'
  <2>1. margin(turn)' = margin(turn) /\ age \in Nat
    BY <1>1 DEF margin, HostsTypeOK
  <2>. QED
    BY <1>1, <2>1 DEF InFlight, InRequest, platform, deadlines, claim
<1>4. Covered' /\ HasJob' /\ Withdrawals'
  BY <1>1 DEF Covered, HasJob, Withdrawals, Leased, platform, deadlines
<1>. QED BY <1>2, <1>3, <1>4

LEMMA Stamping ==
    ASSUME HInv, NEW j \in Jobs, StampLease(j)
    PROVE  HInv'
<1>. USE DEF HInv
<1>1. /\ pc = "selected" /\ j.purpose \in asked /\ j.v2 = (turn # Base)
      /\ turn # Base => MatchJobLease(j, turn)
      /\ job' = j /\ lease' = Larger(JobLeaseDuration(j) + Skew, 0) /\ pc' = "stamped"
      /\ UNCHANGED <<platform, checks, deadlines, attempt, checked, turn, asked, age, local,
                     faults>>
  BY DEF StampLease, Selectable
<1>2. lease' \in Nat /\ (lease' > 0 => lease' = JobLeaseDuration(j) + Skew)
  BY <1>1, Durations, Times DEF Larger
<1>3. HostsTypeOK'
  BY <1>1, <1>2 DEF HostsTypeOK, platform, checks, deadlines, local
<1>4. /\ turn \in Profiles /\ left[turn] \in Nat /\ advisory \in Nat /\ age \in Nat
      /\ withdrawn[turn] \in Nat /\ JobLeaseDuration(j) \in Nat /\ margin(turn) \in Nat
  BY Durations, Margins DEF HostsTypeOK
<1>5. JobLeaseDuration(j) + Slack <= margin(turn)
  BY <1>1, <1>4, WindowFits
<1>6. /\ age <= Transit /\ left[turn] + age > margin(turn)
      /\ "preflight" \in asked => advisory + age > margin(turn)
      /\ withdrawn[turn] + margin(turn) < LongestHeld + age
      /\ turn # Base => withdrawn[turn] <= age
  BY <1>1 DEF InFlight, InRequest
<1>7. Covered'
  <2>. SUFFICES ASSUME lease' > 0 PROVE Covered'
    BY <1>1 DEF Covered, Leased
  <2>1. lease' = JobLeaseDuration(j) + Skew
    BY <1>2
  <2>2. lease' < left[turn] + Overrun /\ withdrawn[turn] + lease' <= LongestHeld + Overrun
    BY <1>4, <1>5, <1>6, <2>1, Times, Bounds
  <2>3. j.purpose = "preflight" => lease' < advisory + Overrun
    BY <1>1, <1>4, <1>5, <1>6, <2>1, Times, Bounds
  <2>4. turn # Base => withdrawn[turn] + lease' <= JobLeaseDuration(j) + Skew + Transit
    BY <1>4, <1>6, <2>1, Times
  <2>5. JobLeaseDuration(job)' = JobLeaseDuration(j)
    BY <1>1 DEF JobLeaseDuration, Schedule
  <2>. QED
    BY <1>1, <2>2, <2>3, <2>4, <2>5 DEF Covered, platform, deadlines
<1>8. InFlight'
  <2>1. margin(turn)' = margin(turn)
    BY <1>1 DEF margin
  <2>. QED
    BY <1>1, <1>6, <2>1 DEF InFlight, platform, deadlines
<1>. QED
  BY <1>1, <1>3, <1>7, <1>8 DEF HasJob, Withdrawals, platform, deadlines

LEMMA Answering ==
    ASSUME HInv, ClaimRunnerJob \/ NoClaim
    PROVE  HInv'
<1>. USE DEF HInv
<1>1. CASE ClaimRunnerJob
  <2>1. /\ pc = "stamped" /\ asked' = {} /\ age' = 0 /\ pc' = "claimed"
        /\ UNCHANGED <<platform, checks, deadlines, attempt, checked, turn, job, lease, local,
                       faults>>
    BY <1>1 DEF ClaimRunnerJob
  <2>2. HostsTypeOK'
    BY <2>1 DEF HostsTypeOK, platform, checks, deadlines, local
  <2>3. JobLeaseDuration(job)' = JobLeaseDuration(job)
    BY <2>1 DEF JobLeaseDuration, Schedule
  <2>4. Covered'
    BY <2>1, <2>3 DEF Covered, Leased, platform, deadlines
  <2>. QED
    BY <2>1, <2>2, <2>4 DEF InFlight, InRequest, HasJob, Withdrawals, platform, deadlines
<1>2. CASE NoClaim
  <2>1. HostsTypeOK'
    BY <1>2, FollowingTyped DEF NoClaim, NextIteration, HostsTypeOK, platform, checks,
                                deadlines, local
  <2>2. Withdrawals'
    BY <1>2 DEF NoClaim, Withdrawals, platform, deadlines
  <2>. QED BY <1>2, <2>1, <2>2, IdleKeeps DEF NoClaim, NextIteration
<1>. QED
  BY <1>1, <1>2

(* From the claim to the end of the run. *)
LEMMA Running ==
    ASSUME HInv, StartRun \/ RunRefused \/ FinishRun
    PROVE  HInv'
<1>. USE DEF HInv
<1>1. CASE StartRun
  <2>1. /\ pc = "claimed" /\ lease > 0 /\ pc' = "running" /\ active' \in BOOLEAN
        /\ UNCHANGED <<platform, checks, deadlines, attempt, checked, turn, claim, spool, faults>>
    BY <1>1 DEF StartRun, Startable, ValidateJob, HostsTypeOK
  <2>2. HostsTypeOK'
    BY <2>1 DEF HostsTypeOK, platform, checks, deadlines, claim
  <2>3. Covered'
    <3>1. JobLeaseDuration(job)' = JobLeaseDuration(job)
      BY <2>1 DEF JobLeaseDuration, Schedule, claim
    <3>. QED
      BY <2>1, <3>1 DEF Covered, Leased, platform, deadlines, claim
  <2>. QED
    BY <2>1, <2>2, <2>3 DEF InFlight, InRequest, HasJob, Withdrawals, platform, deadlines, claim
<1>2. CASE RunRefused
  <2>1. HostsTypeOK'
    BY <1>2, FollowingTyped DEF RunRefused, NextIteration, HostsTypeOK, platform, checks,
                                deadlines, local
  <2>2. Withdrawals'
    BY <1>2 DEF RunRefused, Withdrawals, platform, deadlines
  <2>. QED BY <1>2, <2>1, <2>2, IdleKeeps DEF RunRefused, NextIteration
<1>3. CASE FinishRun
  <2>1. /\ active' \in BOOLEAN /\ job' = NoJob /\ lease' = 0
        /\ pc' \in {"loop", "down"} /\ turn' \in {turn, Following(turn)}
        /\ spool' \in {"none", "kept", "refused"} /\ faults' \in 0 .. MaxFaults
        /\ UNCHANGED <<platform, checks, deadlines, attempt, checked, asked, age>>
    BY <1>3, FaultTyped DEF FinishRun, NextIteration, HostsTypeOK
  <2>2. HostsTypeOK'
    BY <2>1, FollowingTyped DEF HostsTypeOK, platform, checks, deadlines
  <2>3. Withdrawals'
    BY <2>1 DEF Withdrawals, platform, deadlines
  <2>. QED BY <2>1, <2>2, <2>3, IdleKeeps
<1>. QED
  BY <1>1, <1>2, <1>3

(* The process and the operator. *)
LEMMA Process ==
    ASSUME HInv, Crash \/ Restart \/ ReplayRefused
    PROVE  HInv'
<1>. USE DEF HInv
<1>1. CASE Crash
  <2>1. HostsTypeOK'
    BY <1>1, FaultTyped DEF Crash, HostsTypeOK, platform, checks, deadlines, claim, local
  <2>2. Withdrawals'
    BY <1>1 DEF Crash, Withdrawals, platform, deadlines
  <2>. QED BY <1>1, <2>1, <2>2, IdleKeeps DEF Crash
<1>2. CASE Restart
  <2>1. HostsTypeOK'
    <3>1. turn' \in Profiles
      BY <1>2, ProfileAssumption DEF Restart, Profiles
    <3>2. left' \in [Profiles -> Nat] /\ attempt' \in [Profiles -> Nat \cup {Unset}]
          /\ checked' \in [Profiles -> BOOLEAN]
      BY <1>2 DEF Restart, HostsTypeOK
    <3>. QED
      BY <1>2, <3>1, <3>2 DEF Restart, HostsTypeOK, platform, checks
  <2>2. Withdrawals'
    BY <1>2 DEF Restart, Withdrawals, platform
  <2>. QED BY <1>2, <2>1, <2>2, IdleKeeps DEF Restart
<1>3. CASE ReplayRefused
  <2>1. HostsTypeOK'
    BY <1>3 DEF ReplayRefused, HostsTypeOK, platform, checks, deadlines, claim
  <2>2. Untouched
    BY <1>3 DEF ReplayRefused, Untouched, platform, deadlines, claim
  <2>. QED BY <2>1, <2>2, UntouchedKeeps
<1>. QED
  BY <1>1, <1>2, <1>3

LEMMA Interventions ==
    ASSUME HInv, Operator
    PROVE  HInv'
<1>. USE DEF HInv
<1>1. CASE Reconcile \/ RecoverStaleRun \/ ChangeTrust \/ ChangeControls \/ SwitchHost
  <2>1. /\ hostEnabled' \in BOOLEAN /\ trusted' \in BOOLEAN /\ controls' \in BOOLEAN
        /\ active' \in BOOLEAN /\ spool' \in {"none", "kept", "refused"}
    BY <1>1 DEF Reconcile, RecoverStaleRun, ChangeTrust, ChangeControls, SwitchHost,
                HostsTypeOK, platform, checks, local
  <2>2. faults' \in 0 .. MaxFaults
    BY <1>1, FaultTyped DEF Reconcile, RecoverStaleRun, ChangeTrust, ChangeControls, SwitchHost
  <2>3. /\ UNCHANGED <<enrolled, withdrawn, deadlines, turn, pc, claim>>
        /\ UNCHANGED <<attempt, checked>>
    BY <1>1 DEF Reconcile, RecoverStaleRun, ChangeTrust, ChangeControls, SwitchHost, platform
  <2>4. Untouched
    BY <2>3 DEF Untouched, deadlines, claim
  <2>5. HostsTypeOK'
    BY <2>1, <2>2, <2>3 DEF HostsTypeOK, deadlines, claim
  <2>. QED
    BY <2>4, <2>5, UntouchedKeeps
<1>2. ASSUME NEW p \in Profiles, SwitchEnrollment(p) PROVE HInv'
  <2>1. /\ enrolled' = [enrolled EXCEPT ![p] = ~enrolled[p]]
        /\ withdrawn' = [withdrawn EXCEPT ![p] = 0]
        /\ faults' \in 0 .. MaxFaults
        /\ UNCHANGED <<hostEnabled, checks, deadlines, attempt, checked, turn, pc, claim, local>>
    BY <1>2, FaultTyped DEF SwitchEnrollment
  <2>2. enrolled' \in [Profiles -> BOOLEAN] /\ withdrawn' \in [Profiles -> Nat]
    BY <2>1 DEF HostsTypeOK
  <2>3. HostsTypeOK'
    BY <2>1, <2>2 DEF HostsTypeOK, checks, deadlines, claim, local
  <2>4. \A q \in Profiles : withdrawn'[q] \in {0, withdrawn[q]} /\ withdrawn[q] \in Nat
    BY <2>1 DEF HostsTypeOK
  <2>5. \A q \in Profiles : enrolled'[q] => withdrawn'[q] = 0
    BY <2>1 DEF HostsTypeOK, Withdrawals
  <2>6. /\ disk' = disk /\ left' = left /\ disk \in Nat /\ turn' = turn /\ turn \in Profiles
        /\ pc' = pc /\ lease' = lease /\ advisory' = advisory /\ job' = job
        /\ asked' = asked /\ age' = age /\ lease \in Nat /\ age \in Nat
        /\ \A q \in Profiles : left[q] \in Nat
    BY <2>1 DEF deadlines, claim, HostsTypeOK
  <2>7. Withdrawals'
    <3>1. \A q \in Profiles : left[q] > 0 => withdrawn'[q] + left[q] <= LongestHeld
      <4>1. \A q \in Profiles : left[q] > 0 => withdrawn[q] + left[q] <= LongestHeld
        BY DEF Withdrawals
      <4>. QED BY <2>4, <2>6, <4>1, Bounds
    <3>2. \A q \in Profiles : disk > 0 => withdrawn'[q] + disk <= LongestHeld
      <4>1. \A q \in Profiles : disk > 0 => withdrawn[q] + disk <= LongestHeld
        BY DEF Withdrawals
      <4>. QED BY <2>4, <2>6, <4>1, Bounds
    <3>. QED
      BY <2>5, <2>6, <3>1, <3>2 DEF Withdrawals
  <2>8. withdrawn'[turn] \in Nat /\ withdrawn[turn] \in Nat /\ withdrawn'[turn] <= withdrawn[turn]
    BY <2>4, <2>6
  <2>9. Covered'
    <3>. SUFFICES ASSUME Leased PROVE Covered'
      BY <2>6 DEF Covered, Leased
    <3>1. JobLeaseDuration(job)' = JobLeaseDuration(job) /\ JobLeaseDuration(job) \in Nat
      BY <2>6, Durations DEF JobLeaseDuration, Schedule, HasJob, Leased
    <3>2. withdrawn'[turn] + lease <= LongestHeld + Overrun
      BY <2>6, <2>8, Bounds DEF Covered
    <3>3. turn # Base => withdrawn'[turn] + lease <= JobLeaseDuration(job) + Skew + Transit
      BY <2>6, <2>8, <3>1, Times DEF Covered
    <3>. QED
      BY <2>6, <3>1, <3>2, <3>3 DEF Covered
  <2>10. InFlight'
    <3>. SUFFICES ASSUME InRequest PROVE InFlight'
      BY <2>6 DEF InFlight, InRequest
    <3>1. margin(turn)' = margin(turn) /\ margin(turn) \in Nat
      BY <2>6, Margins DEF margin
    <3>2. withdrawn'[turn] + margin(turn) < LongestHeld + age
      BY <2>6, <2>8, <3>1, Bounds DEF InFlight
    <3>3. pc # "claiming" /\ turn # Base => withdrawn'[turn] <= age
      BY <2>6, <2>8 DEF InFlight
    <3>. QED
      BY <2>6, <3>1, <3>2, <3>3 DEF InFlight
  <2>11. HasJob'
    BY <2>6 DEF HasJob
  <2>. QED BY <2>3, <2>7, <2>9, <2>10, <2>11
<1>. QED
  BY <1>1, <1>2 DEF Operator

LEMMA Nearer ==
    ASSUME NEW a \in Int, NEW b \in Int, NEW c \in Int, NEW d \in Int, a < b + c, d >= b - 1
    PROVE  a - 1 < d + c
OBVIOUS

LEMMA Later ==
    ASSUME NEW a \in Nat, NEW b \in Nat, NEW c \in Nat, NEW d \in Int,
           c \in {a, a + 1}, b > 0, a + b <= d
    PROVE  c + (b - 1) <= d
OBVIOUS

----------------------------------------------------------------------------
(* Time passes: an authorization, a lease and the age of a claim move together. *)

LEMMA SoonerTyped ==
    ASSUME NEW t \in Nat
    PROVE  /\ Sooner(t) \in Nat
           /\ t > 0 => Sooner(t) = t - 1
           /\ t = 0 => Sooner(t) = 0
BY DEF Sooner

LEMMA Ticking ==
    ASSUME HInv, Tick
    PROVE  HInv'
<1>. USE DEF HInv
<1>1. /\ left' = [p \in Profiles |-> Sooner(left[p])]
      /\ attempt' = [p \in Profiles |-> Sooner(attempt[p])]
      /\ disk' = Sooner(disk) /\ validIn' = Sooner(validIn) /\ advisory' = Sooner(advisory)
      /\ lease' = Sooner(lease)
      /\ age' = (IF InRequest THEN age + 1 ELSE age)
      /\ withdrawn' = [p \in Profiles |-> IF enrolled[p] \/ withdrawn[p] = LongAgo
                                          THEN withdrawn[p] ELSE withdrawn[p] + 1]
      /\ InRequest => age < Transit
      /\ pc = "running" => lease > 0
      /\ UNCHANGED <<hostEnabled, enrolled, checks, checked, turn, pc, asked, job, local, faults>>
  BY DEF Tick
<1>2. /\ \A p \in Profiles : left[p] \in Nat /\ withdrawn[p] \in Nat
      /\ disk \in Nat /\ advisory \in Nat /\ validIn \in Nat /\ lease \in Nat /\ age \in Nat
      /\ turn \in Profiles
  BY DEF HostsTypeOK
<1>3. /\ \A p \in Profiles : left'[p] = Sooner(left[p])
      /\ \A p \in Profiles : withdrawn'[p] \in {withdrawn[p], withdrawn[p] + 1}
      /\ \A p \in Profiles : enrolled[p] => withdrawn'[p] = withdrawn[p]
  BY <1>1
<1>4. HostsTypeOK'
  <2>1. left' \in [Profiles -> Nat]
    BY <1>1, <1>2, SoonerTyped
  <2>2. attempt' \in [Profiles -> Nat \cup {Unset}]
    <3>1. \A p \in Profiles : Sooner(attempt[p]) \in Nat \cup {Unset}
      BY DEF HostsTypeOK, Sooner, Unset
    <3>. QED
      BY <1>1, <3>1
  <2>3. withdrawn' \in [Profiles -> Nat]
    <3>1. \A p \in Profiles : (IF enrolled[p] \/ withdrawn[p] = LongAgo
                               THEN withdrawn[p] ELSE withdrawn[p] + 1) \in Nat
      BY <1>2
    <3>. QED
      BY <1>1, <3>1
  <2>4. /\ disk' \in Nat /\ validIn' \in Nat /\ advisory' \in Nat /\ lease' \in Nat
        /\ age' \in Nat
    BY <1>1, <1>2, SoonerTyped
  <2>. QED
    BY <1>1, <2>1, <2>2, <2>3, <2>4 DEF HostsTypeOK, checks, local
<1>5. /\ left'[turn] >= left[turn] - 1 /\ advisory' >= advisory - 1
      /\ left'[turn] \in Nat /\ advisory' \in Nat /\ left[turn] \in Nat /\ advisory \in Nat
      /\ withdrawn[turn] \in Nat /\ withdrawn'[turn] \in {withdrawn[turn], withdrawn[turn] + 1}
  BY <1>1, <1>2, <1>3, SoonerTyped
<1>6. InFlight'
  <2>. SUFFICES ASSUME InRequest PROVE InFlight'
    BY <1>1 DEF InFlight, InRequest
  <2>1. age' = age + 1 /\ age < Transit /\ asked' = asked /\ turn' = turn /\ pc' = pc
    BY <1>1
  <2>2. margin(turn)' = margin(turn) /\ margin(turn) \in Nat
    BY <1>2, <2>1, Margins DEF margin
  <2>3. withdrawn'[turn] + margin(turn) < LongestHeld + (age + 1)
    BY <1>2, <1>5, <2>2, Bounds DEF InFlight
  <2>4. left'[turn] + (age + 1) > margin(turn)
        /\ ("preflight" \in asked => advisory' + (age + 1) > margin(turn))
    BY <1>2, <1>5, <2>2 DEF InFlight
  <2>5. pc # "claiming" /\ turn # Base => withdrawn'[turn] <= age + 1
    BY <1>2, <1>5 DEF InFlight
  <2>6. age + 1 <= Transit
    BY <1>2, <2>1, Times
  <2>. QED
    BY <2>1, <2>2, <2>3, <2>4, <2>5, <2>6 DEF InFlight
<1>7. Covered'
  <2>. SUFFICES ASSUME Leased' PROVE Covered'
    BY DEF Covered
  <2>1. lease > 0 /\ lease' = lease - 1 /\ Leased /\ lease \in Nat
    BY <1>1, <1>2, SoonerTyped DEF Leased
  <2>2. /\ lease < left[turn] + Overrun
        /\ job.purpose = "preflight" => lease < advisory + Overrun
        /\ withdrawn[turn] + lease <= LongestHeld + Overrun
        /\ turn # Base => withdrawn[turn] + lease <= JobLeaseDuration(job) + Skew + Transit
        /\ JobLeaseDuration(job) \in Nat
    BY <2>1, Durations DEF Covered, HasJob, Leased
  <2>3. lease' < left'[turn] + Overrun
    BY <1>5, <2>1, <2>2, Bounds
  <2>4. job.purpose = "preflight" => lease' < advisory' + Overrun
    <3>1. ASSUME job.purpose = "preflight" PROVE lease - 1 < advisory' + Overrun
      <4>1. lease < advisory + Overrun /\ lease \in Int /\ Overrun \in Int
        BY <2>1, <2>2, <3>1, Bounds
      <4>2. advisory \in Int /\ advisory' \in Int /\ advisory' >= advisory - 1
        BY <1>5
      <4>. QED BY <4>1, <4>2, Nearer
    <3>. QED BY <2>1, <3>1
  <2>5. withdrawn'[turn] + lease' <= LongestHeld + Overrun
    <3>1. LongestHeld + Overrun \in Int
      BY Bounds
    <3>. QED
      BY <1>5, <2>1, <2>2, <3>1, Later
  <2>6. turn # Base => withdrawn'[turn] + lease' <= JobLeaseDuration(job) + Skew + Transit
    <3>1. JobLeaseDuration(job) + Skew + Transit \in Int
      BY <2>2, Times
    <3>. QED
      BY <1>5, <2>1, <2>2, <3>1, Later
  <2>7. JobLeaseDuration(job)' = JobLeaseDuration(job)
    BY <1>1 DEF JobLeaseDuration, Schedule
  <2>. QED
    BY <1>1, <2>3, <2>4, <2>5, <2>6, <2>7 DEF Covered
<1>8. HasJob'
  BY <1>1 DEF HasJob
<1>9. Withdrawals'
  <2>1. \A p \in Profiles : enrolled'[p] => withdrawn'[p] = 0
    BY <1>1, <1>3 DEF Withdrawals
  <2>2. ASSUME NEW p \in Profiles, left'[p] > 0
        PROVE  withdrawn'[p] + left'[p] <= LongestHeld
    <3>1. left[p] > 0 /\ left'[p] = left[p] - 1
      BY <1>2, <1>3, <2>2, SoonerTyped
    <3>2. withdrawn[p] + left[p] <= LongestHeld
      BY <3>1 DEF Withdrawals
    <3>3. /\ left[p] \in Nat /\ withdrawn[p] \in Nat
          /\ withdrawn'[p] \in {withdrawn[p], withdrawn[p] + 1}
      BY <1>2, <1>3
    <3>. QED
      BY <3>1, <3>2, <3>3, Later, Bounds
  <2>3. ASSUME NEW p \in Profiles, disk' > 0
        PROVE  withdrawn'[p] + disk' <= LongestHeld
    <3>1. disk > 0 /\ disk' = disk - 1
      BY <1>1, <1>2, <2>3, SoonerTyped
    <3>2. withdrawn[p] + disk <= LongestHeld
      BY <3>1 DEF Withdrawals
    <3>3. /\ disk \in Nat /\ withdrawn[p] \in Nat
          /\ withdrawn'[p] \in {withdrawn[p], withdrawn[p] + 1}
      BY <1>2, <1>3
    <3>. QED
      BY <3>1, <3>2, <3>3, Later, Bounds
  <2>. QED
    BY <2>1, <2>2, <2>3 DEF Withdrawals
<1>. QED
  BY <1>4, <1>6, <1>7, <1>8, <1>9

----------------------------------------------------------------------------
LEMMA HostsStep == HInv /\ [Next]_vars => HInv'
<1> SUFFICES ASSUME HInv, [Next]_vars PROVE HInv'
  OBVIOUS
<1>1. CASE UNCHANGED vars
  <2>1. HostsTypeOK'
    BY <1>1 DEF HInv, HostsTypeOK, vars
  <2>2. Untouched
    BY <1>1 DEF Untouched, vars
  <2>. QED
    BY <2>1, <2>2, UntouchedKeeps
<1>2. CASE Next
  <2>1. CASE Serve
    BY <2>1, BeforeClaim, Sending, Answering, Running DEF Serve
  <2>2. CASE Endpoint
    BY <2>2, Selecting, Stamping, Answering DEF Endpoint
  <2>. QED
    BY <1>2, <2>1, <2>2, Interventions, Process, Ticking DEF Next
<1>. QED
  BY <1>1, <1>2

(* The invariant holds in every reachable state. *)
LEMMA HostsInvariant == Spec => []HInv
BY HostsInit, HostsStep, PTL DEF Spec

(* A host's deadlines, its window and its claim keep their types. *)
THEOREM HostsTypeCorrect == Spec => []HostsTypeOK
<1>1. HInv => HostsTypeOK
  BY DEF HInv
<1>. QED
  BY <1>1, HostsInvariant, PTL

(* Whatever the margins, leases, skew and transport times, the lease of a run  *)
(* outlasts the authorization of its host and, for a preflight, the advisory   *)
(* snapshot, by less than transport and skew exceed the reserve (margin,       *)
(* JobLeaseDuration, MatchJobLease, claimRunnerJob).                           *)
THEOREM LeasesAreCovered == Spec => []LeaseCovered
<1>1. HInv => LeaseCovered
  BY DEF HInv, Covered, Leased, LeaseCovered
<1>. QED
  BY <1>1, HostsInvariant, PTL

(* A withdrawn enrollment stops running jobs within the longest authorization  *)
(* and an overrun on the host's own profile, and within one request and the    *)
(* lease of one job on any other, also when the withdrawal comes between the   *)
(* read of the enrollment and the stamp of the lease                           *)
(* (renewRunnerAuthorization, selectRunnerProfile, claimRunnerJob).            *)
THEOREM WithdrawalsBite == Spec => []WithdrawalBites
<1>1. HInv => WithdrawalBites
  <2>. SUFFICES ASSUME HInv, pc = "running" PROVE WithdrawalBites
    BY DEF WithdrawalBites
  <2>1. /\ turn \in Profiles /\ lease \in Nat /\ withdrawn[turn] \in Nat
        /\ JobLeaseDuration(job) \in Nat
    BY Durations DEF HInv, HostsTypeOK, HasJob
  <2>2. /\ withdrawn[turn] + lease <= LongestHeld + Overrun
        /\ turn # Base => withdrawn[turn] + lease <= JobLeaseDuration(job) + Skew + Transit
    BY DEF HInv, Covered, Leased
  <2>3. withdrawn[turn] <= LongestHeld + Overrun
    BY <2>1, <2>2, Bounds
  <2>4. turn # Base => withdrawn[turn] <= Larger(JobLeaseDuration(job) + Skew, 0) + Transit
    BY <2>1, <2>2, Times DEF Larger
  <2>. QED
    BY <2>3, <2>4 DEF WithdrawalBites
<1>. QED
  BY <1>1, HostsInvariant, PTL
=============================================================================
