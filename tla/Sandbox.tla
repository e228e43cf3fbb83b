------------------------------ MODULE Sandbox ------------------------------
(***************************************************************************)
(* One sandboxed run: the virtual machine a host starts for a job, PID 1    *)
(* of the guest (GuestInit), the reviewed checker it launches, the broker   *)
(* that runs the submitted program on the checker's behalf, and the         *)
(* receipt the host signs from the one frame the guest prints.              *)
(*                                                                          *)
(* The broker is a goroutine of PID 1: it serves requests while PID 1 waits *)
(* for the checker, whose descendants stay alive until the broker is done.  *)
(* A program is executed between a start and an end, and the session may    *)
(* run out, or PID 1 may cancel it, anywhere in between.                    *)
(*                                                                          *)
(* A ratio is a pair <<numerator, denominator>> of positive integers.       *)
(***************************************************************************)
EXTENDS Integers, Sequences, FiniteSets, Combinatorics

CONSTANTS
    Warmups, Repetitions,   \* the measurement policy's schedule
    ConfidencePPM,          \* requested confidence, in millionths
    MaxRelativeWidth,       \* widest conclusive interval, as a ratio
    MinRuns, MaxRuns,       \* the program's run counts
    BaselineTimes,          \* durations an execution of the baseline may take
    CandidateTimes          \* durations an execution of the candidate may take

Candidate == "candidate"
Baseline == "baseline"
Pairs == Warmups + Repetitions
None == "none"

\* What the guest prints: an outcome and, with a result, its score.  The score
\* of a run without paired timing is the checker's and is not told apart.
NoScore == <<0, 0>>
Reported == <<0, 1>>
Frame(o, value) == [outcome |-> o, score |-> value]
NoFrame == Frame(None, NoScore)

Ratios == (Nat \ {0}) \X (Nat \ {0})
Less(a, b) == a[1] * b[2] < b[1] * a[2]
AtMost(a, b) == ~Less(b, a)

----------------------------------------------------------------------------
(* The measurement policy and what a schedule of trials is worth.           *)
(* A trial is [base, cand, first, quality].                                 *)

PPM == 1000000

TailSum(n, k) ==
    LET sum[j \in 0 .. k] == IF j = 0 THEN 0 ELSE choose(n, j - 1) + sum[j - 1]
    IN  sum[k]

(* Seeded fault: the tail leaves out the split counted last. *)
intervalIndexOffByOne(n, confidence) ==
    LET fits(k) == TailSum(n, k - 1) * 2 * PPM <= 2^n * (PPM - confidence)
        answers == {k \in 1 .. (n + 1) \div 2 : \A j \in 1 .. k : fits(j)}
    IN  IF answers = {} THEN 0 ELSE CHOOSE k \in answers : \A j \in answers : j <= k

medianIntervalIndex(n, confidence) ==
    LET fits(k) == TailSum(n, k) * 2 * PPM <= 2^n * (PPM - confidence)
        answers == {k \in 1 .. (n + 1) \div 2 : \A j \in 1 .. k : fits(j)}
    IN  IF answers = {} THEN 0 ELSE CHOOSE k \in answers : \A j \in answers : j <= k

\* The code also asks for 9 to 255 repetitions and for 900000 to 999999 ppm,
\* which only narrows what is assumed here.
ValidateMeasurementPolicy ==
    /\ Warmups \in Nat \ {0} /\ Repetitions \in Nat \ {0}
    /\ ConfidencePPM \in 1 .. PPM - 1
    /\ MaxRelativeWidth \in Ratios /\ AtMost(MaxRelativeWidth, <<1, 1>>)
    /\ medianIntervalIndex(Repetitions, ConfidencePPM) >= 1

ASSUME PolicyAssumption == ValidateMeasurementPolicy

ASSUME ProgramAssumption ==
    /\ {MinRuns, MaxRuns} \subseteq Nat \ {0} /\ MinRuns <= MaxRuns
    /\ BaselineTimes \cup CandidateTimes \subseteq Nat \ {0}

Ratio(t) == <<t.base, t.cand>>

OrderStatistic(trials, k) ==
    LET among(i, P(_, _)) == Cardinality({j \in DOMAIN trials : P(Ratio(trials[j]), Ratio(trials[i]))})
    IN  Ratio(trials[CHOOSE i \in DOMAIN trials : among(i, Less) < k /\ k <= among(i, AtMost)])

Median(trials) ==
    LET n == Len(trials)
        mid == OrderStatistic(trials, (n \div 2) + 1)
        before == OrderStatistic(trials, n \div 2)
    IN  IF n % 2 = 1 THEN mid
        ELSE <<mid[1] * before[2] + before[1] * mid[2], 2 * mid[2] * before[2]>>

Alternates(trials) == \A i \in DOMAIN trials : trials[i].first = ((i - 1) % 2 = 0)
AllPassed(trials) == \A i \in DOMAIN trials : trials[i].quality

\* No trial is dropped: one failed quality check voids the whole schedule.
Summarizable(trials) == Len(trials) = Repetitions /\ AllPassed(trials) /\ Alternates(trials)

SummarizeTimings(trials) ==
    LET k == medianIntervalIndex(Repetitions, ConfidencePPM)
        lower == OrderStatistic(trials, k)
        upper == OrderStatistic(trials, Repetitions - k + 1)
        median == Median(trials)
        width == <<(upper[1] * lower[2] - lower[1] * upper[2]) * median[2],
                   upper[2] * lower[2] * median[1]>>
    IN  [lower |-> lower,
         outcome |-> IF Less(MaxRelativeWidth, width) THEN "measurement_inconclusive" ELSE "valid"]

WarmupsValid(trials) == Len(trials) = Warmups /\ AllPassed(trials) /\ Alternates(trials)

----------------------------------------------------------------------------

VARIABLES
    measured,   \* the manifest has a measurement policy (mode "performance")
    built,      \* the build request has been used
    ready,      \* [{Candidate, Baseline} -> BOOLEAN] built, sealed, published
    sealed,     \* [{Candidate, Baseline} -> BOOLEAN] work tree read-only
    runs,       \* executions counted against MaxRuns
    pairs,      \* trials so far
    pending,    \* the last pair awaits the checker's assessment
    outputsOK,  \* pairOutputsValid
    partial,    \* the pair being executed: [base, cand, ok]
    serving,    \* what the broker is doing; "done": its loop has ended
    fault,      \* the broker's fault
    expired,    \* the session timeout has passed
    cancelled,  \* PID 1 has cancelled the session context
    checker,    \* "running", or how it ended
    init,       \* the machine and its PID 1: "off", "booting", "waiting", "draining",
                \* "printed"
    timedOut,   \* ctx.Err() # nil as PID 1 read it
    console,    \* what the guest printed: [boot, frame]
    outcome,    \* the receipt's outcome, "error" when there is no receipt
    score,      \* the receipt's score
    trail,      \* history: every execution, in order
    vouched,    \* history: pairs the checker accepted
    broke       \* history: the failures that are nobody's loss

program == <<built, ready, sealed, runs, pairs, pending, outputsOK, partial>>
broker == <<program, serving, fault>>
guest == <<checker, init, timedOut, console>>
host == <<outcome, score>>
history == <<trail, vouched, broke>>
vars == <<measured, broker, expired, cancelled, guest, host, history>>

Who == {Candidate, Baseline}
Trial == [base : BaselineTimes, cand : CandidateTimes, first : BOOLEAN, quality : BOOLEAN]
Times(who) == IF who = Baseline THEN BaselineTimes ELSE CandidateTimes
ctxDone == expired \/ cancelled
NoPair == [base |-> 0, cand |-> 0, ok |-> TRUE]

BrokerInit ==
    /\ built = FALSE /\ ready = [w \in Who |-> FALSE] /\ sealed = [w \in Who |-> FALSE]
    /\ runs = 0 /\ pairs = << >> /\ pending = FALSE /\ outputsOK = FALSE
    /\ partial = NoPair /\ serving = "idle" /\ fault = FALSE

Init ==
    /\ measured \in BOOLEAN /\ BrokerInit
    /\ expired = FALSE /\ cancelled = FALSE
    /\ checker = "running" /\ init = "off" /\ timedOut = FALSE
    /\ console = [boot |-> FALSE, frame |-> NoFrame]
    /\ outcome = None /\ score = NoScore
    /\ trail = << >> /\ vouched = {} /\ broke = {}

\* The session is on: PID 1 has launched the checker and has not reported, and
\* the machine runs.
Alive == outcome = None /\ init \in {"waiting", "draining"}

----------------------------------------------------------------------------
(* Up to the session: disks, configuration and jail on the host, then every *)
(* mount, limit and cgroup of PID 1 and the roots of the broker.            *)

StartMachine ==
    /\ outcome = None /\ init = "off"
    /\ init' = "booting"
    /\ UNCHANGED <<measured, broker, expired, cancelled, checker, timedOut, console, host, history>>

\* A disk, a copy, the configuration or a mount fails: there is no receipt.
SetupFails ==
    /\ outcome = None /\ init = "off"
    /\ outcome' = "error" /\ score' = NoScore
    /\ broke' = broke \cup {"host"}
    /\ UNCHANGED <<measured, broker, expired, cancelled, guest, trail, vouched>>

Boot ==
    /\ outcome = None /\ init = "booting"
    /\ init' = "waiting"
    /\ UNCHANGED <<measured, broker, expired, cancelled, checker, timedOut, console, host, history>>

\* Any of its steps fails: GuestInit returns the error before a session exists.
BootFails ==
    /\ outcome = None /\ init = "booting"
    /\ init' = "printed" /\ console' = [boot |-> TRUE, frame |-> NoFrame]
    /\ broke' = broke \cup {"guest"}
    /\ UNCHANGED <<measured, broker, expired, cancelled, checker, timedOut, host, trail, vouched>>

----------------------------------------------------------------------------
(* The broker.  A refused request ("invalid_request") changes nothing.      *)

Executed(who, stage) == trail' = Append(trail, [who |-> who, stage |-> stage, sealed |-> sealed[who]])

\* The end of an execution; a session that is over always counts as a resource
\* limit.
Outcomes == IF ctxDone THEN {"resource_limit"}
            ELSE {"valid", "candidate_error", "resource_limit", "output_limit"}

\* What execute reports as the program's own error may be a fork, a chroot or a
\* launcher that failed: the program never started.
EndedAs(o) ==
    IF o = "candidate_error" THEN broke' \in {broke, broke \cup {"launch"}} ELSE UNCHANGED broke

BreakDown(what) ==
    /\ fault' = TRUE /\ serving' = "done" /\ broke' = broke \cup {what}

AcceptBuild ==
    /\ Alive /\ serving = "idle"
    /\ ~built /\ runs = 0
    /\ built' = TRUE /\ serving' = "build"
    /\ Executed(Candidate, "build")
    /\ UNCHANGED <<measured, ready, sealed, runs, pairs, pending, outputsOK, partial, fault,
                   expired, cancelled, guest, host, vouched, broke>>

\* sealWork and publishProducts after a good build; products that are missing,
\* linked or too large leave the program not ready, and so does a products
\* mount that fails.
SealProgram(s, r) ==
    \/ /\ sealed' = [s EXCEPT ![Candidate] = TRUE]
       /\ serving' = "idle" /\ UNCHANGED fault
       /\ \/ ready' = [r EXCEPT ![Candidate] = TRUE] /\ UNCHANGED broke
          \/ ready' = r /\ \E b \in {{}, {"mount"}} : broke' = broke \cup b
    \/ sealed' = s /\ ready' = r /\ BreakDown("seal")

EndBuild ==
    /\ Alive /\ serving = "build"
    /\ \/ \E o \in Outcomes :
            \/ /\ o = "valid" /\ measured
               /\ serving' = "baseline" /\ Executed(Baseline, "build")
               /\ UNCHANGED <<ready, sealed, fault, broke>>
            \/ o = "valid" /\ ~measured /\ SealProgram(sealed, ready) /\ UNCHANGED trail
            \/ /\ o # "valid" /\ serving' = "idle" /\ EndedAs(o)
               /\ UNCHANGED <<ready, sealed, fault, trail>>
       \/ BreakDown("execute") /\ UNCHANGED <<ready, sealed, trail>>
    /\ UNCHANGED <<measured, built, runs, pairs, pending, outputsOK, partial, expired, cancelled,
                   guest, host, vouched>>

\* The frozen baseline must build: any other outcome is the platform's fault,
\* also when the session ended under it.
EndBaselineBuild ==
    /\ Alive /\ serving = "baseline"
    /\ \/ /\ "valid" \in Outcomes
          /\ \/ SealProgram([sealed EXCEPT ![Baseline] = TRUE], [ready EXCEPT ![Baseline] = TRUE])
             \/ UNCHANGED <<sealed, ready>> /\ BreakDown("seal")
       \/ UNCHANGED <<sealed, ready>> /\ BreakDown("baseline")
    /\ UNCHANGED <<measured, built, runs, pairs, pending, outputsOK, partial, expired, cancelled,
                   guest, host, trail, vouched>>

AcceptRun ==
    /\ Alive /\ serving = "idle" /\ ~measured
    /\ built /\ runs < MaxRuns /\ ready[Candidate]
    /\ runs' = runs + 1 /\ serving' = "run"
    /\ Executed(Candidate, "run")
    /\ UNCHANGED <<measured, built, ready, sealed, pairs, pending, outputsOK, partial, fault,
                   expired, cancelled, guest, host, vouched, broke>>

\* The program's outcome goes back to the checker, which decides what it means.
EndRun ==
    /\ Alive /\ serving = "run"
    /\ \/ serving' = "idle" /\ UNCHANGED fault /\ \E o \in Outcomes : EndedAs(o)
       \/ BreakDown("execute")
    /\ UNCHANGED <<measured, program, expired, cancelled, guest, host, trail, vouched>>

\* Alternation restarts after the warm-ups; index counts from zero.
baselineFirst(index) ==
    (IF index < Warmups THEN index ELSE index - Warmups) % 2 = 0

PairAllowed ==
    /\ ready[Candidate] /\ ready[Baseline]
    /\ ~pending
    /\ Len(pairs) < Pairs /\ runs + 2 <= MaxRuns

First == IF baselineFirst(Len(pairs)) THEN Baseline ELSE Candidate
Second == IF First = Baseline THEN Candidate ELSE Baseline

AcceptPair ==
    /\ Alive /\ serving = "idle" /\ measured
    /\ PairAllowed
    /\ serving' = "first" /\ partial' = NoPair
    /\ Executed(First, "run")
    /\ UNCHANGED <<measured, built, ready, sealed, runs, pairs, pending, outputsOK, fault,
                   expired, cancelled, guest, host, vouched, broke>>

Timed(who, o, t) ==
    [base |-> IF who = Baseline THEN t ELSE partial.base,
     cand |-> IF who = Candidate THEN t ELSE partial.cand,
     ok |-> partial.ok /\ o = "valid"]

EndFirst ==
    /\ Alive /\ serving = "first"
    /\ \/ /\ \E o \in Outcomes, t \in Times(First) :
               partial' = Timed(First, o, t) /\ EndedAs(o)
          /\ serving' = "second" /\ Executed(Second, "run")
          /\ UNCHANGED fault
       \/ BreakDown("execute") /\ UNCHANGED <<partial, trail>>
    /\ UNCHANGED <<measured, built, ready, sealed, runs, pairs, pending, outputsOK, expired,
                   cancelled, guest, host, vouched>>

EndSecond ==
    /\ Alive /\ serving = "second"
    /\ \/ \E o \in Outcomes, t \in Times(Second) :
            LET pair == Timed(Second, o, t)
            IN  /\ pairs' = Append(pairs, [base |-> pair.base, cand |-> pair.cand,
                                           first |-> First = Baseline, quality |-> FALSE])
                /\ runs' = runs + 2 /\ pending' = TRUE /\ outputsOK' = pair.ok
                /\ serving' = "idle" /\ partial' = NoPair
                /\ UNCHANGED fault /\ EndedAs(o)
       \/ BreakDown("execute") /\ UNCHANGED <<pairs, runs, pending, outputsOK, partial>>
    /\ UNCHANGED <<measured, built, ready, sealed, expired, cancelled, guest, host, trail, vouched>>

(* Seeded fault: an invalid output may still pass. *)
QualityAsClaimed(passed) == passed

Quality(passed) == passed /\ outputsOK

Assess(passed) ==
    /\ Alive /\ serving = "idle" /\ measured
    /\ pending
    /\ pairs' = [pairs EXCEPT ![Len(pairs)].quality = Quality(passed)]
    /\ pending' = FALSE
    /\ vouched' = IF passed /\ outputsOK THEN vouched \cup {Len(pairs)} ELSE vouched
    /\ UNCHANGED <<measured, built, ready, sealed, runs, outputsOK, partial, serving, fault,
                   expired, cancelled, guest, host, trail, broke>>

\* The listener is closed when the session context ends.
BrokerStops ==
    /\ Alive /\ serving = "idle"
    /\ ctxDone
    /\ serving' = "done"
    /\ UNCHANGED <<measured, program, fault, expired, cancelled, guest, host, history>>

ListenerFails ==
    /\ Alive /\ serving = "idle"
    /\ ~ctxDone
    /\ BreakDown("accept")
    /\ UNCHANGED <<measured, program, expired, cancelled, guest, host, trail, vouched>>

----------------------------------------------------------------------------
(* PID 1 and the checker.                                                   *)

Expire ==
    /\ Alive /\ ~expired
    /\ expired' = TRUE
    /\ UNCHANGED <<measured, broker, cancelled, guest, host, history>>

CheckerExits ==
    /\ Alive /\ checker = "running"
    /\ checker' \in {"ok", "failed", "limited"}
    /\ UNCHANGED <<measured, broker, expired, cancelled, init, timedOut, console, host, history>>

\* A checker that cannot be launched looks like one that failed.
CheckerUnstarted ==
    /\ Alive /\ checker = "running" /\ trail = << >>
    /\ checker' = "failed" /\ broke' = broke \cup {"unchecked"}
    /\ UNCHANGED <<measured, broker, expired, cancelled, init, timedOut, console, host, trail,
                   vouched>>

KillChecker ==
    /\ Alive /\ checker = "running" /\ expired
    /\ checker' = "killed"
    /\ UNCHANGED <<measured, broker, expired, cancelled, init, timedOut, console, host, history>>

(* Seeded fault: PID 1 waits for the broker without cancelling it. *)
DrainUncancelled ==
    /\ Alive /\ init = "waiting" /\ checker # "running"
    /\ timedOut' = expired /\ init' = "draining"
    /\ UNCHANGED <<measured, broker, expired, cancelled, checker, console, host, history>>

\* command.Run has returned: PID 1 notes whether the session ran out and
\* cancels its context, which stops the broker.
Drain ==
    /\ Alive /\ init = "waiting" /\ checker # "running"
    /\ timedOut' = expired /\ cancelled' = TRUE
    /\ init' = "draining"
    /\ UNCHANGED <<measured, broker, expired, checker, console, host, history>>

\* timingEvidence succeeds
EvidenceComplete ==
    /\ ~pending /\ Len(pairs) = Pairs
    /\ WarmupsValid(SubSeq(pairs, 1, Warmups))
    /\ Summarizable(SubSeq(pairs, Warmups + 1, Pairs))

\* The frame for a checker that ended well; file: what /sl/output holds, or that
\* it cannot be read.
ResultFrame(file) ==
    LET summary == SummarizeTimings(SubSeq(pairs, Warmups + 1, Pairs))
        invalid == Frame("invalid_output", NoScore)
    IN  IF \/ ~ready[Candidate] \/ runs < MinRuns \/ file \in {"unusable", "unreadable"}
           \/ measured /\ ~EvidenceComplete
        THEN invalid
        ELSE IF file = "gate_failed"
        THEN Frame("hard_gate_failed", IF measured THEN summary.lower ELSE Reported)
        ELSE IF measured THEN Frame(summary.outcome, summary.lower)
        ELSE Frame("valid", Reported)

(* Seeded fault: the broker's fault is not looked at. *)
ReportAnyway(file) ==
    IF timedOut \/ checker = "limited" THEN Frame("resource_limit", NoScore)
    ELSE IF checker = "failed" THEN Frame("challenge_fault", NoScore)
    ELSE ResultFrame(file)

\* What GuestInit prints, NoFrame when it returns an error instead.
GuestReport(file) ==
    IF fault THEN NoFrame
    ELSE IF timedOut \/ checker = "limited" THEN Frame("resource_limit", NoScore)
    ELSE IF checker = "failed" THEN Frame("challenge_fault", NoScore)
    ELSE ResultFrame(file)

\* The broker is done; the checker's descendants are killed and the result is
\* read.  An error, also one of the kill, of the cgroup statistics or of the
\* reboot after the frame, is printed as SL_BOOT_ERROR.
Report ==
    /\ Alive /\ init = "draining" /\ serving = "done"
    /\ \E file \in {"good", "gate_failed", "unusable", "unreadable"} :
         \/ /\ console' = [boot |-> GuestReport(file) = NoFrame, frame |-> GuestReport(file)]
            /\ file = "unreadable" => checker = "ok"
            /\ broke' = IF file = "unreadable" THEN broke \cup {"output"} ELSE broke
         \/ /\ console' = [boot |-> TRUE, frame |-> NoFrame] /\ broke' = broke \cup {"guest"}
         \/ /\ console' = [boot |-> TRUE, frame |-> GuestReport(file)]
            /\ broke' = broke \cup {"guest"}
    /\ init' = "printed"
    /\ UNCHANGED <<measured, broker, expired, cancelled, checker, timedOut, host, trail, vouched>>

----------------------------------------------------------------------------
(* The host: runJob after the virtual machine has been started.             *)

\* How the monitor ends: by itself after the guest's reboot, because the guest
\* kernel panicked (which reboots too), or on the host's side: a failure of its
\* own or the host's deadline, which may also pass just after a good end.
Ends == {"exit", "panic", "host"}

\* parseGuestOutput asks for exactly one frame.
Receipt(end) ==
    IF end = "host" \/ console.boot THEN Frame("infrastructure_fault", NoScore)
    ELSE IF console.frame # NoFrame THEN console.frame
    ELSE Frame("invalid_output", NoScore)

\* The receipt is signed only after a clean teardown.
Finish(end) ==
    /\ outcome = None /\ init # "off"
    /\ end = "exit" => init = "printed"
    /\ end = "panic" => init # "printed"
    /\ \/ outcome' = Receipt(end).outcome /\ score' = Receipt(end).score
       \/ outcome' = "error" /\ score' = NoScore
    /\ broke' = IF end = "exit" THEN broke ELSE broke \cup {end}
    /\ UNCHANGED <<measured, broker, expired, cancelled, guest, trail, vouched>>

Done == outcome # None /\ UNCHANGED vars

Next ==
    \/ StartMachine \/ SetupFails \/ Boot \/ BootFails
    \/ AcceptBuild \/ EndBuild \/ EndBaselineBuild \/ AcceptRun \/ EndRun
    \/ AcceptPair \/ EndFirst \/ EndSecond \/ \E passed \in BOOLEAN : Assess(passed)
    \/ BrokerStops \/ ListenerFails
    \/ Expire \/ CheckerExits \/ CheckerUnstarted \/ KillChecker \/ Drain \/ Report
    \/ \E end \in Ends : Finish(end)
    \/ Done

Spec == Init /\ [][Next]_vars

\* Executions are killed when the session ends, the broker and PID 1 run on,
\* the kernel delivers the kill; nothing makes the checker or a timer act.
FairSpec ==
    /\ Spec
    /\ WF_vars(EndBuild \/ EndBaselineBuild \/ EndRun \/ EndFirst \/ EndSecond)
    /\ WF_vars(BrokerStops) /\ WF_vars(KillChecker)
    /\ WF_vars(Drain) /\ WF_vars(Report) /\ WF_vars(Finish("exit"))

----------------------------------------------------------------------------
(* Properties. *)

SandboxTypeOK ==
    /\ {measured, built, pending, outputsOK, fault, expired, cancelled, timedOut} \subseteq BOOLEAN
    /\ ready \in [Who -> BOOLEAN] /\ sealed \in [Who -> BOOLEAN]
    /\ runs \in 0 .. MaxRuns
    /\ pairs \in Seq(Trial) /\ Len(pairs) <= Pairs
    /\ serving \in {"idle", "build", "baseline", "run", "first", "second", "done"}
    /\ checker \in {"running", "ok", "failed", "limited", "killed"}
    /\ init \in {"off", "booting", "waiting", "draining", "printed"}
    /\ vouched \subseteq 1 .. Pairs

\* The executions a complete measured run consists of: both builds while the
\* trees are writable, then every pair in alternating order on sealed trees.
WholeSchedule ==
    /\ Len(trail) = 2 + 2 * Pairs
    /\ trail[1] = [who |-> Candidate, stage |-> "build", sealed |-> FALSE]
    /\ trail[2] = [who |-> Baseline, stage |-> "build", sealed |-> FALSE]
    /\ \A i \in 1 .. Pairs :
         LET position == IF i <= Warmups THEN i ELSE i - Warmups
             order == IF position % 2 = 1 THEN <<Baseline, Candidate>> ELSE <<Candidate, Baseline>>
         IN  \A j \in 1 .. 2 :
                trail[2 * i + j] = [who |-> order[j], stage |-> "run", sealed |-> TRUE]

\* If the true median ratio were below the score, at most the trials under the
\* score would fall on its lower side: the share of the equally likely splits
\* of the trials with so few on one side is within half the error allowed.
WithinConfidence(value) ==
    LET trials == Warmups + 1 .. Pairs
        below == Cardinality({i \in trials : Less(Ratio(pairs[i]), value)})
    IN  Cardinality({S \in SUBSET trials : Cardinality(S) <= below}) * 2 * PPM
            <= 2^Repetitions * (PPM - ConfidencePPM)

\* A signed score of a measured run comes from a whole schedule: one build of
\* each program, every pair run on sealed trees in the locked order, and every
\* pair accepted by the checker with valid outputs, whatever the interleaving
\* of requests, the checker's exit and the end of the session (the broker,
\* timingEvidence).
MeasuredRunIsWhole ==
    measured /\ score # NoScore => WholeSchedule /\ vouched = 1 .. Pairs

\* A signed score of a measured run is a lower bound of the median ratio at the
\* requested confidence (medianIntervalIndex, SummarizeTimings).
ScoreIsConfident == measured /\ score # NoScore => WithinConfidence(score)

\* A failure of the host's setup, the boot, the broker, the guest, the monitor or
\* the host's deadline never becomes an outcome that counts against the
\* submission.  Five failures are outside it because the code does not tell them
\* from what they look like.  Three are taken for the submission's error: a
\* program that cannot be started (broker_linux.go:348), a products mount that
\* fails (:279), and a guest kernel that panics before anything is printed.  A
\* result that cannot be read is taken for one the checker did not write
\* (guest_linux.go:192), and a checker that cannot be started for one that failed
\* (:187).
FaultIsNotLoss ==
    "panic" \notin broke /\ broke \ {"mount", "launch", "output", "unchecked"} # {} =>
        outcome \in {None, "error", "infrastructure_fault"}

\* Once the checker has ended, or the session has run out, the run ends, with
\* no help from the host's deadline: PID 1, the broker and the checker's
\* requests never wait for each other for good.
SessionEnds == (checker # "running" \/ expired) ~> outcome # None

\* A bound of the steps that are left: of every request the broker may still
\* accept, of what it is doing, and of the ends of timer, checker, PID 1 and
\* machine.
StepsOfBroker == [done |-> 0, second |-> 1, first |-> 2, idle |-> 3, run |-> 4,
                  baseline |-> 4, build |-> 5]
StepsOfInit == [printed |-> 0, draining |-> 1, waiting |-> 2, booting |-> 3, off |-> 4]
Once(p) == IF p THEN 1 ELSE 0
StepsLeft ==
    2 * (MaxRuns - runs) + 3 * Once(~built) + Once(pending) + StepsOfBroker[serving]
    + Once(~expired) + Once(checker = "running") + StepsOfInit[init] + Once(outcome = None)

\* What SessionEnds rests on, first: a session is finite.  Every step, also a
\* request that is accepted after the session has run out, uses up some of
\* what is left.
SessionShrinks == [][StepsLeft' < StepsLeft /\ {StepsLeft, StepsLeft'} \subseteq Nat]_vars

\* Second: nobody waits for one who waits for him.  Once the checker has ended
\* or the session has run out, it can be killed, PID 1 can cancel the broker,
\* an execution can end, a cancelled broker can stop, or the report, which
\* waits for the broker, or the machine's end is due.
SomeoneMoves ==
    outcome = None /\ (checker # "running" \/ expired) =>
        \/ checker = "running" /\ expired
        \/ init = "waiting" /\ checker # "running"
        \/ serving \notin {"idle", "done"}
        \/ serving = "idle" /\ ctxDone
        \/ serving = "done" /\ init = "draining"
        \/ init = "printed"
=============================================================================
