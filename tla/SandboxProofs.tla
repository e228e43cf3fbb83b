---------------------------- MODULE SandboxProofs ----------------------------
(* What is proved of a sandboxed run.  Whichever part of it breaks, and          *)
(* whenever, the submission is not blamed: this needs no assumption on the       *)
(* schedule, the policy or the programs.  A measured run is scored only after    *)
(* its whole schedule, no session exceeds its limits, and the score is a lower   *)
(* bound at the confidence of the policy: these three rest on the policy being   *)
(* valid and on the types of the programs' times.  Every session is finite, and  *)
(* until its end somebody has a step to take.                                    *)
EXTENDS Sandbox, SequenceTheorems, FiniteSetTheorems, TLAPS

(* Failures of the broker itself, which end its loop. *)
OfBroker == {"seal", "execute", "baseline", "accept"}

(* What the code takes for an error of the submission or of the checker. *)
Mistaken == {"mount", "launch", "output", "unchecked"}

Failures == OfBroker \cup Mistaken \cup {"guest", "panic", "host"}

(* The steps before there is a session. *)
Startup == StartMachine \/ SetupFails \/ Boot \/ BootFails

(* While the machine runs, a failure is remembered where the report is made: a   *)
(* failure of the broker in its fault, which stays, and one of PID 1 in what it  *)
(* printed.  Before the report nothing is printed.                               *)
Remembered ==
    outcome = None =>
        /\ "host" \notin broke /\ "panic" \notin broke
        /\ broke \cap OfBroker # {} => fault
        /\ "guest" \in broke => console.boot /\ init = "printed"
        /\ init # "printed" => ~console.boot /\ console.frame = NoFrame
        /\ fault /\ init = "printed" => console.boot

FaultInv == broke \subseteq Failures /\ Remembered /\ FaultIsNotLoss

LEMMA FaultInit == Init => FaultInv
BY DEF Init, BrokerInit, FaultInv, Remembered, FaultIsNotLoss, Failures, OfBroker, Mistaken, None

(* What a step of the broker does to what the invariant is about. *)
LEMMA BrokerSteps ==
    ASSUME FaultInv,
           \/ AcceptBuild \/ EndBuild \/ EndBaselineBuild \/ AcceptRun \/ EndRun
           \/ AcceptPair \/ EndFirst \/ EndSecond \/ (\E passed \in BOOLEAN : Assess(passed))
           \/ BrokerStops \/ ListenerFails
    PROVE  FaultInv'
<1>. DEFINE Quiet == broke' = broke /\ fault' = fault
            Taken == \E what \in Mistaken : broke' = broke \cup {what} /\ fault' = fault
            Broken == \E what \in OfBroker : broke' = broke \cup {what} /\ fault' = TRUE
<1>1. /\ Alive /\ serving # "done"
      /\ UNCHANGED <<guest, host>>
  BY DEF AcceptBuild, EndBuild, EndBaselineBuild, AcceptRun, EndRun, AcceptPair, EndFirst,
         EndSecond, Assess, BrokerStops, ListenerFails
<1>2. \A what : BreakDown(what) => fault' = TRUE /\ broke' = broke \cup {what}
  BY DEF BreakDown
<1>3. \A s, r : SealProgram(s, r) => Quiet \/ Taken \/ Broken
  BY <1>2 DEF SealProgram, OfBroker, Mistaken
<1>4. Quiet \/ Taken \/ Broken
  <2>1. CASE AcceptBuild \/ AcceptRun \/ AcceptPair \/ BrokerStops
             \/ (\E passed \in BOOLEAN : Assess(passed))
    BY <2>1 DEF AcceptBuild, AcceptRun, AcceptPair, BrokerStops, Assess, history
  <2>2. CASE EndBuild
    BY <2>2, <1>2, <1>3 DEF EndBuild, EndedAs, OfBroker, Mistaken
  <2>3. CASE EndBaselineBuild
    BY <2>3, <1>2, <1>3 DEF EndBaselineBuild, OfBroker
  <2>4. CASE EndRun \/ ListenerFails
    BY <2>4, <1>2 DEF EndRun, EndedAs, ListenerFails, OfBroker, Mistaken
  <2>5. CASE EndFirst \/ EndSecond
    BY <2>5, <1>2 DEF EndFirst, EndSecond, EndedAs, OfBroker, Mistaken
  <2>. QED BY <2>1, <2>2, <2>3, <2>4, <2>5
<1>5. init # "printed"
  BY <1>1 DEF Alive
<1>6. "host" \notin broke' /\ "panic" \notin broke' /\ ("guest" \in broke' => "guest" \in broke)
  BY <1>1, <1>4 DEF FaultInv, Remembered, Alive, OfBroker, Mistaken
<1>7. broke' \cap OfBroker # {} => fault'
  BY <1>1, <1>4 DEF FaultInv, Remembered, Alive, OfBroker, Mistaken
<1>8. broke' \subseteq Failures
  BY <1>4 DEF FaultInv, Failures
<1>9. Remembered' /\ FaultIsNotLoss'
  BY <1>1, <1>5, <1>6, <1>7 DEF FaultInv, Remembered, FaultIsNotLoss, Alive, guest, host
<1>. QED BY <1>8, <1>9 DEF FaultInv

LEMMA StartupSteps ==
    ASSUME FaultInv, Startup PROVE FaultInv'
<1>1. CASE StartMachine \/ Boot
  BY <1>1 DEF StartMachine, Boot, FaultInv, Remembered, FaultIsNotLoss, broker, host, history
<1>2. CASE SetupFails
  BY <1>2 DEF SetupFails, FaultInv, Remembered, FaultIsNotLoss, Failures, None
<1>3. CASE BootFails
  <2>1. /\ outcome = None /\ outcome' = None /\ init' = "printed" /\ fault' = fault
        /\ console' = [boot |-> TRUE, frame |-> NoFrame] /\ broke' = broke \cup {"guest"}
    BY <1>3 DEF BootFails, host, broker
  <2>2. broke' \subseteq Failures
    BY <2>1 DEF FaultInv, Failures
  <2>3. Remembered'
    BY <2>1 DEF FaultInv, Remembered, OfBroker
  <2>4. FaultIsNotLoss'
    BY <2>1 DEF FaultIsNotLoss
  <2>. QED BY <2>2, <2>3, <2>4 DEF FaultInv
<1>. QED BY <1>1, <1>2, <1>3 DEF Startup

LEMMA GuestSteps ==
    ASSUME FaultInv,
           Expire \/ CheckerExits \/ CheckerUnstarted \/ KillChecker \/ Drain \/ Report
    PROVE  FaultInv'
<1>1. CASE Expire \/ CheckerExits \/ KillChecker
  <2>1. UNCHANGED <<outcome, broke, fault, console, init, serving>>
    BY <1>1 DEF Expire, CheckerExits, KillChecker, broker, guest, host, history
  <2>. QED BY <2>1 DEF FaultInv, Remembered, FaultIsNotLoss
<1>4. CASE CheckerUnstarted
  <2>1. /\ UNCHANGED <<outcome, fault, console, init>> /\ outcome = None
        /\ broke' = broke \cup {"unchecked"}
    BY <1>4 DEF CheckerUnstarted, Alive, broker, host
  <2>2. broke' \subseteq Failures
    BY <2>1 DEF FaultInv, Failures, Mistaken
  <2>3. Remembered'
    BY <2>1 DEF FaultInv, Remembered, OfBroker
  <2>4. FaultIsNotLoss'
    BY <2>1 DEF FaultIsNotLoss
  <2>. QED BY <2>2, <2>3, <2>4 DEF FaultInv
<1>2. CASE Drain
  BY <1>2 DEF Drain, Alive, FaultInv, Remembered, FaultIsNotLoss, broker, host, history
<1>3. CASE Report
  <2>1. /\ outcome = None /\ outcome' = None /\ init' = "printed" /\ serving = "done"
        /\ serving' = serving /\ fault' = fault
    BY <1>3 DEF Report, Alive, host, broker
  <2>2. PICK file \in {"good", "gate_failed", "unusable", "unreadable"} :
          \/ /\ console' = [boot |-> GuestReport(file) = NoFrame, frame |-> GuestReport(file)]
             /\ broke' = IF file = "unreadable" THEN broke \cup {"output"} ELSE broke
          \/ /\ console' = [boot |-> TRUE, frame |-> NoFrame] /\ broke' = broke \cup {"guest"}
          \/ /\ console' = [boot |-> TRUE, frame |-> GuestReport(file)]
             /\ broke' = broke \cup {"guest"}
    BY <1>3 DEF Report
  <2>3. fault => GuestReport(file) = NoFrame
    BY DEF GuestReport
  <2>4. "guest" \notin broke
    BY <1>3, <2>1 DEF Report, FaultInv, Remembered
  <2>5. fault \/ "guest" \in broke' => console'.boot
    <3>1. CASE /\ console' = [boot |-> GuestReport(file) = NoFrame, frame |-> GuestReport(file)]
               /\ broke' \in {broke, broke \cup {"output"}}
      <4>1. console'.boot = (GuestReport(file) = NoFrame)
        BY <3>1
      <4>2. "guest" \notin broke'
        BY <2>4, <3>1
      <4>. QED BY <2>3, <4>1, <4>2
    <3>2. CASE /\ console' = [boot |-> TRUE, frame |-> NoFrame]
      BY <3>2
    <3>3. CASE /\ console' = [boot |-> TRUE, frame |-> GuestReport(file)]
      <4>1. console'.boot = TRUE
        BY <3>3
      <4>. QED BY <4>1
    <3>. QED BY <2>2, <3>1, <3>2, <3>3
  <2>6. \E what \in {"guest", "output"} : broke' \in {broke, broke \cup {what}}
    BY <2>2
  <2>7. broke' \subseteq Failures
    BY <2>6 DEF FaultInv, Failures, Mistaken
  <2>8. Remembered'
    BY <2>1, <2>5, <2>6 DEF FaultInv, Remembered, OfBroker
  <2>9. FaultIsNotLoss'
    BY <2>1 DEF FaultIsNotLoss
  <2>. QED BY <2>7, <2>8, <2>9 DEF FaultInv
<1>. QED BY <1>1, <1>2, <1>3, <1>4

LEMMA HostSteps ==
    ASSUME FaultInv, NEW end \in Ends, Finish(end)
    PROVE  FaultInv'
<1>1. /\ outcome = None /\ outcome' \in {Receipt(end).outcome, "error"}
      /\ end = "exit" => init = "printed"
      /\ broke' = IF end = "exit" THEN broke ELSE broke \cup {end}
  BY DEF Finish
<1>2. broke' \subseteq Failures
  BY <1>1 DEF FaultInv, Failures, Ends
<1>3. FaultIsNotLoss'
  <2>. SUFFICES ASSUME "panic" \notin broke', broke' \ Mistaken # {}
                PROVE  outcome' \in {None, "error", "infrastructure_fault"}
    BY DEF FaultIsNotLoss, Mistaken
  <2>1. end \in {"exit", "host"}
    BY <1>1 DEF Ends
  <2>2. CASE end = "host"
    BY <1>1, <2>2 DEF Receipt, Frame
  <2>3. CASE end = "exit"
    <3>1. init = "printed" /\ broke' = broke
      BY <1>1, <2>3
    <3>2. broke \cap OfBroker # {} \/ "guest" \in broke
      BY <1>1, <3>1 DEF FaultInv, Remembered, Failures
    <3>3. console.boot
      BY <1>1, <3>1, <3>2 DEF FaultInv, Remembered
    <3>. QED BY <1>1, <3>3 DEF Receipt, Frame
  <2>. QED BY <2>1, <2>2, <2>3
<1>4. Remembered'
  <2>1. CASE end = "host"
    <3>1. outcome' # None
      BY <1>1, <2>1 DEF Receipt, Frame, None
    <3>. QED BY <3>1 DEF Remembered
  <2>2. CASE end = "panic"
    <3>1. ~console.boot /\ console.frame = NoFrame
      BY <1>1, <2>2 DEF Finish, FaultInv, Remembered
    <3>2. outcome' # None
      BY <1>1, <2>2, <3>1 DEF Receipt, Frame, None
    <3>. QED BY <3>2 DEF Remembered
  <2>3. CASE end = "exit"
    <3>1. UNCHANGED <<broke, fault, console, init, serving>>
      BY <1>1, <2>3 DEF Finish, broker, guest
    <3>. QED BY <1>1, <3>1 DEF FaultInv, Remembered
  <2>. QED BY <2>1, <2>2, <2>3 DEF Ends
<1>. QED BY <1>2, <1>3, <1>4 DEF FaultInv

LEMMA FaultStep == FaultInv /\ [Next]_vars => FaultInv'
<1>. SUFFICES ASSUME FaultInv, [Next]_vars PROVE FaultInv'
  OBVIOUS
<1>1. CASE UNCHANGED vars
  BY <1>1 DEF FaultInv, Remembered, FaultIsNotLoss, vars, broker, guest, host, history
<1>2. CASE Done
  BY <1>2 DEF Done, FaultInv, Remembered, FaultIsNotLoss, vars, broker, guest, host, history
<1>3. CASE \E end \in Ends : Finish(end)
  BY <1>3, HostSteps
<1>4. CASE Expire \/ CheckerExits \/ CheckerUnstarted \/ KillChecker \/ Drain \/ Report
  BY <1>4, GuestSteps
<1>5. CASE \/ AcceptBuild \/ EndBuild \/ EndBaselineBuild \/ AcceptRun \/ EndRun
           \/ AcceptPair \/ EndFirst \/ EndSecond \/ (\E passed \in BOOLEAN : Assess(passed))
           \/ BrokerStops \/ ListenerFails
  BY <1>5, BrokerSteps
<1>6. CASE Startup
  BY <1>6, StartupSteps
<1>. QED BY <1>1, <1>2, <1>3, <1>4, <1>5, <1>6 DEF Next, Startup

(* A failure of the setup, the boot, the broker, the guest, the monitor or the *)
(* host's deadline is never signed as the submission's loss, whenever it       *)
(* happens and whatever else does (GuestInit, parseGuestOutput, runJob).       *)
(* Outside the statement are a panic of the guest kernel and the four failures *)
(* of Mistaken, which the code cannot tell from what the programs do.          *)
THEOREM FaultsAreNotLosses == Spec => []FaultIsNotLoss
<1>1. FaultInv => FaultIsNotLoss
  BY DEF FaultInv
<1>. QED BY <1>1, FaultInit, FaultStep, PTL DEF Spec

----------------------------------------------------------------------------
(* What a signed score of a measured run rests on.                             *)

Execution == [who : Who, stage : {"build", "run"}, sealed : BOOLEAN]
Timing == [base : Nat, cand : Nat, first : BOOLEAN, quality : BOOLEAN]

ShapeInv ==
    /\ trail \in Seq(Execution) /\ pairs \in Seq(Timing)
    /\ partial \in [base : Nat, cand : Nat, ok : BOOLEAN]
    /\ ready \in [Who -> BOOLEAN] /\ sealed \in [Who -> BOOLEAN]
    /\ outputsOK \in BOOLEAN

(* A pair is vouched for exactly when its quality is recorded, and the pair that *)
(* awaits its assessment is not yet.                                             *)
VouchInv ==
    /\ vouched = {n \in 1 .. Len(pairs) : pairs[n].quality}
    /\ pending => Len(pairs) > 0 /\ ~pairs[Len(pairs)].quality

BuildOf(who) == [who |-> who, stage |-> "build", sealed |-> FALSE]
RunOf(who) == [who |-> who, stage |-> "run", sealed |-> TRUE]
FirstOf(i) == IF baselineFirst(i - 1) THEN Baseline ELSE Candidate
SecondOf(i) == IF FirstOf(i) = Baseline THEN Candidate ELSE Baseline

(* The executions of a program that is ready: the two builds, two runs for every *)
(* pair and those of the pair under way.                                         *)
Extra == IF serving = "first" THEN 1 ELSE IF serving = "second" THEN 2 ELSE 0
Schedule ==
    /\ Len(trail) = 2 + 2 * Len(pairs) + Extra
    /\ trail[1] = BuildOf(Candidate) /\ trail[2] = BuildOf(Baseline)
    /\ \A i \in 1 .. Len(pairs) : /\ trail[2 * i + 1] = RunOf(FirstOf(i))
                                  /\ trail[2 * i + 2] = RunOf(SecondOf(i))
    /\ serving \in {"first", "second"} =>
         trail[2 * Len(pairs) + 3] = RunOf(FirstOf(Len(pairs) + 1))
    /\ serving = "second" => trail[2 * Len(pairs) + 4] = RunOf(SecondOf(Len(pairs) + 1))

Prepared ==
    /\ ~built => Len(trail) = 0 /\ serving \in {"idle", "done"}
    /\ serving = "build" => Len(trail) = 1 /\ trail[1] = BuildOf(Candidate)
    /\ serving = "baseline" =>
         Len(trail) = 2 /\ trail[1] = BuildOf(Candidate) /\ trail[2] = BuildOf(Baseline)
    /\ ~built \/ serving \in {"build", "baseline"} => \A w \in Who : ~sealed[w] /\ ~ready[w]
    /\ serving # "run"
    /\ ~ready[Candidate] => pairs = << >> /\ serving \notin {"first", "second"}
    /\ ready[Candidate] => sealed[Candidate] /\ sealed[Baseline] /\ Schedule

(* A measured run that did not break down has executed its schedule so far. *)
TrailInv == measured /\ ~fault => Prepared

Whole == WholeSchedule /\ vouched = 1 .. Pairs

(* A score on the console or in the receipt stands for a whole schedule, and     *)
(* there is no receipt with a score before the guest has printed.                *)
FrameInv ==
    /\ measured /\ (console.frame.score # NoScore \/ score # NoScore) => Whole
    /\ outcome = None /\ init # "printed" => score = NoScore

WholeInv == ShapeInv /\ VouchInv /\ TrailInv /\ FrameInv

LEMMA WholeInit == Init => WholeInv
<1>. SUFFICES ASSUME Init PROVE WholeInv
  OBVIOUS
<1>. USE DEF Init, BrokerInit
<1>1. ShapeInv
  <2>1. trail \in Seq(Execution) /\ pairs \in Seq(Timing)
    BY EmptySeq
  <2>2. /\ partial \in [base : Nat, cand : Nat, ok : BOOLEAN] /\ outputsOK \in BOOLEAN
        /\ ready \in [Who -> BOOLEAN] /\ sealed \in [Who -> BOOLEAN]
    BY DEF NoPair
  <2>. QED BY <2>1, <2>2 DEF ShapeInv
<1>2. VouchInv
  BY DEF VouchInv
<1>3. TrailInv
  BY DEF TrailInv, Prepared, Who, Candidate
<1>4. FrameInv
  BY DEF FrameInv, NoFrame, Frame
<1>. QED BY <1>1, <1>2, <1>3, <1>4 DEF WholeInv

(* The steps of the broker that append to the trail or to the pairs. *)
LEMMA ExecutedShape ==
    ASSUME ShapeInv, NEW who \in Who, NEW stage \in {"build", "run"}, Executed(who, stage)
    PROVE  /\ trail' \in Seq(Execution) /\ Len(trail') = Len(trail) + 1
           /\ trail'[Len(trail) + 1] = [who |-> who, stage |-> stage, sealed |-> sealed[who]]
           /\ \A n \in 1 .. Len(trail) : trail'[n] = trail[n]
<1>1. [who |-> who, stage |-> stage, sealed |-> sealed[who]] \in Execution
  BY DEF ShapeInv, Execution
<1>2. trail \in Seq(Execution)
  BY DEF ShapeInv
<1>. QED BY <1>1, <1>2, AppendProperties DEF Executed

LEMMA SealShape ==
    ASSUME NEW s \in [Who -> BOOLEAN], NEW r \in [Who -> BOOLEAN], SealProgram(s, r)
    PROVE  /\ sealed' \in [Who -> BOOLEAN] /\ ready' \in [Who -> BOOLEAN]
           /\ \/ /\ serving' = "idle" /\ fault' = fault
                 /\ sealed' = [s EXCEPT ![Candidate] = TRUE]
                 /\ ready' = r \/ ready' = [r EXCEPT ![Candidate] = TRUE]
              \/ fault' = TRUE
<1>1. \/ /\ serving' = "idle" /\ fault' = fault
         /\ sealed' = [s EXCEPT ![Candidate] = TRUE]
         /\ ready' = r \/ ready' = [r EXCEPT ![Candidate] = TRUE]
      \/ fault' = TRUE /\ sealed' = s /\ ready' = r
  BY Zenon DEF SealProgram, BreakDown
<1>2. sealed' \in [Who -> BOOLEAN] /\ ready' \in [Who -> BOOLEAN]
  BY <1>1
<1>. QED BY <1>1, <1>2

LEMMA TimedShape ==
    ASSUME ShapeInv, NEW who \in Who, NEW o, NEW t \in Times(who)
    PROVE  Timed(who, o, t) \in [base : Nat, cand : Nat, ok : BOOLEAN]
<1>1. t \in Nat
  BY ProgramAssumption DEF Times
<1>2. partial.base \in Nat /\ partial.cand \in Nat /\ partial.ok \in BOOLEAN
  BY DEF ShapeInv
<1>3. (partial.ok /\ o = "valid") \in BOOLEAN
  OBVIOUS
<1>. QED BY <1>1, <1>2, <1>3 DEF Timed

LEMMA WhoRuns == First \in Who /\ Second \in Who
BY DEF First, Second, Who

(* What the broker keeps. *)
Kept == ShapeInv /\ VouchInv /\ TrailInv

LEMMA AcceptBuildKept ==
    ASSUME Kept, AcceptBuild PROVE Kept'
<1>. USE DEF Kept
<1>1. /\ serving = "idle" /\ ~built /\ built' = TRUE /\ serving' = "build"
      /\ Executed(Candidate, "build") /\ measured' = measured /\ fault' = fault
      /\ UNCHANGED <<ready, sealed, pairs, pending, outputsOK, partial, vouched>>
  BY DEF AcceptBuild
<1>2. /\ trail' \in Seq(Execution) /\ Len(trail') = Len(trail) + 1
      /\ trail'[Len(trail) + 1] = [who |-> Candidate, stage |-> "build", sealed |-> sealed[Candidate]]
  BY <1>1, ExecutedShape DEF Who
<1>3. ShapeInv' /\ VouchInv'
  BY <1>1, <1>2 DEF ShapeInv, VouchInv
<1>4. ASSUME measured', ~fault' PROVE Prepared'
  <2>1. Prepared
    BY <1>1, <1>4 DEF TrailInv
  <2>2. Len(trail) = 0 /\ \A w \in Who : ~sealed[w] /\ ~ready[w]
    BY <1>1, <2>1 DEF Prepared
  <2>3. sealed[Candidate] = FALSE /\ ~ready[Candidate] /\ pairs = << >>
    BY <2>1, <2>2 DEF ShapeInv, Who, Prepared
  <2>4. Len(trail') = 1 /\ trail'[1] = BuildOf(Candidate)
    BY <1>2, <2>2, <2>3 DEF BuildOf
  <2>. QED BY <1>1, <2>2, <2>3, <2>4 DEF Prepared
<1>. QED BY <1>3, <1>4 DEF TrailInv

LEMMA EndBuildKept ==
    ASSUME Kept, EndBuild PROVE Kept'
<1>. USE DEF Kept
<1>1. /\ serving = "build" /\ measured' = measured
      /\ UNCHANGED <<built, pairs, pending, outputsOK, partial, vouched>>
  BY Zenon DEF EndBuild
<1>2. \/ /\ measured /\ serving' = "baseline" /\ Executed(Baseline, "build")
         /\ UNCHANGED <<ready, sealed, fault>>
      \/ ~measured /\ SealProgram(sealed, ready) /\ UNCHANGED trail
      \/ serving' = "idle" /\ UNCHANGED <<ready, sealed, fault, trail>>
      \/ fault' = TRUE /\ UNCHANGED <<ready, sealed, trail>>
  BY DEF EndBuild, BreakDown
<1>3. ready' \in [Who -> BOOLEAN] /\ sealed' \in [Who -> BOOLEAN] /\ trail' \in Seq(Execution)
  <2>1. CASE Executed(Baseline, "build") /\ UNCHANGED <<ready, sealed>>
    BY <2>1, ExecutedShape DEF Who, ShapeInv
  <2>2. CASE SealProgram(sealed, ready) /\ UNCHANGED trail
    BY <2>2, SealShape DEF ShapeInv
  <2>3. CASE UNCHANGED <<ready, sealed, trail>>
    BY <2>3 DEF ShapeInv
  <2>. QED BY <1>2, <2>1, <2>2, <2>3
<1>4. ShapeInv' /\ VouchInv'
  BY <1>1, <1>3 DEF ShapeInv, VouchInv
<1>5. ASSUME measured', ~fault' PROVE Prepared'
  <2>1. UNCHANGED <<ready, sealed, fault>> /\ Prepared
    BY <1>1, <1>2, <1>5 DEF TrailInv
  <2>2. /\ Len(trail) = 1 /\ trail[1] = BuildOf(Candidate) /\ built
        /\ (\A w \in Who : ~sealed[w] /\ ~ready[w])
    BY <1>1, <2>1 DEF Prepared
  <2>3. sealed[Baseline] = FALSE /\ ~ready[Candidate] /\ pairs = << >>
    BY <2>1, <2>2 DEF ShapeInv, Who, Prepared
  <2>4. CASE serving' = "baseline" /\ Executed(Baseline, "build")
    <3>1. /\ Len(trail') = 2 /\ trail'[1] = trail[1]
          /\ trail'[2] = [who |-> Baseline, stage |-> "build", sealed |-> FALSE]
      BY <2>2, <2>3, <2>4, ExecutedShape DEF Who
    <3>. QED BY <1>1, <2>1, <2>2, <2>3, <2>4, <3>1 DEF Prepared, BuildOf
  <2>5. CASE serving' = "idle" /\ UNCHANGED trail
    BY <1>1, <2>1, <2>2, <2>3, <2>5 DEF Prepared
  <2>. QED BY <1>1, <1>2, <1>5, <2>4, <2>5
<1>. QED BY <1>4, <1>5 DEF TrailInv

LEMMA EndBaselineKept ==
    ASSUME Kept, EndBaselineBuild PROVE Kept'
<1>. USE DEF Kept
<1>. DEFINE s == [sealed EXCEPT ![Baseline] = TRUE]
            r == [ready EXCEPT ![Baseline] = TRUE]
<1>1. /\ serving = "baseline" /\ measured' = measured
      /\ UNCHANGED <<built, pairs, pending, outputsOK, partial, trail, vouched>>
  BY Zenon DEF EndBaselineBuild
<1>2. SealProgram(s, r) \/ (fault' = TRUE /\ UNCHANGED <<sealed, ready>>)
  BY Zenon DEF EndBaselineBuild, BreakDown
<1>3. s \in [Who -> BOOLEAN] /\ r \in [Who -> BOOLEAN]
  BY DEF ShapeInv
<1>4. \/ /\ serving' = "idle" /\ fault' = fault
         /\ sealed' = [s EXCEPT ![Candidate] = TRUE]
         /\ ready' = r \/ ready' = [r EXCEPT ![Candidate] = TRUE]
      \/ fault' = TRUE
  <2>. HIDE DEF s, r
  <2>. QED BY <1>2, <1>3, SealShape
<1>5. ready' \in [Who -> BOOLEAN] /\ sealed' \in [Who -> BOOLEAN]
  <2>. HIDE DEF s, r
  <2>. QED BY <1>2, <1>3, SealShape DEF ShapeInv
<1>6. ShapeInv' /\ VouchInv'
  BY <1>1, <1>5 DEF ShapeInv, VouchInv
<1>7. ASSUME measured', ~fault' PROVE Prepared'
  <2>1. /\ serving' = "idle" /\ fault' = fault
        /\ sealed' = [s EXCEPT ![Candidate] = TRUE]
    BY <1>4, <1>7
  <2>2. Prepared
    BY <1>1, <1>7, <2>1 DEF TrailInv
  <2>3. /\ Len(trail) = 2 /\ trail[1] = BuildOf(Candidate) /\ trail[2] = BuildOf(Baseline)
        /\ built /\ \A w \in Who : ~sealed[w] /\ ~ready[w]
    BY <1>1, <2>2 DEF Prepared
  <2>4. pairs = << >>
    BY <2>2, <2>3 DEF Prepared, Who
  <2>5. sealed'[Candidate] /\ sealed'[Baseline]
    BY <1>3, <2>1 DEF Who, ShapeInv
  <2>6. Schedule'
    BY <1>1, <2>1, <2>3, <2>4 DEF Schedule, Extra
  <2>. QED BY <1>1, <2>1, <2>3, <2>4, <2>5, <2>6 DEF Prepared
<1>. QED BY <1>6, <1>7 DEF TrailInv

(* The steps that execute nothing of a measured run and record no pair. *)
LEMMA OtherKept ==
    ASSUME Kept, AcceptRun \/ EndRun \/ BrokerStops \/ ListenerFails PROVE Kept'
<1>. USE DEF Kept
<1>1. /\ UNCHANGED <<measured, built, ready, sealed, pairs, pending, outputsOK, partial, vouched>>
      /\ \/ ~measured /\ Executed(Candidate, "run")
         \/ UNCHANGED trail /\ serving = "idle" /\ serving' = "done" /\ fault' = fault
         \/ UNCHANGED trail /\ serving = "run" /\ fault' = fault
         \/ UNCHANGED trail /\ fault' = TRUE
  BY DEF AcceptRun, EndRun, BrokerStops, ListenerFails, BreakDown, program, history
<1>2. trail' \in Seq(Execution)
  BY <1>1, ExecutedShape DEF Who, ShapeInv
<1>3. ShapeInv' /\ VouchInv'
  BY <1>1, <1>2 DEF ShapeInv, VouchInv
<1>4. ASSUME measured', ~fault' PROVE Prepared'
  <2>1. serving = "run" => fault
    BY <1>1, <1>4 DEF TrailInv, Prepared
  <2>2. UNCHANGED <<trail, fault>> /\ serving = "idle" /\ serving' = "done" /\ Prepared
    BY <1>1, <1>4, <2>1 DEF TrailInv
  <2>3. Schedule => Schedule'
    BY <1>1, <2>2 DEF Schedule, Extra
  <2>. QED BY <1>1, <2>2, <2>3 DEF Prepared
<1>. QED BY <1>3, <1>4 DEF TrailInv

LEMMA FirstIsFirst ==
    ASSUME ShapeInv
    PROVE  /\ Len(pairs) \in Nat
           /\ First = FirstOf(Len(pairs) + 1) /\ Second = SecondOf(Len(pairs) + 1)
<1>1. Len(pairs) \in Nat
  BY DEF ShapeInv
<1>2. (Len(pairs) + 1) - 1 = Len(pairs)
  BY <1>1
<1>. QED BY <1>1, <1>2 DEF First, Second, FirstOf, SecondOf

LEMMA AcceptPairKept ==
    ASSUME Kept, AcceptPair PROVE Kept'
<1>. USE DEF Kept
<1>1. /\ serving = "idle" /\ serving' = "first" /\ ready[Candidate] /\ partial' = NoPair
      /\ Executed(First, "run")
      /\ UNCHANGED <<measured, built, ready, sealed, pairs, pending, outputsOK, fault, vouched>>
  BY DEF AcceptPair, PairAllowed
<1>2. /\ trail' \in Seq(Execution) /\ Len(trail') = Len(trail) + 1
      /\ trail'[Len(trail) + 1] = [who |-> First, stage |-> "run", sealed |-> sealed[First]]
      /\ \A n \in 1 .. Len(trail) : trail'[n] = trail[n]
  BY <1>1, WhoRuns, ExecutedShape
<1>3. ShapeInv' /\ VouchInv'
  BY <1>1, <1>2 DEF ShapeInv, VouchInv, NoPair
<1>4. ASSUME measured', ~fault' PROVE Prepared'
  <2>1. Prepared /\ sealed[Candidate] /\ sealed[Baseline] /\ Schedule /\ built
    BY <1>1, <1>4 DEF TrailInv, Prepared, Who
  <2>2. sealed[First] = TRUE
    BY <2>1 DEF First, ShapeInv, Who
  <2>3. Len(pairs) \in Nat /\ First = FirstOf(Len(pairs) + 1) /\ Len(trail) = 2 + 2 * Len(pairs)
    BY <1>1, <2>1, FirstIsFirst DEF Schedule, Extra
  <2>4. /\ Len(trail') = 2 + 2 * Len(pairs') + 1
        /\ trail'[2 * Len(pairs') + 3] = RunOf(FirstOf(Len(pairs') + 1))
    <3>1. Len(trail) + 1 = 2 * Len(pairs) + 3
      BY <2>3
    <3>. QED BY <1>1, <1>2, <2>2, <2>3, <3>1 DEF RunOf
  <2>5. \A n \in 1 .. 2 + 2 * Len(pairs) : trail'[n] = trail[n]
    BY <1>2, <2>3
  <2>6. /\ trail'[1] = trail[1] /\ trail'[2] = trail[2]
        /\ \A i \in 1 .. Len(pairs) : /\ trail'[2 * i + 1] = trail[2 * i + 1]
                                      /\ trail'[2 * i + 2] = trail[2 * i + 2]
    BY <2>3, <2>5
  <2>7. Schedule'
    BY <1>1, <2>1, <2>4, <2>6 DEF Schedule, Extra
  <2>. QED BY <1>1, <2>1, <2>7 DEF Prepared
<1>. QED BY <1>3, <1>4 DEF TrailInv

LEMMA EndFirstKept ==
    ASSUME Kept, EndFirst PROVE Kept'
<1>. USE DEF Kept
<1>1. /\ serving = "first"
      /\ UNCHANGED <<measured, built, ready, sealed, pairs, pending, outputsOK, vouched>>
      /\ \/ /\ \E o \in Outcomes, t \in Times(First) : partial' = Timed(First, o, t)
            /\ serving' = "second" /\ Executed(Second, "run") /\ fault' = fault
         \/ fault' = TRUE /\ UNCHANGED <<partial, trail>>
  BY DEF EndFirst, BreakDown
<1>2. CASE fault' = TRUE /\ UNCHANGED <<partial, trail>>
  BY <1>1, <1>2 DEF ShapeInv, VouchInv, TrailInv
<1>3. CASE /\ \E o \in Outcomes, t \in Times(First) : partial' = Timed(First, o, t)
           /\ serving' = "second" /\ Executed(Second, "run") /\ fault' = fault
  <2>1. /\ trail' \in Seq(Execution) /\ Len(trail') = Len(trail) + 1
        /\ trail'[Len(trail) + 1] = [who |-> Second, stage |-> "run", sealed |-> sealed[Second]]
        /\ \A n \in 1 .. Len(trail) : trail'[n] = trail[n]
    BY <1>3, WhoRuns, ExecutedShape
  <2>2. partial' \in [base : Nat, cand : Nat, ok : BOOLEAN]
    BY <1>3, WhoRuns, TimedShape
  <2>3. ShapeInv' /\ VouchInv'
    BY <1>1, <2>1, <2>2 DEF ShapeInv, VouchInv
  <2>4. ASSUME measured', ~fault' PROVE Prepared'
    <3>1. Prepared /\ sealed[Candidate] /\ sealed[Baseline] /\ Schedule /\ built /\ ready[Candidate]
      BY <1>1, <1>3, <2>4 DEF TrailInv, Prepared, Who
    <3>2. sealed[Second] = TRUE
      BY <3>1 DEF Second, ShapeInv, Who
    <3>3. /\ Len(pairs) \in Nat /\ Second = SecondOf(Len(pairs) + 1)
          /\ Len(trail) = 3 + 2 * Len(pairs)
          /\ trail[2 * Len(pairs) + 3] = RunOf(FirstOf(Len(pairs) + 1))
      BY <1>1, <3>1, FirstIsFirst DEF Schedule, Extra
    <3>4. /\ Len(trail') = 2 + 2 * Len(pairs') + 2
          /\ trail'[2 * Len(pairs') + 4] = RunOf(SecondOf(Len(pairs') + 1))
      <4>1. Len(trail) + 1 = 2 * Len(pairs) + 4
        BY <3>3
      <4>2. pairs' = pairs
        BY <1>1
      <4>3. [who |-> Second, stage |-> "run", sealed |-> sealed[Second]]
              = RunOf(SecondOf(Len(pairs) + 1))
        BY <3>2, <3>3 DEF RunOf
      <4>. QED BY <2>1, <3>3, <4>1, <4>2, <4>3
    <3>5. \A n \in 1 .. 3 + 2 * Len(pairs) : trail'[n] = trail[n]
      BY <2>1, <3>3
    <3>6. /\ trail'[1] = trail[1] /\ trail'[2] = trail[2]
          /\ trail'[2 * Len(pairs) + 3] = trail[2 * Len(pairs) + 3]
          /\ \A i \in 1 .. Len(pairs) : /\ trail'[2 * i + 1] = trail[2 * i + 1]
                                        /\ trail'[2 * i + 2] = trail[2 * i + 2]
      BY <3>3, <3>5
    <3>7. Schedule'
      BY <1>1, <1>3, <3>1, <3>3, <3>4, <3>6 DEF Schedule, Extra
    <3>. QED BY <1>1, <1>3, <3>1, <3>7 DEF Prepared
  <2>. QED BY <2>3, <2>4 DEF TrailInv
<1>. QED BY <1>1, <1>2, <1>3

LEMMA EndSecondKept ==
    ASSUME Kept, EndSecond PROVE Kept'
<1>. USE DEF Kept
<1>1. /\ serving = "second"
      /\ UNCHANGED <<measured, built, ready, sealed, trail, vouched>>
      /\ \/ /\ \E o \in Outcomes, t \in Times(Second) :
                 /\ pairs' = Append(pairs, [base |-> Timed(Second, o, t).base,
                                            cand |-> Timed(Second, o, t).cand,
                                            first |-> First = Baseline, quality |-> FALSE])
                 /\ outputsOK' = Timed(Second, o, t).ok
            /\ pending' = TRUE /\ serving' = "idle" /\ partial' = NoPair /\ fault' = fault
         \/ fault' = TRUE /\ UNCHANGED <<pairs, pending, outputsOK, partial>>
  BY DEF EndSecond, BreakDown
<1>2. CASE fault' = TRUE /\ UNCHANGED <<pairs, pending, outputsOK, partial>>
  BY <1>1, <1>2 DEF ShapeInv, VouchInv, TrailInv
<1>3. ASSUME NEW o \in Outcomes, NEW t \in Times(Second),
             pairs' = Append(pairs, [base |-> Timed(Second, o, t).base,
                                     cand |-> Timed(Second, o, t).cand,
                                     first |-> First = Baseline, quality |-> FALSE]),
             outputsOK' = Timed(Second, o, t).ok,
             pending' = TRUE, serving' = "idle", partial' = NoPair, fault' = fault
      PROVE  Kept'
  <2>1. Timed(Second, o, t) \in [base : Nat, cand : Nat, ok : BOOLEAN]
    BY WhoRuns, TimedShape
  <2>2. PICK e \in Timing : e.quality = FALSE /\ pairs' = Append(pairs, e)
    <3>1. [base |-> Timed(Second, o, t).base, cand |-> Timed(Second, o, t).cand,
           first |-> First = Baseline, quality |-> FALSE] \in Timing
      BY <2>1 DEF Timing
    <3>. QED BY <1>3, <3>1
  <2>3. pairs \in Seq(Timing) /\ Len(pairs) \in Nat
    BY DEF ShapeInv
  <2>4. /\ pairs' \in Seq(Timing) /\ Len(pairs') = Len(pairs) + 1
        /\ pairs'[Len(pairs) + 1] = e /\ \A n \in 1 .. Len(pairs) : pairs'[n] = pairs[n]
    BY <2>2, <2>3, AppendProperties
  <2>5. ShapeInv'
    BY <1>1, <1>3, <2>1, <2>4 DEF ShapeInv, NoPair
  <2>6. VouchInv'
    <3>1. \A n : n \in 1 .. Len(pairs') /\ pairs'[n].quality <=> n \in 1 .. Len(pairs) /\ pairs[n].quality
      BY <2>2, <2>3, <2>4
    <3>2. vouched' = {n \in 1 .. Len(pairs') : pairs'[n].quality}
      BY <1>1, <3>1 DEF VouchInv
    <3>3. Len(pairs') > 0 /\ ~pairs'[Len(pairs')].quality
      BY <2>2, <2>3, <2>4
    <3>. QED BY <3>2, <3>3 DEF VouchInv
  <2>7. ASSUME measured', ~fault' PROVE Prepared'
    <3>1. Prepared /\ sealed[Candidate] /\ sealed[Baseline] /\ Schedule /\ built /\ ready[Candidate]
      BY <1>1, <1>3, <2>7 DEF TrailInv, Prepared, Who
    <3>2. /\ Len(trail) = 4 + 2 * Len(pairs)
          /\ trail[2 * Len(pairs) + 3] = RunOf(FirstOf(Len(pairs) + 1))
          /\ trail[2 * Len(pairs) + 4] = RunOf(SecondOf(Len(pairs) + 1))
      BY <1>1, <2>3, <3>1 DEF Schedule, Extra
    <3>3. Len(trail') = 2 + 2 * Len(pairs')
      BY <1>1, <2>3, <2>4, <3>2
    <3>4. ASSUME NEW i \in 1 .. Len(pairs')
          PROVE  trail[2 * i + 1] = RunOf(FirstOf(i)) /\ trail[2 * i + 2] = RunOf(SecondOf(i))
      <4>1. CASE i \in 1 .. Len(pairs)
        BY <3>1, <4>1 DEF Schedule
      <4>2. CASE i = Len(pairs) + 1
        <5>1. 2 * i + 1 = 2 * Len(pairs) + 3 /\ 2 * i + 2 = 2 * Len(pairs) + 4
          BY <2>3, <4>2
        <5>. QED BY <3>2, <4>2, <5>1
      <4>. QED BY <2>3, <2>4, <4>1, <4>2
    <3>5. Schedule'
      BY <1>1, <1>3, <3>1, <3>3, <3>4 DEF Schedule, Extra
    <3>. QED BY <1>1, <1>3, <3>1, <3>5 DEF Prepared
  <2>. QED BY <2>5, <2>6, <2>7 DEF TrailInv
<1>. QED BY <1>1, <1>2, <1>3

LEMMA AssessKept ==
    ASSUME Kept, NEW passed \in BOOLEAN, Assess(passed) PROVE Kept'
<1>. USE DEF Kept
<1>. DEFINE L == Len(pairs)
<1>1. /\ serving = "idle" /\ pending /\ pending' = FALSE
      /\ pairs' = [pairs EXCEPT ![L].quality = (passed /\ outputsOK)]
      /\ vouched' = IF passed /\ outputsOK THEN vouched \cup {L} ELSE vouched
      /\ UNCHANGED <<measured, built, ready, sealed, outputsOK, partial, serving, fault, trail>>
  BY DEF Assess, Quality
<1>2. pairs \in Seq(Timing) /\ L \in Nat /\ L > 0 /\ ~pairs[L].quality
  BY <1>1 DEF ShapeInv, VouchInv
<1>3. PICK b \in BOOLEAN : b = (passed /\ outputsOK)
  OBVIOUS
<1>4. [pairs[L] EXCEPT !.quality = b] \in Timing
  <2>1. pairs[L] \in Timing
    BY <1>2
  <2>. QED BY <2>1 DEF Timing
<1>5. pairs' = [pairs EXCEPT ![L] = [pairs[L] EXCEPT !.quality = b]]
  BY <1>1, <1>3
<1>6. pairs' \in Seq(Timing) /\ Len(pairs') = L
  BY <1>2, <1>4, <1>5, ExceptSeq
<1>7. /\ \A n \in 1 .. L : n # L => pairs'[n] = pairs[n]
      /\ pairs'[L].quality = b
  <2>1. pairs[L] \in Timing
    BY <1>2
  <2>. QED BY <1>2, <1>5, <2>1 DEF Timing
<1>8. ShapeInv'
  BY <1>1, <1>6 DEF ShapeInv
<1>9. VouchInv'
  <2>1. vouched = {n \in 1 .. L : pairs[n].quality}
    BY DEF VouchInv
  <2>2. CASE b = TRUE
    <3>1. \A n : n \in 1 .. L /\ pairs'[n].quality <=> (n \in 1 .. L /\ pairs[n].quality) \/ n = L
      <4>1. L \in 1 .. L /\ pairs'[L].quality
        BY <1>2, <1>7, <2>2
      <4>2. \A n \in 1 .. L : n # L => (pairs'[n].quality <=> pairs[n].quality)
        BY <1>7
      <4>. HIDE DEF L
      <4>. QED BY <4>1, <4>2
    <3>2. vouched' = vouched \cup {L}
      BY <1>1, <1>3, <2>2
    <3>. QED BY <1>1, <1>6, <2>1, <3>1, <3>2 DEF VouchInv
  <2>3. CASE b = FALSE
    <3>1. \A n \in 1 .. L : pairs'[n].quality <=> pairs[n].quality
      BY <1>2, <1>7, <2>3
    <3>2. vouched' = vouched
      BY <1>1, <1>3, <2>3
    <3>. QED BY <1>1, <1>6, <2>1, <3>1, <3>2 DEF VouchInv
  <2>. QED BY <2>2, <2>3
<1>10. ASSUME measured', ~fault' PROVE Prepared'
  <2>1. Prepared /\ pairs # << >>
    BY <1>1, <1>2, <1>10 DEF TrailInv
  <2>2. Schedule /\ ready[Candidate]
    BY <2>1 DEF Prepared
  <2>3. Schedule'
    BY <1>1, <1>6, <2>2 DEF Schedule, Extra
  <2>. QED BY <1>1, <2>1, <2>2, <2>3 DEF Prepared
<1>. QED BY <1>8, <1>9, <1>10 DEF TrailInv

LEMMA PairCount == Warmups \in Nat /\ Repetitions \in Nat /\ Pairs = Warmups + Repetitions
<1>1. Warmups \in Nat \ {0} /\ Repetitions \in Nat \ {0}
  BY PolicyAssumption, Zenon DEF ValidateMeasurementPolicy
<1>. QED BY <1>1 DEF Pairs

(* Alternation as the broker computes it and as the schedule states it. *)
LEMMA OrderOfPair ==
    ASSUME NEW i \in Nat \ {0}
    PROVE  baselineFirst(i - 1) <=> (IF i <= Warmups THEN i ELSE i - Warmups) % 2 = 1
<1>1. Warmups \in Nat
  BY PairCount
<1>2. ASSUME NEW p \in Int PROVE (p - 1) % 2 = 0 <=> p % 2 = 1
  OBVIOUS
<1>3. CASE i <= Warmups
  <2>1. baselineFirst(i - 1) <=> (i - 1) % 2 = 0
    BY <1>1, <1>3 DEF baselineFirst
  <2>. QED BY <1>2, <1>3, <2>1
<1>4. CASE ~(i <= Warmups)
  <2>1. ~(i - 1 < Warmups) /\ (i - 1) - Warmups = (i - Warmups) - 1 /\ i - Warmups \in Int
    BY <1>1, <1>4
  <2>2. baselineFirst(i - 1) <=> ((i - Warmups) - 1) % 2 = 0
    BY <2>1 DEF baselineFirst
  <2>. QED BY <1>2, <1>4, <2>1, <2>2
<1>. QED BY <1>3, <1>4

(* timingEvidence succeeds only when every pair was vouched for. *)
LEMMA EvidenceVouched ==
    ASSUME ShapeInv, VouchInv, EvidenceComplete
    PROVE  Pairs \in Nat /\ Len(pairs) = Pairs /\ vouched = 1 .. Pairs
<1>1. Warmups \in Nat /\ Repetitions \in Nat /\ Pairs = Warmups + Repetitions /\ Pairs \in Nat
  BY PairCount
<1>2. pairs \in Seq(Timing) /\ Len(pairs) = Pairs
  BY DEF ShapeInv, EvidenceComplete
<1>. HIDE DEF Pairs
<1>. DEFINE a == SubSeq(pairs, 1, Warmups)
            b == SubSeq(pairs, Warmups + 1, Pairs)
<1>3. /\ DOMAIN a = 1 .. Len(a) /\ Len(a) = Warmups /\ \A i \in DOMAIN a : a[i].quality
      /\ DOMAIN b = 1 .. Len(b) /\ Len(b) = Repetitions /\ \A i \in DOMAIN b : b[i].quality
  <2>1. /\ Len(a) = Warmups /\ \A i \in DOMAIN a : a[i].quality
        /\ Len(b) = Repetitions /\ \A i \in DOMAIN b : b[i].quality
    BY DEF EvidenceComplete, WarmupsValid, Summarizable, AllPassed
  <2>2. \A i \in 1 .. Pairs : pairs[i] \in Timing
    BY <1>2
  <2>3. a \in Seq(Timing) /\ b \in Seq(Timing)
    BY <1>1, <2>2, SubSeqProperties
  <2>. QED BY <2>1, <2>3
<1>4. /\ \A i \in 1 .. Warmups : a[i] = pairs[i]
      /\ \A i \in 1 .. Repetitions : b[i] = pairs[Warmups + i]
  <2>1. \A i \in 1 .. Pairs : pairs[i] \in Timing
    BY <1>2
  <2>2. \A i \in 1 .. (Warmups - 1) + 1 : a[i] = pairs[(1 + i) - 1]
    BY <1>1, <2>1, SubSeqProperties
  <2>3. \A i \in 1 .. (Pairs - (Warmups + 1)) + 1 : b[i] = pairs[((Warmups + 1) + i) - 1]
    BY <1>1, <2>1, SubSeqProperties
  <2>. HIDE DEF a, b
  <2>4. ASSUME NEW i \in 1 .. Warmups PROVE a[i] = pairs[i]
    <3>1. i \in 1 .. (Warmups - 1) + 1 /\ (1 + i) - 1 = i
      BY <1>1
    <3>. QED BY <2>2, <3>1
  <2>5. ASSUME NEW i \in 1 .. Repetitions PROVE b[i] = pairs[Warmups + i]
    <3>1. i \in 1 .. (Pairs - (Warmups + 1)) + 1 /\ ((Warmups + 1) + i) - 1 = Warmups + i
      BY <1>1
    <3>. QED BY <2>3, <3>1
  <2>. QED BY <2>4, <2>5
<1>. HIDE DEF a, b
<1>5. \A n \in 1 .. Pairs : pairs[n].quality
  <2>. SUFFICES ASSUME NEW n \in 1 .. Pairs PROVE pairs[n].quality
    OBVIOUS
  <2>1. CASE n \in 1 .. Warmups
    BY <1>3, <1>4, <2>1
  <2>2. CASE n \notin 1 .. Warmups
    <3>1. PICK i \in 1 .. Repetitions : n = Warmups + i
      <4>1. n - Warmups \in 1 .. Repetitions /\ n = Warmups + (n - Warmups)
        BY <1>1, <2>2
      <4>. QED BY <4>1
    <3>. QED BY <1>3, <1>4, <3>1
  <2>. QED BY <2>1, <2>2
<1>6. vouched = 1 .. Pairs
  BY <1>2, <1>5 DEF VouchInv
<1>. QED BY <1>1, <1>2, <1>6

LEMMA EvidenceWhole ==
    ASSUME Kept, measured, ~fault, serving = "done", ready[Candidate], EvidenceComplete
    PROVE  Whole
<1>1. Pairs \in Nat /\ Len(pairs) = Pairs /\ vouched = 1 .. Pairs
  BY EvidenceVouched DEF Kept
<1>2. Schedule /\ Extra = 0
  BY DEF Kept, TrailInv, Prepared, Extra
<1>3. Len(trail) = 2 + 2 * Pairs
  BY <1>1, <1>2 DEF Schedule
<1>4. ASSUME NEW i \in 1 .. Pairs, NEW j \in 1 .. 2
      PROVE  trail[2 * i + j] =
               [who |-> (IF (IF i <= Warmups THEN i ELSE i - Warmups) % 2 = 1
                         THEN <<Baseline, Candidate>> ELSE <<Candidate, Baseline>>)[j],
                stage |-> "run", sealed |-> TRUE]
  <2>1. trail[2 * i + 1] = RunOf(FirstOf(i)) /\ trail[2 * i + 2] = RunOf(SecondOf(i))
    BY <1>1, <1>2 DEF Schedule
  <2>2. baselineFirst(i - 1) <=> (IF i <= Warmups THEN i ELSE i - Warmups) % 2 = 1
    BY <1>1, OrderOfPair
  <2>3. j = 1 \/ j = 2
    OBVIOUS
  <2>4. CASE baselineFirst(i - 1)
    <3>1. FirstOf(i) = Baseline /\ SecondOf(i) = Candidate
      BY <2>4 DEF FirstOf, SecondOf
    <3>2. (IF (IF i <= Warmups THEN i ELSE i - Warmups) % 2 = 1
           THEN <<Baseline, Candidate>> ELSE <<Candidate, Baseline>>) = <<Baseline, Candidate>>
      BY <2>2, <2>4
    <3>3. CASE j = 1
      BY <2>1, <3>1, <3>2, <3>3 DEF RunOf
    <3>4. CASE j = 2
      BY <2>1, <3>1, <3>2, <3>4 DEF RunOf
    <3>. QED BY <2>3, <3>3, <3>4
  <2>5. CASE ~baselineFirst(i - 1)
    <3>1. FirstOf(i) = Candidate /\ SecondOf(i) = Baseline
      BY <2>5 DEF FirstOf, SecondOf, Candidate, Baseline
    <3>2. (IF (IF i <= Warmups THEN i ELSE i - Warmups) % 2 = 1
           THEN <<Baseline, Candidate>> ELSE <<Candidate, Baseline>>) = <<Candidate, Baseline>>
      BY <2>2, <2>5
    <3>3. CASE j = 1
      BY <2>1, <3>1, <3>2, <3>3 DEF RunOf
    <3>4. CASE j = 2
      BY <2>1, <3>1, <3>2, <3>4 DEF RunOf
    <3>. QED BY <2>3, <3>3, <3>4
  <2>. QED BY <2>4, <2>5
<1>5. WholeSchedule
  BY <1>2, <1>3, <1>4 DEF WholeSchedule, Schedule, BuildOf
<1>. QED BY <1>1, <1>5 DEF Whole

LEMMA ReportWhole ==
    ASSUME FaultInv, WholeInv, Report PROVE WholeInv'
<1>1. /\ serving = "done" /\ init' = "printed"
      /\ UNCHANGED <<measured, broker, outcome, score, trail, vouched>>
  BY DEF Report, host
<1>2. PICK file : console'.frame \in {NoFrame, GuestReport(file)}
  BY DEF Report
<1>3. ASSUME measured, GuestReport(file).score # NoScore PROVE Whole
  <2>1. ~fault /\ ResultFrame(file).score # NoScore
    BY <1>3 DEF GuestReport, NoFrame, Frame
  <2>2. ready[Candidate] /\ EvidenceComplete
    BY <1>3, <2>1 DEF ResultFrame, Frame
  <2>. QED BY <1>1, <1>3, <2>1, <2>2, EvidenceWhole DEF WholeInv, Kept
<1>4. NoFrame.score = NoScore
  BY DEF NoFrame, Frame
<1>5. UNCHANGED <<built, ready, sealed, pairs, pending, outputsOK, partial, serving, fault>>
  BY <1>1 DEF broker, program
<1>6. ShapeInv' /\ VouchInv' /\ TrailInv'
  BY <1>1, <1>5 DEF WholeInv, ShapeInv, VouchInv, TrailInv, Prepared, Schedule, Extra
<1>7. Whole => Whole'
  BY <1>1 DEF Whole, WholeSchedule
<1>8. FrameInv'
  BY <1>1, <1>2, <1>3, <1>4, <1>7 DEF FrameInv, WholeInv
<1>. QED BY <1>6, <1>8 DEF WholeInv

LEMMA FinishWhole ==
    ASSUME FaultInv, WholeInv, NEW end \in Ends, Finish(end) PROVE WholeInv'
<1>1. /\ outcome = None /\ UNCHANGED <<measured, broker, guest, trail, vouched>>
      /\ end = "exit" => init = "printed"
      /\ \/ outcome' = Receipt(end).outcome /\ score' = Receipt(end).score
         \/ outcome' = "error" /\ score' = NoScore
  BY DEF Finish
<1>2. UNCHANGED <<built, ready, sealed, pairs, pending, outputsOK, partial, serving, fault,
                  init, console>>
  BY <1>1 DEF broker, program, guest
<1>3. ShapeInv' /\ VouchInv' /\ TrailInv'
  BY <1>1, <1>2 DEF WholeInv, ShapeInv, VouchInv, TrailInv, Prepared, Schedule, Extra
<1>4. Receipt(end).score \in {NoScore, console.frame.score}
  BY DEF Receipt, Frame
<1>5. Whole => Whole'
  BY <1>1 DEF Whole, WholeSchedule
<1>6. ASSUME init # "printed" PROVE outcome' # None
  <2>1. end # "exit" /\ ~console.boot /\ console.frame = NoFrame
    BY <1>1, <1>6 DEF FaultInv, Remembered
  <2>2. Receipt(end).outcome # None
    BY <2>1 DEF Receipt, Frame, None
  <2>. QED BY <1>1, <2>2 DEF None
<1>7. FrameInv'
  BY <1>1, <1>2, <1>4, <1>5, <1>6 DEF FrameInv, WholeInv
<1>. QED BY <1>3, <1>7 DEF WholeInv

LEMMA BrokerWhole ==
    ASSUME FaultInv, WholeInv,
           \/ AcceptBuild \/ EndBuild \/ EndBaselineBuild \/ AcceptRun \/ EndRun
           \/ AcceptPair \/ EndFirst \/ EndSecond \/ (\E passed \in BOOLEAN : Assess(passed))
           \/ BrokerStops \/ ListenerFails
    PROVE  WholeInv'
<1>1. Kept'
  BY AcceptBuildKept, EndBuildKept, EndBaselineKept, OtherKept, AcceptPairKept, EndFirstKept,
     EndSecondKept, AssessKept DEF WholeInv, Kept
<1>2. outcome = None /\ init # "printed" /\ UNCHANGED <<guest, host>>
  BY DEF AcceptBuild, EndBuild, EndBaselineBuild, AcceptRun, EndRun, AcceptPair, EndFirst,
         EndSecond, Assess, BrokerStops, ListenerFails, Alive
<1>3. init # "printed" /\ console.frame = NoFrame
  BY <1>2 DEF FaultInv, Remembered
<1>4. console'.frame.score = NoScore /\ score' = NoScore
  BY <1>2, <1>3 DEF guest, host, NoFrame, Frame, WholeInv, FrameInv
<1>5. FrameInv'
  BY <1>4 DEF FrameInv
<1>. QED BY <1>1, <1>5 DEF WholeInv, Kept

LEMMA WholeStep == FaultInv /\ WholeInv /\ [Next]_vars => WholeInv'
<1>. SUFFICES ASSUME FaultInv, WholeInv, [Next]_vars PROVE WholeInv'
  OBVIOUS
<1>1. CASE /\ UNCHANGED <<measured, broker, host, trail, vouched, console>>
           /\ init' = "printed" => init = "printed"
           /\ init = "printed" => init' = "printed"
  <2>1. UNCHANGED <<measured, built, ready, sealed, pairs, pending, outputsOK, partial, serving,
                    fault, outcome, score, trail, vouched, console>>
    BY <1>1 DEF broker, program, host
  <2>2. ShapeInv' /\ VouchInv' /\ TrailInv'
    BY <2>1 DEF WholeInv, ShapeInv, VouchInv, TrailInv, Prepared, Schedule, Extra
  <2>3. FrameInv'
    BY <1>1, <2>1 DEF WholeInv, FrameInv, Whole, WholeSchedule
  <2>. QED BY <2>2, <2>3 DEF WholeInv
<1>2. CASE UNCHANGED vars \/ Done
  <2>1. UNCHANGED <<measured, broker, host, trail, vouched, console, init>>
    BY <1>2 DEF Done, vars, guest, history
  <2>. QED BY <1>1, <2>1
<1>3. CASE \/ StartMachine \/ Boot
           \/ Expire \/ CheckerExits \/ CheckerUnstarted \/ KillChecker \/ Drain
  <2>1. /\ UNCHANGED <<measured, broker, host, trail, vouched, console>>
        /\ init' = init \/ (init # "printed" /\ init' # "printed")
    BY <1>3 DEF StartMachine, Boot, Expire, CheckerExits, CheckerUnstarted, KillChecker, Drain,
                guest, history
  <2>. QED BY <1>1, <2>1
<1>4. CASE Report
  BY <1>4, ReportWhole
<1>5. CASE \E end \in Ends : Finish(end)
  BY <1>5, FinishWhole
<1>6. CASE \/ AcceptBuild \/ EndBuild \/ EndBaselineBuild \/ AcceptRun \/ EndRun
           \/ AcceptPair \/ EndFirst \/ EndSecond \/ (\E passed \in BOOLEAN : Assess(passed))
           \/ BrokerStops \/ ListenerFails
  BY <1>6, BrokerWhole
<1>7. CASE SetupFails \/ BootFails
  <2>1. /\ UNCHANGED <<measured, broker, trail, vouched>>
        /\ console'.frame \in {console.frame, NoFrame} /\ score' \in {score, NoScore}
        /\ outcome' # None \/ init' = "printed"
    BY <1>7 DEF SetupFails, BootFails, guest, host, None
  <2>2. UNCHANGED <<built, ready, sealed, pairs, pending, outputsOK, partial, serving, fault>>
    BY <2>1 DEF broker, program
  <2>3. ShapeInv' /\ VouchInv' /\ TrailInv'
    BY <2>1, <2>2 DEF WholeInv, ShapeInv, VouchInv, TrailInv, Prepared, Schedule, Extra
  <2>4. Whole => Whole'
    BY <2>1 DEF Whole, WholeSchedule
  <2>5. NoFrame.score = NoScore
    BY DEF NoFrame, Frame
  <2>6. FrameInv'
    BY <2>1, <2>4, <2>5 DEF WholeInv, FrameInv
  <2>. QED BY <2>3, <2>6 DEF WholeInv
<1>. QED BY <1>2, <1>3, <1>4, <1>5, <1>6, <1>7 DEF Next

(* A signed score of a measured run rests on one build of each program, every    *)
(* pair run on sealed trees in the locked order, and the checker's acceptance of *)
(* every pair, for any number of warm-ups and repetitions, any run limits and    *)
(* any interleaving of faults, the checker's exit and the end of the session     *)
(* (the broker, timingEvidence, GuestInit, runJob).                              *)
THEOREM MeasuredRunsAreWhole == Spec => []MeasuredRunIsWhole
<1>1. WholeInv => MeasuredRunIsWhole
  BY DEF WholeInv, FrameInv, Whole, MeasuredRunIsWhole
<1>. QED BY <1>1, FaultInit, FaultStep, WholeInit, WholeStep, PTL DEF Spec

----------------------------------------------------------------------------
(* Types and the limits of a run.                                              *)

Flags == /\ measured \in BOOLEAN /\ built \in BOOLEAN /\ pending \in BOOLEAN
         /\ fault \in BOOLEAN /\ expired \in BOOLEAN /\ cancelled \in BOOLEAN
         /\ timedOut \in BOOLEAN
Servings == {"idle", "build", "baseline", "run", "first", "second", "done"}

Controls ==
    /\ Flags /\ serving \in Servings
    /\ checker \in {"running", "ok", "failed", "limited", "killed"}
    /\ init \in {"off", "booting", "waiting", "draining", "printed"}

(* A pair is started only when its two runs and its place in the schedule are     *)
(* free, and they stay free until it is recorded; the first time is kept.         *)
Limits ==
    /\ runs \in 0 .. MaxRuns /\ pairs \in Seq(Trial) /\ Len(pairs) <= Pairs
    /\ serving \in {"first", "second"} => Len(pairs) < Pairs /\ runs + 2 <= MaxRuns
    /\ serving = "second" => IF First = Baseline THEN partial.base \in BaselineTimes
                                                 ELSE partial.cand \in CandidateTimes

LimitInv == Controls /\ Limits

LEMMA LimitInit == Init => LimitInv
<1>. SUFFICES ASSUME Init PROVE LimitInv
  OBVIOUS
<1>1. Controls
  BY DEF Init, BrokerInit, Controls, Flags, Servings
<1>2. MaxRuns \in Nat /\ Pairs \in Nat
  BY ProgramAssumption, PairCount
<1>3. Limits
  <2>1. pairs = << >> /\ pairs \in Seq(Trial) /\ Len(pairs) = 0
    BY EmptySeq DEF Init, BrokerInit
  <2>. QED BY <1>2, <2>1 DEF Init, BrokerInit, Limits
<1>. QED BY <1>1, <1>3 DEF LimitInv

LEMMA ControlStep == Controls /\ [Next]_vars => Controls'
<1>. SUFFICES ASSUME Controls, [Next]_vars PROVE Controls'
  OBVIOUS
<1>1. ASSUME /\ UNCHANGED <<measured, expired, cancelled, guest>>
             /\ built' = built \/ built' = TRUE
             /\ fault' = fault \/ fault' = TRUE
             /\ pending' = pending \/ pending' = TRUE \/ pending' = FALSE,
             serving' \in Servings
      PROVE  Controls'
  <2>1. built' \in BOOLEAN
    BY <1>1, Zenon DEF Controls, Flags
  <2>2. fault' \in BOOLEAN
    BY <1>1, Zenon DEF Controls, Flags
  <2>3. pending' \in BOOLEAN
    BY <1>1, Zenon DEF Controls, Flags
  <2>4. UNCHANGED <<measured, expired, cancelled, timedOut, checker, init>>
    BY <1>1 DEF guest
  <2>. QED BY <1>1, <2>1, <2>2, <2>3, <2>4 DEF Controls, Flags
<1>2. CASE UNCHANGED vars \/ Done
  BY <1>2 DEF Done, vars, broker, program, guest, Controls, Flags
<1>3. CASE AcceptBuild \/ AcceptRun \/ AcceptPair
  BY <1>1, <1>3, Zenon DEF AcceptBuild, AcceptRun, AcceptPair, Servings
<1>4. CASE EndRun \/ BrokerStops \/ ListenerFails
  BY <1>1, <1>4 DEF EndRun, BrokerStops, ListenerFails, BreakDown, program, Servings
<1>5. CASE EndFirst
  BY <1>1, <1>5 DEF EndFirst, BreakDown, Servings
<1>6. CASE EndSecond
  BY <1>1, <1>6 DEF EndSecond, BreakDown, Servings
<1>7. CASE \E passed \in BOOLEAN : Assess(passed)
  BY <1>1, <1>7 DEF Assess, Controls
<1>8. \A s, r : SealProgram(s, r) => serving' \in {"idle", "done"} /\ (fault' = fault \/ fault' = TRUE)
  BY Zenon DEF SealProgram, BreakDown
<1>9. CASE EndBuild
  <2>1. /\ serving' \in {"idle", "baseline", "done"} /\ (fault' = fault \/ fault' = TRUE)
        /\ UNCHANGED <<measured, built, pending, expired, cancelled, guest>>
    BY <1>8, <1>9 DEF EndBuild, BreakDown
  <2>2. serving' \in Servings
    BY <2>1 DEF Servings
  <2>3. UNCHANGED <<measured, expired, cancelled, guest>> /\ built' = built /\ pending' = pending
    BY <2>1
  <2>. QED BY <1>1, <2>1, <2>2, <2>3, Zenon
<1>10. CASE EndBaselineBuild
  <2>1. /\ serving' \in {"idle", "done"} /\ (fault' = fault \/ fault' = TRUE)
        /\ UNCHANGED <<measured, built, pending, expired, cancelled, guest>>
    BY <1>8, <1>10 DEF EndBaselineBuild, BreakDown
  <2>2. serving' \in Servings
    BY <2>1 DEF Servings
  <2>3. UNCHANGED <<measured, expired, cancelled, guest>> /\ built' = built /\ pending' = pending
    BY <2>1
  <2>. QED BY <1>1, <2>1, <2>2, <2>3, Zenon
<1>11. CASE \/ Startup
            \/ Expire \/ CheckerExits \/ CheckerUnstarted \/ KillChecker \/ Drain \/ Report
  <2>1. UNCHANGED <<measured, built, pending, fault, serving>>
    BY <1>11 DEF Startup, StartMachine, SetupFails, Boot, BootFails, Expire, CheckerExits,
                 CheckerUnstarted, KillChecker, Drain, Report, broker, program
  <2>2. /\ expired' = expired \/ expired' = TRUE
        /\ cancelled' = cancelled \/ cancelled' = TRUE
        /\ timedOut' = timedOut \/ timedOut' = expired
    BY <1>11, Zenon DEF Startup, StartMachine, SetupFails, Boot, BootFails, Expire, CheckerExits,
                 CheckerUnstarted, KillChecker, Drain, Report, guest
  <2>3. expired' \in BOOLEAN /\ cancelled' \in BOOLEAN /\ timedOut' \in BOOLEAN
    BY <2>2, Zenon DEF Controls, Flags
  <2>4. /\ checker' = checker \/ checker' \in {"ok", "failed", "limited", "killed"}
        /\ init' = init \/ init' \in {"booting", "waiting", "draining", "printed"}
    BY <1>11 DEF Startup, StartMachine, SetupFails, Boot, BootFails, Expire, CheckerExits,
                 CheckerUnstarted, KillChecker, Drain, Report, guest
  <2>. QED BY <2>1, <2>3, <2>4 DEF Controls, Flags
<1>12. CASE \E end \in Ends : Finish(end)
  BY <1>12 DEF Finish, broker, program, guest, Controls, Flags
<1>. QED BY <1>2, <1>3, <1>4, <1>5, <1>6, <1>7, <1>9, <1>10, <1>11, <1>12
     DEF Next, Startup

LEMMA LimitStep == ShapeInv /\ Limits /\ [Next]_vars => Limits'
<1>. SUFFICES ASSUME ShapeInv, Limits, [Next]_vars PROVE Limits'
  OBVIOUS
<1>1. MaxRuns \in Nat /\ Pairs \in Nat /\ Len(pairs) \in Nat /\ runs \in Nat /\ pairs \in Seq(Trial)
  BY ProgramAssumption, PairCount DEF Limits
<1>2. CASE UNCHANGED <<runs, pairs, partial, serving>>
  BY <1>2 DEF Limits, First
<1>3. CASE UNCHANGED <<runs, pairs>> /\ serving' \notin {"first", "second"}
  BY <1>3 DEF Limits
<1>4. CASE UNCHANGED vars \/ Done
  BY <1>2, <1>4 DEF Done, vars, broker, program
<1>5. CASE AcceptBuild \/ EndRun \/ BrokerStops \/ ListenerFails
  BY <1>3, <1>5 DEF AcceptBuild, EndRun, BrokerStops, ListenerFails, BreakDown, program
<1>6. \A s, r : SealProgram(s, r) => serving' \in {"idle", "done"}
  BY Zenon DEF SealProgram, BreakDown
<1>7. CASE EndBuild \/ EndBaselineBuild
  <2>1. serving' \in {"idle", "baseline", "done"} /\ UNCHANGED <<runs, pairs>>
    BY <1>6, <1>7 DEF EndBuild, EndBaselineBuild, BreakDown
  <2>. QED BY <1>3, <2>1
<1>8. CASE \/ Startup \/ Expire \/ CheckerExits \/ CheckerUnstarted \/ KillChecker \/ Drain
           \/ Report \/ \E end \in Ends : Finish(end)
  <2>1. UNCHANGED broker
    BY <1>8 DEF Startup, StartMachine, SetupFails, Boot, BootFails, Expire, CheckerExits,
                CheckerUnstarted, KillChecker, Drain, Report, Finish
  <2>. QED BY <1>2, <2>1 DEF broker, program
<1>9. CASE AcceptRun
  BY <1>1, <1>9 DEF AcceptRun, Limits
<1>10. CASE AcceptPair
  BY <1>1, <1>10 DEF AcceptPair, PairAllowed, Limits
<1>11. CASE EndFirst
  <2>1. UNCHANGED <<runs, pairs>> /\ serving = "first"
    BY <1>11 DEF EndFirst
  <2>2. First' = First
    BY <2>1 DEF First
  <2>3. CASE serving' = "done"
    BY <1>3, <2>1, <2>3
  <2>4. ASSUME NEW o, NEW t \in Times(First), partial' = Timed(First, o, t), serving' = "second"
        PROVE  Limits'
    <3>1. CASE First = Baseline
      BY <2>1, <2>2, <2>4, <3>1 DEF Limits, Times, Timed
    <3>2. CASE First # Baseline
      <4>1. First = Candidate
        BY <3>2 DEF First
      <4>. QED BY <2>1, <2>2, <2>4, <3>2, <4>1 DEF Limits, Times, Timed
    <3>. QED BY <3>1, <3>2
  <2>. QED BY <1>11, <2>3, <2>4 DEF EndFirst, BreakDown
<1>12. CASE EndSecond
  <2>1. serving = "second"
    BY <1>12 DEF EndSecond
  <2>2. CASE serving' = "done" /\ UNCHANGED <<pairs, runs>>
    BY <1>3, <2>2
  <2>3. ASSUME NEW o, NEW t \in Times(Second),
               pairs' = Append(pairs, [base |-> Timed(Second, o, t).base,
                                       cand |-> Timed(Second, o, t).cand,
                                       first |-> First = Baseline, quality |-> FALSE]),
               runs' = runs + 2, serving' = "idle"
        PROVE  Limits'
    <3>1. Timed(Second, o, t).base \in BaselineTimes /\ Timed(Second, o, t).cand \in CandidateTimes
      <4>1. CASE First = Baseline
        BY <2>1, <2>3, <4>1 DEF Limits, Second, Times, Timed, Candidate, Baseline
      <4>2. CASE First # Baseline
        BY <2>1, <2>3, <4>2 DEF Limits, Second, Times, Timed, Candidate, Baseline
      <4>. QED BY <4>1, <4>2
    <3>2. PICK e \in Trial : pairs' = Append(pairs, e)
      <4>1. [base |-> Timed(Second, o, t).base, cand |-> Timed(Second, o, t).cand,
             first |-> First = Baseline, quality |-> FALSE] \in Trial
        BY <3>1 DEF Trial
      <4>. QED BY <2>3, <4>1
    <3>3. pairs' \in Seq(Trial) /\ Len(pairs') = Len(pairs) + 1
      BY <1>1, <3>2, AppendProperties
    <3>. QED BY <1>1, <2>1, <2>3, <3>3 DEF Limits
  <2>. QED BY <1>12, <2>2, <2>3 DEF EndSecond, BreakDown
<1>13. ASSUME NEW passed \in BOOLEAN, Assess(passed) PROVE Limits'
  <2>1. /\ pairs' = [pairs EXCEPT ![Len(pairs)].quality = (passed /\ outputsOK)]
        /\ UNCHANGED <<runs, serving>> /\ serving = "idle"
    BY <1>13 DEF Assess, Quality
  <2>2. CASE Len(pairs) = 0
    <3>1. pairs' = pairs
      BY <1>1, <2>1, <2>2
    <3>. QED BY <1>3, <2>1, <3>1
  <2>3. CASE Len(pairs) # 0
    <3>1. Len(pairs) \in 1 .. Len(pairs) /\ pairs[Len(pairs)] \in Trial
      BY <1>1, <2>3
    <3>2. PICK b \in BOOLEAN : b = (passed /\ outputsOK)
      OBVIOUS
    <3>3. [pairs[Len(pairs)] EXCEPT !.quality = b] \in Trial
      BY <3>1 DEF Trial
    <3>4. pairs' = [pairs EXCEPT ![Len(pairs)] = [pairs[Len(pairs)] EXCEPT !.quality = b]]
      BY <2>1, <3>2
    <3>5. pairs' \in Seq(Trial) /\ Len(pairs') = Len(pairs)
      BY <1>1, <3>1, <3>3, <3>4, ExceptSeq
    <3>. QED BY <2>1, <3>5 DEF Limits
  <2>. QED BY <2>2, <2>3
<1>. QED BY <1>4, <1>5, <1>7, <1>8, <1>9, <1>10, <1>11, <1>12, <1>13 DEF Next, Startup

(* A session stays within its limits, also with a pair under way when the last    *)
(* of them is reached: no more runs than the program allows, no more pairs than   *)
(* the schedule has, each with the times of the program it ran (the broker).      *)
THEOREM SandboxTypeCorrect == Spec => []SandboxTypeOK
<1>1. WholeInv /\ LimitInv => SandboxTypeOK
  <2>. SUFFICES ASSUME WholeInv, LimitInv PROVE SandboxTypeOK
    OBVIOUS
  <2>1. vouched \subseteq 1 .. Pairs
    BY PairCount DEF WholeInv, VouchInv, LimitInv, Limits
  <2>2. /\ outputsOK \in BOOLEAN
        /\ ready \in [Who -> BOOLEAN] /\ sealed \in [Who -> BOOLEAN]
    BY DEF WholeInv, ShapeInv
  <2>. QED BY <2>1, <2>2 DEF LimitInv, Controls, Flags, Servings, Limits, SandboxTypeOK
<1>2. LimitInv /\ WholeInv /\ [Next]_vars => LimitInv'
  BY ControlStep, LimitStep DEF LimitInv, WholeInv
<1>. QED BY <1>1, <1>2, LimitInit, FaultInit, FaultStep, WholeInit, WholeStep, PTL DEF Spec

----------------------------------------------------------------------------
(* What a score is worth.  The code sums binomial coefficients, sorts and picks *)
(* an index; the property counts the splits of the trials and the trials below  *)
(* the score.  The lemmas show that the two agree for every number of trials.   *)

(* Induction, as a statement about sets *)

LEMMA Highest ==
    ASSUME NEW S, IsFiniteSet(S), S # {}, NEW f \in [S -> Int]
    PROVE  \E i \in S : \A j \in S : f[j] <= f[i]
<1>. DEFINE Above(i) == {j \in S : f[j] > f[i]}
            U == {Above(i) : i \in S}
<1>1. U # {} /\ U \subseteq FiniteSubsetsOf(S)
  <2>1. FiniteSubsetsOf(S) = SUBSET S
    BY FS_FiniteSubsetsOfFinite
  <2>2. \A i \in S : Above(i) \in SUBSET S
    OBVIOUS
  <2>3. \E i \in S : Above(i) \in U
    OBVIOUS
  <2>4. U # {}
    BY <2>3, Zenon
  <2>5. U \subseteq SUBSET S
    BY <2>2, Zenon
  <2>. QED BY <2>1, <2>4, <2>5
<1>2. PICK u \in U : \A x \in U : <<x, u>> \notin StrictSubsetOrdering(S)
  <2>. HIDE DEF U
  <2>. QED BY <1>1, FS_StrictSubsetOrderingWellFounded, WFMin, Zenon
<1>3. PICK i \in S : u = Above(i)
  BY <1>2
<1>4. ASSUME NEW j \in S, f[j] > f[i] PROVE FALSE
  <2>1. Above(j) \subseteq Above(i) /\ j \in Above(i) /\ j \notin Above(j) /\ Above(j) \in U
    BY <1>4
  <2>2. <<Above(j), Above(i)>> \in StrictSubsetOrdering(S)
    BY <2>1, Zenon DEF StrictSubsetOrdering
  <2>. QED BY <1>2, <1>3, <2>1, <2>2
<1>. QED BY <1>4

LEMMA Induction ==
    ASSUME NEW A \in SUBSET Nat, 0 \in A, \A n \in A : n + 1 \in A
    PROVE  A = Nat
<1>. SUFFICES ASSUME NEW n \in Nat, n \notin A PROVE FALSE
  OBVIOUS
<1>. DEFINE B == (0 .. n) \ A
            f == [i \in B |-> -i]
<1>1. IsFiniteSet(B) /\ n \in B
  <2>1. IsFiniteSet(0 .. n)
    BY FS_Interval
  <2>2. IsFiniteSet(B)
    BY <2>1, FS_Difference, Zenon
  <2>. QED BY <2>2
<1>2. f \in [B -> Int]
  OBVIOUS
<1>3. PICK m \in B : \A j \in B : f[j] <= f[m]
  <2>. HIDE DEF B, f
  <2>. QED BY <1>1, <1>2, Highest
<1>4. \A j \in B : m <= j
  BY <1>3
<1>5. m # 0 /\ m - 1 \in 0 .. n
  OBVIOUS
<1>6. m - 1 \in A
  BY <1>4, <1>5
<1>7. (m - 1) + 1 \in A
  BY <1>6
<1>. QED BY <1>7

(* Factorials and what choose counts *)

Factorials(n) == {g \in [0 .. n -> Nat \ {0}] : g[0] = 1 /\ \A i \in 1 .. n : g[i] = i * g[i - 1]}

LEMMA FactorialsExist == \A n \in Nat : Factorials(n) # {}
<1>. DEFINE A == {n \in Nat : Factorials(n) # {}}
<1>1. 0 \in A
  <2>1. [i \in 0 .. 0 |-> 1] \in Factorials(0)
    BY DEF Factorials
  <2>. QED BY <2>1
<1>2. ASSUME NEW n \in A PROVE n + 1 \in A
  <2>1. PICK g \in [0 .. n -> Nat \ {0}] : g[0] = 1 /\ \A i \in 1 .. n : g[i] = i * g[i - 1]
    BY DEF Factorials
  <2>. DEFINE h == [i \in 0 .. n + 1 |-> IF i = n + 1 THEN (n + 1) * g[n] ELSE g[i]]
  <2>2. (n + 1) * g[n] \in Nat \ {0}
    <3>1. \A a, b \in Nat \ {0} : a * b \in Nat \ {0}
      OBVIOUS
    <3>. QED BY <2>1, <3>1
  <2>3. h \in [0 .. n + 1 -> Nat \ {0}] /\ h[0] = 1
    BY <2>1, <2>2
  <2>4. ASSUME NEW i \in 1 .. n + 1 PROVE h[i] = i * h[i - 1]
    BY <2>1
  <2>. HIDE DEF h
  <2>5. h \in Factorials(n + 1)
    BY <2>3, <2>4 DEF Factorials
  <2>. QED BY <2>5
<1>. QED
  <2>. HIDE DEF A
  <2>1. A = Nat
    BY <1>1, <1>2, Induction DEF A
  <2>. QED BY <2>1 DEF A

LEMMA FactorialsAgree ==
    ASSUME NEW n \in Nat, NEW m \in Nat, NEW g \in Factorials(n), NEW h \in Factorials(m)
    PROVE  \A i \in 0 .. n : i <= m => g[i] = h[i]
<1>. DEFINE A == {i \in Nat : i <= n /\ i <= m => g[i] = h[i]}
<1>1. 0 \in A
  BY DEF Factorials
<1>2. ASSUME NEW i \in A PROVE i + 1 \in A
  <2>1. SUFFICES ASSUME i + 1 <= n, i + 1 <= m PROVE g[i + 1] = h[i + 1]
    OBVIOUS
  <2>2. g[i] = h[i] /\ i + 1 \in 1 .. n /\ i + 1 \in 1 .. m /\ (i + 1) - 1 = i
    BY <2>1
  <2>. QED BY <2>2 DEF Factorials
<1>3. A = Nat
  <2>. HIDE DEF A
  <2>1. A \in SUBSET Nat
    BY DEF A
  <2>. QED BY <1>1, <1>2, <2>1, Induction
<1>. QED BY <1>3

(* factorial satisfies the equation that defines it. *)
LEMMA FactorialFacts ==
    /\ factorial \in [Nat -> Nat \ {0}] /\ factorial[0] = 1
    /\ \A n \in Nat : factorial[n + 1] = (n + 1) * factorial[n]
<1>. DEFINE G(n) == CHOOSE g \in Factorials(n) : TRUE
            f == [n \in Nat |-> G(n)[n]]
            Def(g) == [n \in Nat |-> IF n = 0 THEN 1 ELSE n * g[n - 1]]
<1>1. \A n \in Nat : G(n) \in Factorials(n)
  BY FactorialsExist
<1>2. \A n \in Nat : f[n] \in Nat \ {0}
  <2>. HIDE DEF G
  <2>. QED BY <1>1 DEF Factorials
<1>3. f[0] = 1
  <2>. HIDE DEF G
  <2>. QED BY <1>1 DEF Factorials
<1>4. ASSUME NEW n \in Nat, n # 0 PROVE f[n] = n * f[n - 1]
  <2>. HIDE DEF G
  <2>1. n - 1 \in Nat /\ G(n) \in Factorials(n) /\ G(n - 1) \in Factorials(n - 1)
    BY <1>1, <1>4
  <2>2. G(n)[n] = n * G(n)[n - 1]
    BY <1>4, <2>1 DEF Factorials
  <2>3. G(n - 1)[n - 1] = G(n)[n - 1]
    BY <2>1, FactorialsAgree
  <2>. QED BY <2>1, <2>2, <2>3
<1>5. f = Def(f)
  <2>. HIDE DEF G
  <2>1. \A n \in Nat : f[n] = IF n = 0 THEN 1 ELSE n * f[n - 1]
    BY <1>3, <1>4
  <2>2. f = [n \in Nat |-> f[n]]
    OBVIOUS
  <2>. HIDE DEF f
  <2>. QED BY <2>1, <2>2
<1>6. factorial = CHOOSE g : g = Def(g)
  BY DEF factorial
<1>7. factorial = Def(factorial)
  <2>. HIDE DEF f, Def
  <2>. QED BY <1>5, <1>6
<1>8. /\ DOMAIN factorial = Nat /\ factorial = [n \in Nat |-> factorial[n]]
      /\ \A n \in Nat : factorial[n] = IF n = 0 THEN 1 ELSE n * factorial[n - 1]
  <2>. DEFINE x == factorial
  <2>1. x = Def(x)
    BY <1>7
  <2>. HIDE DEF x
  <2>. QED BY <2>1 DEF x
<1>9. factorial[0] = 1 /\ \A n \in Nat : factorial[n + 1] = (n + 1) * factorial[n]
  <2>1. ASSUME NEW n \in Nat PROVE factorial[n + 1] = (n + 1) * factorial[n]
    <3>1. n + 1 \in Nat /\ n + 1 # 0 /\ (n + 1) - 1 = n
      OBVIOUS
    <3>2. factorial[n + 1] = (n + 1) * factorial[(n + 1) - 1]
      BY <1>8, <3>1, Zenon
    <3>. QED BY <3>1, <3>2
  <2>2. factorial[0] = 1
    BY <1>8, Zenon
  <2>. QED BY <2>1, <2>2
<1>10. \A n \in Nat : factorial[n] \in Nat \ {0}
  <2>. DEFINE A == {n \in Nat : factorial[n] \in Nat \ {0}}
  <2>1. 0 \in A
    BY <1>9
  <2>2. ASSUME NEW n \in A PROVE n + 1 \in A
    <3>1. \A a, b \in Nat \ {0} : a * b \in Nat \ {0}
      OBVIOUS
    <3>2. (n + 1) * factorial[n] \in Nat \ {0}
      BY <3>1
    <3>. QED BY <1>9, <3>2
  <2>3. A = Nat
    <3>. HIDE DEF A
    <3>1. A \in SUBSET Nat
      BY DEF A
    <3>. QED BY <2>1, <2>2, <3>1, Induction
  <2>. QED BY <2>3
<1>. QED BY <1>8, <1>9, <1>10

(* The subsets of T with k members, and those with fewer *)
Subsets(T, k) == {S \in SUBSET T : Cardinality(S) = k}
Fewer(T, k) == {S \in SUBSET T : Cardinality(S) < k}

LEMMA SubsetsFinite ==
    ASSUME NEW T, IsFiniteSet(T), NEW k \in Int
    PROVE  /\ IsFiniteSet(Subsets(T, k)) /\ Cardinality(Subsets(T, k)) \in Nat
           /\ IsFiniteSet(Fewer(T, k)) /\ Cardinality(Fewer(T, k)) \in Nat
<1>1. IsFiniteSet(SUBSET T) /\ Subsets(T, k) \in SUBSET (SUBSET T) /\ Fewer(T, k) \in SUBSET (SUBSET T)
  BY FS_SUBSET DEF Subsets, Fewer
<1>2. IsFiniteSet(Subsets(T, k)) /\ IsFiniteSet(Fewer(T, k))
  BY <1>1, FS_Subset
<1>. QED BY <1>2, FS_CardinalityType

(* Pascal's rule *)
LEMMA SubsetsGrow ==
    ASSUME NEW T, IsFiniteSet(T), NEW x, x \notin T, NEW k \in Nat
    PROVE  Cardinality(Subsets(T \cup {x}, k + 1)) =
               Cardinality(Subsets(T, k + 1)) + Cardinality(Subsets(T, k))
<1>. DEFINE W == {S \cup {x} : S \in Subsets(T, k)}
            b == [S \in Subsets(T, k) |-> S \cup {x}]
<1>1. \A S \in SUBSET T : /\ IsFiniteSet(S) /\ Cardinality(S) \in Nat
                           /\ Cardinality(S \cup {x}) = Cardinality(S) + 1
  <2>. TAKE S \in SUBSET T
  <2>1. IsFiniteSet(S)
    BY FS_Subset
  <2>. QED BY <2>1, FS_AddElement, FS_CardinalityType
<1>2. b \in Bijection(Subsets(T, k), W)
  <2>1. b \in [Subsets(T, k) -> W]
    OBVIOUS
  <2>2. \A S, R \in Subsets(T, k) : b[S] = b[R] => S = R
    BY DEF Subsets
  <2>3. \A w \in W : \E S \in Subsets(T, k) : b[S] = w
    OBVIOUS
  <2>. HIDE DEF b, W
  <2>4. b \in Injection(Subsets(T, k), W)
    BY <2>1, <2>2 DEF Injection, IsInjective
  <2>5. b \in Surjection(Subsets(T, k), W)
    BY <2>1, <2>3 DEF Surjection
  <2>. QED BY <2>4, <2>5 DEF Bijection
<1>3. IsFiniteSet(W) /\ Cardinality(W) = Cardinality(Subsets(T, k))
  <2>. HIDE DEF b, W
  <2>1. IsFiniteSet(Subsets(T, k))
    BY SubsetsFinite
  <2>2. ExistsBijection(Subsets(T, k), W)
    BY <1>2 DEF ExistsBijection
  <2>. QED BY <2>1, <2>2, FS_Bijection, Zenon
<1>4. Subsets(T \cup {x}, k + 1) = Subsets(T, k + 1) \cup W
  <2>1. ASSUME NEW S \in Subsets(T \cup {x}, k + 1) PROVE S \in Subsets(T, k + 1) \cup W
    <3>1. CASE x \notin S
      BY <2>1, <3>1 DEF Subsets
    <3>2. CASE x \in S
      <4>1. S \ {x} \in SUBSET T /\ S = (S \ {x}) \cup {x}
        BY <2>1, <3>2 DEF Subsets
      <4>2. Cardinality(S) = k + 1
        BY <2>1 DEF Subsets
      <4>3. Cardinality(S \ {x}) = k
        BY <1>1, <4>1, <4>2
      <4>4. S \ {x} \in Subsets(T, k)
        BY <4>1, <4>3 DEF Subsets
      <4>. QED BY <4>1, <4>4
    <3>. QED BY <3>1, <3>2
  <2>2. ASSUME NEW S \in Subsets(T, k + 1) PROVE S \in Subsets(T \cup {x}, k + 1)
    BY <2>2 DEF Subsets
  <2>3. ASSUME NEW S \in Subsets(T, k) PROVE S \cup {x} \in Subsets(T \cup {x}, k + 1)
    BY <1>1, <2>3 DEF Subsets
  <2>. QED BY <2>1, <2>2, <2>3
<1>5. Subsets(T, k + 1) \cap W = {}
  BY DEF Subsets
<1>6. /\ IsFiniteSet(Subsets(T, k + 1)) /\ Cardinality(Subsets(T, k + 1)) \in Nat
      /\ Cardinality(Subsets(T, k)) \in Nat
  BY SubsetsFinite
<1>7. Cardinality(Subsets(T, k + 1) \cup W) =
        Cardinality(Subsets(T, k + 1)) + Cardinality(W) - Cardinality(Subsets(T, k + 1) \cap W)
  <2>. HIDE DEF W
  <2>. QED BY <1>3, <1>6, FS_Union, Zenon
<1>8. Cardinality(Subsets(T, k + 1) \cap W) = 0
  BY <1>5, FS_EmptySet, Zenon
<1>. HIDE DEF W
<1>9. Cardinality(Subsets(T \cup {x}, k + 1)) = Cardinality(Subsets(T, k + 1) \cup W)
  BY <1>4, Zenon
<1>. QED BY <1>3, <1>6, <1>7, <1>8, <1>9

(* The arithmetic of one step of the induction below *)
LEMMA StepProducts ==
    ASSUME NEW a \in Nat, NEW b \in Nat, NEW c \in Nat, NEW d \in Nat,
           NEW J \in Nat, NEW M \in Nat, NEW N \in Nat,
           b * (J * (d * M)) = N, a * ((c * J) * M) = N
    PROVE  (a + b) * ((c * J) * (d * M)) = (c + d) * N
<1>1. a * ((c * J) * (d * M)) = d * (a * ((c * J) * M))
  OBVIOUS
<1>2. b * ((c * J) * (d * M)) = c * (b * (J * (d * M)))
  OBVIOUS
<1>3. (a + b) * ((c * J) * (d * M)) = a * ((c * J) * (d * M)) + b * ((c * J) * (d * M))
  OBVIOUS
<1>4. (c + d) * N = c * N + d * N
  OBVIOUS
<1>. QED BY <1>1, <1>2, <1>3, <1>4

LEMMA NoMembers ==
    ASSUME NEW T, IsFiniteSet(T)
    PROVE  /\ Cardinality(Subsets(T, 0)) = 1 /\ Fewer(T, 0) = {}
           /\ \A k \in Nat : k > Cardinality(T) => Subsets(T, k) = {}
<1>1. \A S \in SUBSET T : /\ IsFiniteSet(S) /\ Cardinality(S) \in Nat
                           /\ Cardinality(S) <= Cardinality(T) /\ (Cardinality(S) = 0 <=> S = {})
  BY FS_Subset, FS_CardinalityType, FS_EmptySet
<1>2. Subsets(T, 0) = {{}}
  BY <1>1 DEF Subsets
<1>3. Cardinality({{}}) = 1
  BY FS_Singleton
<1>4. Cardinality(T) \in Nat
  BY FS_CardinalityType
<1>5. Fewer(T, 0) = {}
  BY <1>1 DEF Fewer
<1>6. ASSUME NEW k \in Nat, k > Cardinality(T) PROVE Subsets(T, k) = {}
  BY <1>1, <1>4, <1>6 DEF Subsets
<1>. QED BY <1>2, <1>3, <1>5, <1>6

(* How many subsets of T have k members, without a division *)
LEMMA SubsetsCounted ==
    ASSUME NEW U, IsFiniteSet(U)
    PROVE  \A T \in SUBSET U : \A k \in 0 .. Cardinality(T) :
             Cardinality(Subsets(T, k)) * (factorial[k] * factorial[Cardinality(T) - k])
                 = factorial[Cardinality(T)]
<1>. DEFINE Holds(T, n, k) ==
              Cardinality(Subsets(T, k)) * (factorial[k] * factorial[n - k]) = factorial[n]
            A == {n \in Nat : \A T \in SUBSET U :
                                Cardinality(T) = n => \A k \in 0 .. n : Holds(T, n, k)}
<1>1. \A T \in SUBSET U : IsFiniteSet(T) /\ Cardinality(T) \in Nat
  BY FS_Subset, FS_CardinalityType
<1>2. ASSUME NEW T \in SUBSET U, NEW n \in Nat PROVE Holds(T, n, 0)
  <2>1. Cardinality(Subsets(T, 0)) = 1 /\ n - 0 = n
    BY <1>1, NoMembers
  <2>. QED BY <2>1, FactorialFacts
<1>3. 0 \in A
  BY <1>2
<1>4. ASSUME NEW n \in A PROVE n + 1 \in A
  <2>. SUFFICES ASSUME NEW T \in SUBSET U, Cardinality(T) = n + 1, NEW k \in 0 .. n + 1
                PROVE  Holds(T, n + 1, k)
    OBVIOUS
  <2>1. T # {}
    BY FS_EmptySet
  <2>2. PICK x : x \in T
    BY <2>1
  <2>. DEFINE R == T \ {x}
  <2>3. /\ R \in SUBSET U /\ IsFiniteSet(R) /\ x \notin R /\ T = R \cup {x}
        /\ Cardinality(R) = n
    <3>1. IsFiniteSet(T)
      BY <1>1
    <3>2. IsFiniteSet(R) /\ Cardinality(R) = Cardinality(T) - 1
      BY <2>2, <3>1, FS_RemoveElement, Zenon
    <3>. QED BY <2>2, <3>2
  <2>. HIDE DEF R
  <2>4. \A j \in 0 .. n : Holds(R, n, j)
    BY <2>3
  <2>5. CASE k = 0
    BY <1>2, <2>5
  <2>6. CASE k # 0
    <3>. DEFINE j == k - 1
                a == Cardinality(Subsets(R, j + 1))
                b == Cardinality(Subsets(R, j))
    <3>1. j \in 0 .. n /\ k = j + 1 /\ j \in Nat /\ n - j \in Nat /\ n + 1 - k = n - j
      BY <2>6
    <3>. HIDE DEF j
    <3>2. a \in Nat /\ b \in Nat
      <4>1. j \in Int /\ j + 1 \in Int
        BY <3>1
      <4>. QED BY <2>3, <4>1, SubsetsFinite, Zenon
    <3>3. Cardinality(Subsets(T, k)) = a + b
      BY <2>3, <3>1, SubsetsGrow
    <3>4. b * (factorial[j] * factorial[n - j]) = factorial[n]
      BY <2>4, <3>1
    <3>5. /\ factorial[k] = (j + 1) * factorial[j] /\ factorial[n + 1] = (n + 1) * factorial[n]
          /\ factorial[j] \in Nat /\ factorial[n] \in Nat /\ factorial[n - j] \in Nat
      BY <3>1, FactorialFacts
    <3>. HIDE DEF a, b
    <3>6. (a + b) * (((j + 1) * factorial[j]) * factorial[n - j]) = (n + 1) * factorial[n]
      <4>1. CASE j = n
        <5>1. a = 0
          <6>1. j + 1 \in Nat /\ j + 1 > Cardinality(R)
            BY <2>3, <3>1, <4>1
          <6>2. Subsets(R, j + 1) = {}
            BY <2>3, <6>1, NoMembers, Zenon
          <6>. QED BY <6>2, FS_EmptySet, Zenon DEF a
        <5>2. b * (factorial[j] * factorial[n - j]) = factorial[n]
          BY <3>4
        <5>. DEFINE F == factorial[j]
                    M == factorial[n - j]
        <5>3. (0 + b) * (((j + 1) * F) * M) = (j + 1) * (b * (F * M))
          <6>1. F \in Nat /\ M \in Nat
            BY <3>5
          <6>. HIDE DEF F, M
          <6>. QED BY <3>1, <3>2, <6>1
        <5>. QED BY <4>1, <5>1, <5>2, <5>3
      <4>2. CASE j # n
        <5>. DEFINE m == n - j - 1
        <5>1. m \in Nat /\ n - j = m + 1 /\ j + 1 \in 0 .. n /\ n - (j + 1) = m /\ (j + 1) + (m + 1) = n + 1
          BY <3>1, <4>2
        <5>. HIDE DEF m
        <5>2. factorial[n - j] = (m + 1) * factorial[m] /\ factorial[m] \in Nat
          BY <5>1, FactorialFacts
        <5>3. a * (factorial[j + 1] * factorial[m]) = factorial[n]
          BY <2>4, <5>1 DEF a
        <5>4. a * (((j + 1) * factorial[j]) * factorial[m]) = factorial[n]
          BY <3>1, <3>5, <5>3
        <5>5. b * (factorial[j] * ((m + 1) * factorial[m])) = factorial[n]
          BY <3>4, <5>2
        <5>6. (a + b) * (((j + 1) * factorial[j]) * ((m + 1) * factorial[m]))
                = ((j + 1) + (m + 1)) * factorial[n]
          <6>1. j + 1 \in Nat /\ m + 1 \in Nat
            BY <3>1, <5>1
          <6>. DEFINE c == j + 1  d == m + 1  J == factorial[j]  M == factorial[m]  N == factorial[n]
          <6>2. /\ c \in Nat /\ d \in Nat /\ J \in Nat /\ M \in Nat /\ N \in Nat
                /\ b * (J * (d * M)) = N /\ a * ((c * J) * M) = N
            BY <3>5, <5>2, <5>4, <5>5, <6>1
          <6>. HIDE DEF c, d, J, M, N
          <6>3. (a + b) * ((c * J) * (d * M)) = (c + d) * N
            BY <3>2, <6>2, StepProducts
          <6>. QED BY <6>3 DEF c, d, J, M, N
        <5>. QED BY <5>1, <5>2, <5>6
      <4>. QED BY <4>1, <4>2
    <3>. QED BY <3>1, <3>3, <3>5, <3>6
  <2>. QED BY <2>5, <2>6
<1>5. A = Nat
  <2>. HIDE DEF A
  <2>1. A \in SUBSET Nat
    BY DEF A
  <2>. QED BY <1>3, <1>4, <2>1, Induction
<1>. QED BY <1>1, <1>5

LEMMA Quotient ==
    ASSUME NEW a \in Nat, NEW b \in Nat \ {0}
    PROVE  (a * b) \div b = a
OBVIOUS

(* choose(n, k) is the number of ways to choose k of n. *)
LEMMA ChooseCounts ==
    ASSUME NEW T, IsFiniteSet(T), NEW k \in 0 .. Cardinality(T)
    PROVE  choose(Cardinality(T), k) = Cardinality(Subsets(T, k))
<1>. DEFINE n == Cardinality(T)
            c == Cardinality(Subsets(T, k))
            p == factorial[k] * factorial[n - k]
<1>1. n \in Nat /\ k \in Nat /\ n - k \in Nat /\ c \in Nat
  <2>1. n \in Nat
    BY FS_CardinalityType
  <2>2. k \in Nat /\ k \in Int /\ n - k \in Nat
    BY <2>1
  <2>3. c \in Nat
    BY <2>2, SubsetsFinite, Zenon
  <2>. QED BY <2>1, <2>2, <2>3
<1>2. c * p = factorial[n]
  BY SubsetsCounted
<1>3. p \in Nat \ {0}
  <2>1. \A a, b \in Nat \ {0} : a * b \in Nat \ {0}
    OBVIOUS
  <2>. QED BY <1>1, <2>1, FactorialFacts
<1>4. choose(n, k) = factorial[n] \div p
  BY DEF choose
<1>. HIDE DEF p, c, n
<1>5. (c * p) \div p = c
  BY <1>1, <1>3, Quotient
<1>. QED BY <1>2, <1>4, <1>5 DEF c, n

(* TailSum counts the subsets with fewer than k members. *)
LEMMA TailCounts ==
    ASSUME NEW T, IsFiniteSet(T), NEW k \in 0 .. Cardinality(T) + 1
    PROVE  TailSum(Cardinality(T), k) = Cardinality(Fewer(T, k))
<1>. DEFINE n == Cardinality(T)
            Def(s) == [j \in 0 .. k |-> IF j = 0 THEN 0 ELSE choose(n, j - 1) + s[j - 1]]
            g == [j \in 0 .. k |-> Cardinality(Fewer(T, j))]
            sum == CHOOSE s : s = Def(s)
<1>1. n \in Nat
  BY FS_CardinalityType
<1>2. Cardinality(Fewer(T, 0)) = 0
  BY NoMembers, FS_EmptySet
<1>3. ASSUME NEW j \in 1 .. k
      PROVE  Cardinality(Fewer(T, j)) = choose(n, j - 1) + Cardinality(Fewer(T, j - 1))
  <2>. DEFINE i == j - 1
  <2>1. i \in 0 .. n /\ i \in Nat /\ j \in Int
    BY <1>1
  <2>2. \A S \in SUBSET T : Cardinality(S) \in Nat
    BY FS_Subset, FS_CardinalityType
  <2>3. Fewer(T, j) = Subsets(T, i) \cup Fewer(T, i) /\ Subsets(T, i) \cap Fewer(T, i) = {}
    BY <2>1, <2>2 DEF Fewer, Subsets
  <2>. HIDE DEF i
  <2>4. /\ IsFiniteSet(Subsets(T, i)) /\ Cardinality(Subsets(T, i)) \in Nat
        /\ IsFiniteSet(Fewer(T, i)) /\ Cardinality(Fewer(T, i)) \in Nat
    BY <2>1, SubsetsFinite
  <2>5. Cardinality(Subsets(T, i) \cup Fewer(T, i)) =
          Cardinality(Subsets(T, i)) + Cardinality(Fewer(T, i)) - Cardinality(Subsets(T, i) \cap Fewer(T, i))
    BY <2>4, FS_Union, Zenon
  <2>6. Cardinality(Subsets(T, i) \cap Fewer(T, i)) = 0
    BY <2>3, FS_EmptySet, Zenon
  <2>7. Cardinality(Fewer(T, j)) = Cardinality(Subsets(T, i) \cup Fewer(T, i))
    BY <2>3, Zenon
  <2>8. choose(n, i) = Cardinality(Subsets(T, i))
    BY <2>1, ChooseCounts
  <2>9. Cardinality(Fewer(T, j)) = choose(n, i) + Cardinality(Fewer(T, i))
    BY <2>4, <2>5, <2>6, <2>7, <2>8
  <2>. QED BY <2>9 DEF i
<1>4. g = Def(g)
  <2>1. ASSUME NEW j \in 0 .. k PROVE g[j] = IF j = 0 THEN 0 ELSE choose(n, j - 1) + g[j - 1]
    <3>1. CASE j = 0
      BY <1>2, <3>1
    <3>2. CASE j # 0
      <4>1. j \in 1 .. k /\ j - 1 \in 0 .. k
        BY <3>2
      <4>. HIDE DEF n
      <4>. QED BY <1>3, <3>2, <4>1
    <3>. QED BY <3>1, <3>2
  <2>2. g = [j \in 0 .. k |-> g[j]]
    OBVIOUS
  <2>. HIDE DEF g, n
  <2>. QED BY <2>1, <2>2
<1>5. sum = Def(sum)
  <2>. HIDE DEF g, Def
  <2>. QED BY <1>4
<1>6. \A j \in 0 .. k : sum[j] = IF j = 0 THEN 0 ELSE choose(n, j - 1) + sum[j - 1]
  <2>. HIDE DEF sum, n
  <2>. QED BY <1>5
<1>7. \A j \in 0 .. k : sum[j] = Cardinality(Fewer(T, j))
  <2>. HIDE DEF sum, n
  <2>. DEFINE A == {j \in Nat : j <= k => sum[j] = Cardinality(Fewer(T, j))}
  <2>1. 0 \in A
    <3>1. 0 \in 0 .. k
      BY <1>1 DEF n
    <3>2. sum[0] = 0
      BY <1>6, <3>1, Zenon
    <3>. QED BY <1>2, <3>2
  <2>2. ASSUME NEW j \in A PROVE j + 1 \in A
    <3>1. SUFFICES ASSUME j + 1 <= k PROVE sum[j + 1] = Cardinality(Fewer(T, j + 1))
      OBVIOUS
    <3>2. /\ k \in Int /\ j + 1 \in 0 .. k /\ j + 1 \in 1 .. k /\ j + 1 # 0 /\ (j + 1) - 1 = j
          /\ sum[j] = Cardinality(Fewer(T, j))
      BY <1>1, <3>1 DEF n
    <3>3. sum[j + 1] = choose(n, (j + 1) - 1) + sum[(j + 1) - 1]
      BY <1>6, <3>2, Zenon
    <3>4. Cardinality(Fewer(T, j + 1)) = choose(n, (j + 1) - 1) + Cardinality(Fewer(T, (j + 1) - 1))
      BY <1>3, <3>2
    <3>. QED BY <3>2, <3>3, <3>4
  <2>3. A = Nat
    <3>. HIDE DEF A
    <3>1. A \in SUBSET Nat
      BY DEF A
    <3>. QED BY <2>1, <2>2, <3>1, Induction
  <2>. QED BY <2>3
<1>8. k \in 0 .. k
  BY <1>1
<1>9. TailSum(n, k) = sum[k]
  BY DEF TailSum
<1>. HIDE DEF sum, n
<1>. QED BY <1>7, <1>8, <1>9 DEF n

(* The index that medianIntervalIndex finds, which a valid policy has *)
LEMMA IndexFits ==
    LET n == Repetitions
        k == medianIntervalIndex(n, ConfidencePPM)
    IN  k \in 1 .. n /\ TailSum(n, k) * 2 * PPM <= 2^n * (PPM - ConfidencePPM)
<1>. DEFINE n == Repetitions
            fits(k) == TailSum(n, k) * 2 * PPM <= 2^n * (PPM - ConfidencePPM)
            answers == {k \in 1 .. (n + 1) \div 2 : \A j \in 1 .. k : fits(j)}
            K == medianIntervalIndex(n, ConfidencePPM)
<1>1. n \in Nat \ {0} /\ K >= 1
  BY PolicyAssumption DEF ValidateMeasurementPolicy
<1>2. K = IF answers = {} THEN 0 ELSE CHOOSE k \in answers : \A j \in answers : j <= k
  BY DEF medianIntervalIndex
<1>. HIDE DEF fits
<1>3. (n + 1) \div 2 \in 1 .. n
  BY <1>1
<1>4. answers \subseteq 1 .. n /\ IsFiniteSet(answers)
  <2>1. answers \in SUBSET (1 .. n)
    BY <1>1, <1>3
  <2>2. IsFiniteSet(1 .. n)
    BY <1>1, FS_Interval
  <2>. HIDE DEF answers
  <2>. QED BY <2>1, <2>2, FS_Subset, Zenon
<1>5. \A k \in answers : fits(k)
  BY <1>4
<1>. HIDE DEF answers, K
<1>6. answers # {}
  BY <1>1, <1>2
<1>7. \E k \in answers : \A j \in answers : j <= k
  <2>. DEFINE f == [i \in answers |-> i]
  <2>1. f \in [answers -> Int]
    BY <1>1, <1>4
  <2>2. \E k \in answers : \A j \in answers : f[j] <= f[k]
    <3>. HIDE DEF f
    <3>. QED BY <1>4, <1>6, <2>1, Highest, Zenon
  <2>. QED BY <2>2
<1>8. K \in answers
  BY <1>2, <1>6, <1>7, Zenon
<1>9. K \in 1 .. n /\ fits(K)
  BY <1>4, <1>5, <1>8
<1>. QED BY <1>9 DEF fits, K

(* Ratios are ordered by their cross products. *)
LEMMA Scaled ==
    ASSUME NEW a \in Nat, NEW b \in Nat, NEW c \in Nat \ {0}
    PROVE  a <= b <=> a * c <= b * c
OBVIOUS

LEMMA RatioOrder ==
    ASSUME NEW a \in Ratios, NEW b \in Ratios, NEW c \in Ratios
    PROVE  /\ AtMost(a, a) /\ (Less(a, b) => AtMost(a, b))
           /\ AtMost(a, b) /\ AtMost(b, c) => AtMost(a, c)
<1>. DEFINE x == a[1]  X == a[2]  y == b[1]  Y == b[2]  z == c[1]  Z == c[2]
<1>1. {x, X, y, Y, z, Z} \subseteq Nat \ {0}
  BY DEF Ratios
<1>2. /\ AtMost(a, a) <=> x * X <= x * X
      /\ Less(a, b) <=> x * Y < y * X
      /\ AtMost(a, b) <=> x * Y <= y * X
      /\ AtMost(b, c) <=> y * Z <= z * Y
      /\ AtMost(a, c) <=> x * Z <= z * X
  BY <1>1 DEF AtMost, Less
<1>. HIDE DEF x, X, y, Y, z, Z
<1>3. ASSUME x * Y <= y * X, y * Z <= z * Y PROVE x * Z <= z * X
  <2>1. /\ x * Y \in Nat /\ y * X \in Nat /\ y * Z \in Nat /\ z * Y \in Nat
        /\ x * Z \in Nat /\ z * X \in Nat
    BY <1>1
  <2>2. (x * Y) * Z <= (y * X) * Z
    BY <1>1, <1>3, <2>1, Scaled
  <2>3. (y * Z) * X <= (z * Y) * X
    BY <1>1, <1>3, <2>1, Scaled
  <2>4. /\ (x * Y) * Z = (x * Z) * Y /\ (y * X) * Z = (y * Z) * X /\ (z * Y) * X = (z * X) * Y
    BY <1>1
  <2>5. (x * Z) * Y \in Nat /\ (y * Z) * X \in Nat /\ (z * X) * Y \in Nat
    BY <1>1, <2>1
  <2>6. (x * Z) * Y <= (z * X) * Y
    BY <2>2, <2>3, <2>4, <2>5
  <2>. QED BY <1>1, <2>1, <2>6, Scaled
<1>. QED BY <1>1, <1>2, <1>3

(* The members of D whose value is at most, or below, that of i *)
UpTo(D, r, i) == {j \in D : AtMost(r[j], r[i])}
Under(D, r, i) == {j \in D : Less(r[j], r[i])}

LEMMA UpToGrows ==
    ASSUME NEW D, IsFiniteSet(D), NEW r \in [D -> Ratios], NEW i \in D, NEW j \in D, Less(r[i], r[j])
    PROVE  Cardinality(UpTo(D, r, i)) < Cardinality(UpTo(D, r, j))
<1>1. /\ UpTo(D, r, i) \in SUBSET UpTo(D, r, j) /\ j \in UpTo(D, r, j) /\ j \notin UpTo(D, r, i)
  <2>1. \A m \in D : AtMost(r[m], r[i]) => AtMost(r[m], r[j])
    BY RatioOrder
  <2>2. AtMost(r[j], r[j]) /\ ~AtMost(r[j], r[i])
    BY RatioOrder DEF AtMost
  <2>. QED BY <2>1, <2>2 DEF UpTo
<1>2. UpTo(D, r, j) \in SUBSET D
  BY DEF UpTo
<1>3. IsFiniteSet(UpTo(D, r, j))
  BY <1>2, FS_Subset, Zenon
<1>4. /\ IsFiniteSet(UpTo(D, r, i)) /\ Cardinality(UpTo(D, r, i)) <= Cardinality(UpTo(D, r, j))
      /\ Cardinality(UpTo(D, r, j)) # Cardinality(UpTo(D, r, i))
  BY <1>1, <1>3, FS_Subset, Zenon
<1>5. Cardinality(UpTo(D, r, i)) \in Nat /\ Cardinality(UpTo(D, r, j)) \in Nat
  BY <1>3, <1>4, FS_CardinalityType, Zenon
<1>. QED BY <1>4, <1>5

LEMMA CountsAreNatural ==
    ASSUME NEW D, IsFiniteSet(D), NEW S \in SUBSET D
    PROVE  IsFiniteSet(S) /\ Cardinality(S) \in Nat /\ Cardinality(S) <= Cardinality(D)
BY FS_Subset, FS_CardinalityType, Zenon

(* Among finitely many ratios one is the largest. *)
LEMMA Largest ==
    ASSUME NEW D, IsFiniteSet(D), NEW r \in [D -> Ratios], NEW L \in SUBSET D, L # {}
    PROVE  \E j \in L : \A m \in L : AtMost(r[m], r[j])
<1>. DEFINE f == [i \in L |-> Cardinality(UpTo(D, r, i))]
<1>1. IsFiniteSet(L)
  BY CountsAreNatural
<1>2. f \in [L -> Int]
  <2>1. \A i \in L : UpTo(D, r, i) \in SUBSET D
    BY DEF UpTo
  <2>2. \A i \in L : Cardinality(UpTo(D, r, i)) \in Nat
    BY <2>1, CountsAreNatural
  <2>. QED BY <2>2
<1>3. PICK j \in L : \A m \in L : f[m] <= f[j]
  <2>. HIDE DEF f
  <2>. QED BY <1>1, <1>2, Highest
<1>4. ASSUME NEW m \in L, Less(r[j], r[m]) PROVE FALSE
  <2>1. f[j] < f[m]
    BY <1>4, UpToGrows
  <2>2. f[j] \in Int /\ f[m] \in Int /\ f[m] <= f[j]
    BY <1>2, <1>3
  <2>. HIDE DEF f
  <2>. QED BY <2>1, <2>2
<1>. QED BY <1>4 DEF AtMost

(* The k-th smallest exists: fewer than k are below it, k are not above. *)
LEMMA PlaceExists ==
    ASSUME NEW D, IsFiniteSet(D), NEW r \in [D -> Ratios], NEW k \in 1 .. Cardinality(D)
    PROVE  \E i \in D : Cardinality(Under(D, r, i)) < k /\ k <= Cardinality(UpTo(D, r, i))
<1>. DEFINE C == {i \in D : k <= Cardinality(UpTo(D, r, i))}
            f == [i \in C |-> -Cardinality(UpTo(D, r, i))]
<1>1. Cardinality(D) \in Nat /\ k \in Nat /\ k >= 1 /\ k <= Cardinality(D)
  <2>1. Cardinality(D) \in Nat
    BY FS_CardinalityType
  <2>. QED BY <2>1
<1>2. \A i \in D : /\ UpTo(D, r, i) \in SUBSET D /\ Under(D, r, i) \in SUBSET D
                   /\ Cardinality(UpTo(D, r, i)) \in Nat /\ Cardinality(Under(D, r, i)) \in Nat
  <2>1. \A i \in D : UpTo(D, r, i) \in SUBSET D /\ Under(D, r, i) \in SUBSET D
    BY DEF UpTo, Under
  <2>. QED BY <2>1, CountsAreNatural
<1>3. D # {}
  BY <1>1, FS_EmptySet
<1>4. C # {}
  <2>1. PICK j \in D : \A m \in D : AtMost(r[m], r[j])
    BY <1>3, Largest
  <2>2. UpTo(D, r, j) = D
    BY <2>1 DEF UpTo
  <2>. QED BY <1>1, <2>2
<1>5. IsFiniteSet(C)
  BY CountsAreNatural
<1>6. f \in [C -> Int]
  BY <1>2
<1>7. PICK i \in C : \A m \in C : f[m] <= f[i]
  <2>. HIDE DEF f, C
  <2>. QED BY <1>4, <1>5, <1>6, Highest
<1>8. ASSUME Cardinality(Under(D, r, i)) >= k PROVE FALSE
  <2>. DEFINE L == Under(D, r, i)
  <2>1. L \in SUBSET D /\ L # {}
    BY <1>1, <1>2, <1>8, FS_EmptySet
  <2>2. PICK j \in L : \A m \in L : AtMost(r[m], r[j])
    <3>. HIDE DEF L
    <3>. QED BY <2>1, Largest
  <2>3. j \in D /\ Less(r[j], r[i])
    BY <2>2 DEF Under
  <2>4. L \in SUBSET UpTo(D, r, j)
    BY <2>1, <2>2 DEF UpTo
  <2>5. Cardinality(L) <= Cardinality(UpTo(D, r, j))
    <3>1. IsFiniteSet(UpTo(D, r, j))
      BY <1>2, <2>3, CountsAreNatural
    <3>. HIDE DEF L
    <3>. QED BY <2>4, <3>1, CountsAreNatural
  <2>6. j \in C
    BY <1>1, <1>2, <1>8, <2>3, <2>5
  <2>7. Cardinality(UpTo(D, r, j)) < Cardinality(UpTo(D, r, i))
    BY <2>3, UpToGrows
  <2>8. -Cardinality(UpTo(D, r, j)) <= -Cardinality(UpTo(D, r, i))
    BY <1>7, <2>6
  <2>. QED BY <1>2, <2>3, <2>7, <2>8
<1>. QED BY <1>1, <1>2, <1>8

LEMMA IntervalSize ==
    ASSUME NEW n \in Nat
    PROVE  IsFiniteSet(1 .. n) /\ Cardinality(1 .. n) = n
<1>1. 1 \in Int /\ n \in Int /\ (IF 1 > n THEN 0 ELSE n - 1 + 1) = n
  OBVIOUS
<1>2. IsFiniteSet(1 .. n) /\ Cardinality(1 .. n) = IF 1 > n THEN 0 ELSE n - 1 + 1
  BY <1>1, FS_Interval, Zenon
<1>. QED BY <1>1, <1>2

(* Fewer than k trials are below the k-th order statistic. *)
LEMMA StatisticPlaced ==
    ASSUME NEW s, DOMAIN s = 1 .. Len(s), Len(s) \in Nat,
           \A i \in DOMAIN s : Ratio(s[i]) \in Ratios, NEW k \in 1 .. Len(s)
    PROVE  Cardinality({j \in DOMAIN s : Less(Ratio(s[j]), OrderStatistic(s, k))}) < k
<1>. DEFINE D == DOMAIN s
            r == [i \in D |-> Ratio(s[i])]
            below(i) == Cardinality({j \in D : Less(Ratio(s[j]), Ratio(s[i]))})
            upto(i) == Cardinality({j \in D : AtMost(Ratio(s[j]), Ratio(s[i]))})
            c == CHOOSE i \in D : below(i) < k /\ k <= upto(i)
<1>1. IsFiniteSet(D) /\ Cardinality(D) = Len(s) /\ r \in [D -> Ratios]
  <2>1. r \in [D -> Ratios]
    OBVIOUS
  <2>. QED BY <2>1, IntervalSize
<1>2. \E i \in D : below(i) < k /\ k <= upto(i)
  <2>1. PICK i \in D : Cardinality(Under(D, r, i)) < k /\ k <= Cardinality(UpTo(D, r, i))
    <3>. HIDE DEF D, r
    <3>. QED BY <1>1, PlaceExists
  <2>2. /\ Under(D, r, i) = {j \in D : Less(Ratio(s[j]), Ratio(s[i]))}
        /\ UpTo(D, r, i) = {j \in D : AtMost(Ratio(s[j]), Ratio(s[i]))}
    BY DEF Under, UpTo
  <2>. HIDE DEF D, r
  <2>. QED BY <2>1, <2>2
<1>3. c \in D /\ below(c) < k
  <2>. HIDE DEF below, upto, D
  <2>. QED BY <1>2
<1>4. OrderStatistic(s, k) = Ratio(s[c])
  BY DEF OrderStatistic
<1>. HIDE DEF c
<1>. QED BY <1>3, <1>4

LEMMA PowerIsNatural == \A n \in Nat : 2^n \in Nat
<1>. TAKE n \in Nat
<1>1. IsFiniteSet(1 .. n) /\ Cardinality(1 .. n) = n
  BY IntervalSize
<1>2. IsFiniteSet(SUBSET (1 .. n)) /\ Cardinality(SUBSET (1 .. n)) = 2^n
  BY <1>1, FS_SUBSET
<1>. QED BY <1>2, FS_CardinalityType

(* The lower bound of a complete schedule holds with the requested confidence. *)
LEMMA LowerIsConfident ==
    ASSUME pairs \in Seq(Trial), Len(pairs) = Pairs
    PROVE  WithinConfidence(SummarizeTimings(SubSeq(pairs, Warmups + 1, Pairs)).lower)
<1>. DEFINE s == SubSeq(pairs, Warmups + 1, Pairs)
            n == Repetitions
            k == medianIntervalIndex(n, ConfidencePPM)
            value == OrderStatistic(s, k)
            T == Warmups + 1 .. Pairs
            B == {i \in T : Less(Ratio(pairs[i]), value)}
            C == {j \in 1 .. n : Less(Ratio(s[j]), value)}
            few == {S \in SUBSET T : Cardinality(S) <= Cardinality(B)}
<1>1. /\ Warmups \in Nat /\ n \in Nat \ {0} /\ Pairs = Warmups + n /\ Pairs \in Nat
      /\ ConfidencePPM \in 1 .. PPM - 1
  BY PolicyAssumption, PairCount DEF ValidateMeasurementPolicy
<1>2. k \in 1 .. n /\ TailSum(n, k) * 2 * PPM <= 2^n * (PPM - ConfidencePPM)
  BY IndexFits
<1>3. SummarizeTimings(s).lower = value
  BY DEF SummarizeTimings
<1>. HIDE DEF k
<1>4. /\ Len(s) = n /\ DOMAIN s = 1 .. n /\ \A j \in 1 .. n : s[j] = pairs[Warmups + j]
  BY <1>1
<1>5. \A i \in 1 .. Pairs : Ratio(pairs[i]) \in Ratios
  <2>1. \A i \in 1 .. Pairs : pairs[i] \in Trial
    OBVIOUS
  <2>2. \A t \in Trial : t.base \in Nat \ {0} /\ t.cand \in Nat \ {0}
    BY ProgramAssumption DEF Trial
  <2>. QED BY <2>1, <2>2 DEF Ratio, Ratios
<1>6. \A j \in DOMAIN s : Ratio(s[j]) \in Ratios
  <2>1. \A j \in 1 .. n : Warmups + j \in 1 .. Pairs
    BY <1>1
  <2>. HIDE DEF s
  <2>. QED BY <1>4, <1>5, <2>1
<1>7. Cardinality(C) < k
  <2>1. DOMAIN s = 1 .. Len(s) /\ Len(s) \in Nat /\ k \in 1 .. Len(s)
    BY <1>1, <1>2, <1>4
  <2>2. C = {j \in DOMAIN s : Less(Ratio(s[j]), OrderStatistic(s, k))}
    BY <1>4
  <2>. HIDE DEF s, C
  <2>. QED BY <1>6, <2>1, <2>2, StatisticPlaced
<1>. HIDE DEF value, s
<1>8. IsFiniteSet(B) /\ Cardinality(B) \in Nat /\ Cardinality(B) < k
  <2>. DEFINE f == [i \in B |-> i - Warmups]
  <2>1. \A i \in B : i - Warmups \in C
    <3>. TAKE i \in B
    <3>1. i - Warmups \in 1 .. n /\ Warmups + (i - Warmups) = i
      BY <1>1
    <3>. QED BY <1>4, <3>1
  <2>2. f \in Injection(B, C)
    <3>1. f \in [B -> C]
      BY <2>1
    <3>2. \A i, j \in B : f[i] = f[j] => i = j
      BY <1>1
    <3>. HIDE DEF f, B, C
    <3>. QED BY <3>1, <3>2 DEF Injection, IsInjective
  <2>3. IsFiniteSet(C) /\ Cardinality(C) \in Nat
    <3>1. IsFiniteSet(1 .. n) /\ C \in SUBSET (1 .. n)
      BY <1>1, IntervalSize
    <3>. HIDE DEF C
    <3>. QED BY <3>1, CountsAreNatural
  <2>4. IsFiniteSet(B) /\ Cardinality(B) <= Cardinality(C)
    <3>. HIDE DEF f, B, C
    <3>. QED BY <2>2, <2>3, FS_Injection, Zenon
  <2>5. Cardinality(B) \in Nat
    BY <2>4, FS_CardinalityType, Zenon
  <2>. HIDE DEF B, C
  <2>. QED BY <1>1, <1>2, <1>7, <2>3, <2>4, <2>5
<1>9. IsFiniteSet(T) /\ Cardinality(T) = n
  <2>1. Warmups + 1 \in Int /\ Pairs \in Int /\ ~(Warmups + 1 > Pairs) /\ Pairs - (Warmups + 1) + 1 = n
    BY <1>1
  <2>2. IsFiniteSet(T) /\ Cardinality(T) = Pairs - (Warmups + 1) + 1
    BY <2>1, FS_Interval, Zenon
  <2>. QED BY <2>1, <2>2
<1>10. TailSum(n, k) = Cardinality(Fewer(T, k))
  <2>1. k \in 0 .. Cardinality(T) + 1
    BY <1>1, <1>2, <1>9
  <2>. HIDE DEF T
  <2>. QED BY <1>9, <2>1, TailCounts
<1>11. Cardinality(few) \in Nat /\ TailSum(n, k) \in Nat /\ Cardinality(few) <= TailSum(n, k)
  <2>1. \A S \in SUBSET T : Cardinality(S) \in Nat
    BY <1>9, CountsAreNatural
  <2>2. few \in SUBSET Fewer(T, k)
    <3>. HIDE DEF B
    <3>. QED BY <1>1, <1>2, <1>8, <2>1 DEF Fewer
  <2>3. IsFiniteSet(Fewer(T, k)) /\ Cardinality(Fewer(T, k)) \in Nat
    <3>1. k \in Int
      BY <1>1, <1>2
    <3>. HIDE DEF T
    <3>. QED BY <1>9, <3>1, SubsetsFinite
  <2>. HIDE DEF few
  <2>. QED BY <1>10, <2>2, <2>3, CountsAreNatural
<1>12. Cardinality(few) * 2 * PPM <= 2^n * (PPM - ConfidencePPM)
  <2>. DEFINE a == Cardinality(few)
              b == TailSum(n, k)
              bound == 2^n * (PPM - ConfidencePPM)
  <2>1. PPM \in Nat \ {0}
    BY DEF PPM
  <2>2. bound \in Int
    <3>1. 2^n \in Nat
      BY <1>1, PowerIsNatural
    <3>2. \A x \in Nat, y \in Int : x * y \in Int
      OBVIOUS
    <3>3. PPM - ConfidencePPM \in Int
      BY <1>1, <2>1
    <3>. QED BY <3>1, <3>2, <3>3, Zenon
  <2>3. a \in Nat /\ b \in Nat /\ a <= b /\ b * 2 * PPM <= bound
    BY <1>2, <1>11
  <2>. HIDE DEF a, b, bound
  <2>4. a * 2 \in Nat /\ b * 2 \in Nat /\ a * 2 <= b * 2
    BY <2>3
  <2>5. a * 2 * PPM <= b * 2 * PPM
    BY <2>1, <2>4, Scaled
  <2>6. a * 2 * PPM \in Int /\ b * 2 * PPM \in Int
    BY <2>1, <2>3
  <2>7. a * 2 * PPM <= bound
    BY <2>2, <2>3, <2>5, <2>6
  <2>. QED BY <2>7 DEF a, bound
<1>13. WithinConfidence(value)
  BY <1>12 DEF WithinConfidence
<1>. QED BY <1>3, <1>13 DEF s

(* A score on the console or in the receipt is within the confidence: the trials  *)
(* it was computed from are not touched again, as the broker is done.             *)
Worthy(value) == value # NoScore => WithinConfidence(value)
WorthInv == measured => Worthy(console.frame.score) /\ Worthy(score)

LEMMA WorthKept ==
    ASSUME WorthInv, UNCHANGED <<measured, pairs, console, score>> PROVE WorthInv'
BY DEF WorthInv, Worthy, WithinConfidence

LEMMA ReportWorth ==
    ASSUME Limits, WorthInv, Report PROVE WorthInv'
<1>1. UNCHANGED <<measured, pairs, score>>
  BY DEF Report, broker, program, host
<1>2. PICK file : console'.frame \in {NoFrame, GuestReport(file)}
  BY DEF Report
<1>3. ASSUME measured, GuestReport(file).score # NoScore
      PROVE  WithinConfidence(GuestReport(file).score)
  <2>1. GuestReport(file) = ResultFrame(file)
    BY <1>3 DEF GuestReport, NoFrame, Frame
  <2>2. /\ EvidenceComplete
        /\ ResultFrame(file).score = SummarizeTimings(SubSeq(pairs, Warmups + 1, Pairs)).lower
    BY <1>3, <2>1 DEF ResultFrame, Frame
  <2>3. Len(pairs) = Pairs /\ pairs \in Seq(Trial)
    BY <2>2 DEF EvidenceComplete, Limits
  <2>. QED BY <2>1, <2>2, <2>3, LowerIsConfident
<1>4. NoFrame.score = NoScore
  BY DEF NoFrame, Frame
<1>5. ASSUME measured PROVE Worthy(console'.frame.score) /\ Worthy(score)
  BY <1>2, <1>3, <1>4, <1>5 DEF Worthy, WorthInv
<1>6. \A value : Worthy(value) => Worthy(value)'
  BY <1>1 DEF Worthy, WithinConfidence
<1>. QED BY <1>1, <1>5, <1>6 DEF WorthInv

LEMMA WorthStep == FaultInv /\ WholeInv /\ Limits /\ WorthInv /\ [Next]_vars => WorthInv'
<1>. SUFFICES ASSUME FaultInv, WholeInv, Limits, WorthInv, [Next]_vars PROVE WorthInv'
  OBVIOUS
<1>1. CASE \/ UNCHANGED vars \/ Done \/ StartMachine \/ Boot
           \/ Expire \/ CheckerExits \/ CheckerUnstarted \/ KillChecker \/ Drain
  <2>1. UNCHANGED <<measured, pairs, console, score>>
    BY <1>1 DEF Done, vars, guest, host, broker, program, StartMachine, Boot, Expire, CheckerExits,
                CheckerUnstarted, KillChecker, Drain
  <2>. QED BY <2>1, WorthKept
<1>2. CASE Report
  BY <1>2, ReportWorth
<1>3. CASE \E end \in Ends : Finish(end)
  <2>1. PICK end \in Ends : Finish(end)
    BY <1>3
  <2>2. /\ UNCHANGED <<measured, pairs, console>>
        /\ score' \in {Receipt(end).score, NoScore}
    BY <2>1 DEF Finish, broker, program, guest
  <2>3. Receipt(end).score \in {NoScore, console.frame.score}
    BY DEF Receipt, Frame
  <2>4. measured => Worthy(console.frame.score) /\ Worthy(score')
    BY <2>2, <2>3 DEF WorthInv, Worthy
  <2>. QED BY <2>2, <2>4 DEF WorthInv, Worthy, WithinConfidence
<1>4. CASE \/ AcceptBuild \/ EndBuild \/ EndBaselineBuild \/ AcceptRun \/ EndRun
           \/ AcceptPair \/ EndFirst \/ EndSecond \/ (\E passed \in BOOLEAN : Assess(passed))
           \/ BrokerStops \/ ListenerFails
  <2>1. outcome = None /\ init # "printed" /\ UNCHANGED <<guest, host>>
    BY <1>4 DEF AcceptBuild, EndBuild, EndBaselineBuild, AcceptRun, EndRun, AcceptPair, EndFirst,
                EndSecond, Assess, BrokerStops, ListenerFails, Alive
  <2>2. console'.frame.score = NoScore /\ score' = NoScore
    BY <2>1 DEF FaultInv, Remembered, guest, host, NoFrame, Frame, WholeInv, FrameInv
  <2>. QED BY <2>2 DEF WorthInv, Worthy
<1>5. CASE SetupFails \/ BootFails
  <2>1. /\ UNCHANGED <<measured, pairs>> /\ score' \in {score, NoScore}
        /\ console'.frame.score \in {console.frame.score, NoScore}
    BY <1>5 DEF SetupFails, BootFails, guest, host, broker, program, NoFrame, Frame
  <2>. QED BY <2>1 DEF WorthInv, Worthy, WithinConfidence
<1>. QED BY <1>1, <1>2, <1>3, <1>4, <1>5 DEF Next

(* A signed score of a measured run is a lower bound of the median ratio at the   *)
(* requested confidence, for every number of repetitions, every confidence the    *)
(* policy may ask for and all times: the binomial tail that is summed counts the  *)
(* splits with fewer trials on one side than the index, and fewer trials than the *)
(* index are below the order statistic taken (medianIntervalIndex,                *)
(* SummarizeTimings, GuestInit, runJob).                                          *)
THEOREM ScoresAreConfident == Spec => []ScoreIsConfident
<1>1. Init => WorthInv
  BY DEF Init, WorthInv, Worthy, NoFrame, Frame
<1>2. WorthInv => ScoreIsConfident
  BY DEF WorthInv, Worthy, ScoreIsConfident
<1>3. LimitInv => Limits
  BY DEF LimitInv
<1>4. LimitInv /\ WholeInv /\ [Next]_vars => LimitInv'
  BY ControlStep, LimitStep DEF LimitInv, WholeInv
<1>. QED BY <1>1, <1>2, <1>3, <1>4, LimitInit, FaultInit, FaultStep, WholeInit, WholeStep, WorthStep,
            PTL DEF Spec

----------------------------------------------------------------------------
(* That a session ends: every step uses up some of a finite number, and until  *)
(* the end one is due.                                                         *)

(* What is printed has an outcome, PID 1 cancels before it waits, and there is   *)
(* no checker and no timer before there is a session.                            *)
EndInv ==
    /\ console.frame.outcome = None => console.frame = NoFrame
    /\ init = "draining" => cancelled
    /\ init \in {"off", "booting"} => checker = "running" /\ ~expired

LEMMA EndInit == Init => EndInv
BY DEF Init, EndInv

LEMMA FrameNamed ==
    ASSUME NEW file, GuestReport(file).outcome = None
    PROVE  GuestReport(file) = NoFrame
<1>. SUFFICES ASSUME ~fault, GuestReport(file) # NoFrame PROVE FALSE
  BY DEF GuestReport
<1>1. \A o, x : Frame(o, x).outcome = o
  BY DEF Frame
<1>2. ResultFrame(file).outcome = None
  BY <1>1 DEF GuestReport, None
<1>. DEFINE summary == SummarizeTimings(SubSeq(pairs, Warmups + 1, Pairs))
<1>3. summary.outcome # None
  BY DEF SummarizeTimings, None
<1>. HIDE DEF summary
<1>4. ResultFrame(file).outcome \in {"invalid_output", "hard_gate_failed", summary.outcome, "valid"}
  BY <1>1 DEF ResultFrame, summary
<1>. QED BY <1>2, <1>3, <1>4 DEF None

LEMMA EndStep == EndInv /\ [Next]_vars => EndInv'
<1>. SUFFICES ASSUME EndInv, [Next]_vars PROVE EndInv'
  OBVIOUS
<1>1. CASE UNCHANGED <<console, init, cancelled, checker, expired>>
  BY <1>1 DEF EndInv
<1>2. CASE Report
  <2>1. PICK file : console'.frame \in {NoFrame, GuestReport(file)}
    BY <1>2 DEF Report
  <2>2. init' = "printed"
    BY <1>2 DEF Report
  <2>. QED BY <2>1, <2>2, FrameNamed DEF EndInv
<1>3. CASE Drain
  BY <1>3 DEF Drain, EndInv
<1>4. CASE Expire \/ CheckerExits \/ CheckerUnstarted \/ KillChecker
  BY <1>4 DEF Expire, CheckerExits, CheckerUnstarted, KillChecker, Alive, guest, EndInv
<1>5. CASE StartMachine \/ Boot
  BY <1>5 DEF StartMachine, Boot, EndInv
<1>6. CASE BootFails
  BY <1>6 DEF BootFails, EndInv
<1>. QED BY <1>1, <1>2, <1>3, <1>4, <1>5, <1>6
     DEF Next, AcceptBuild, EndBuild, EndBaselineBuild, AcceptRun, EndRun, AcceptPair, EndFirst,
         EndSecond, Assess, BrokerStops, ListenerFails, SetupFails, Finish, Done, vars, guest

LEMMA Ranks ==
    /\ StepsOfBroker["done"] = 0 /\ StepsOfBroker["second"] = 1 /\ StepsOfBroker["first"] = 2
    /\ StepsOfBroker["idle"] = 3 /\ StepsOfBroker["run"] = 4 /\ StepsOfBroker["baseline"] = 4
    /\ StepsOfBroker["build"] = 5
    /\ StepsOfInit["printed"] = 0 /\ StepsOfInit["draining"] = 1 /\ StepsOfInit["waiting"] = 2
    /\ StepsOfInit["booting"] = 3 /\ StepsOfInit["off"] = 4
    /\ Once(TRUE) = 1 /\ Once(FALSE) = 0
BY DEF StepsOfBroker, StepsOfInit, Once

Counted == StepsLeft \in Nat

LEMMA StepsCounted == LimitInv => Counted
<1>. SUFFICES ASSUME LimitInv PROVE Counted
  OBVIOUS
<1>1. \A p : Once(p) \in {0, 1}
  BY DEF Once
<1>2. StepsOfBroker[serving] \in 0 .. 5 /\ StepsOfInit[init] \in 0 .. 4
  BY Ranks DEF LimitInv, Controls, Servings
<1>3. MaxRuns \in Nat /\ runs \in 0 .. MaxRuns
  BY ProgramAssumption DEF LimitInv, Limits
<1>. QED BY <1>1, <1>2, <1>3 DEF StepsLeft, Counted

(* The end of an execution or of the broker's loop: it has less to do. *)
LEMMA ServingEnds ==
    ASSUME EndBuild \/ EndBaselineBuild \/ EndRun \/ EndFirst \/ BrokerStops \/ ListenerFails
    PROVE  /\ UNCHANGED <<runs, built, pending, expired, checker, init, outcome>>
           /\ StepsOfBroker[serving'] < StepsOfBroker[serving]
<1>1. UNCHANGED <<runs, built, pending, expired, checker, init, outcome>>
  BY DEF EndBuild, EndBaselineBuild, EndRun, EndFirst, BrokerStops, ListenerFails, BreakDown,
         program, guest, host
<1>2. \A s, r : SealProgram(s, r) => serving' \in {"idle", "done"}
  BY Zenon DEF SealProgram, BreakDown
<1>3. \/ serving = "build" /\ serving' \in {"idle", "baseline", "done"}
      \/ serving = "baseline" /\ serving' \in {"idle", "done"}
      \/ serving = "run" /\ serving' \in {"idle", "done"}
      \/ serving = "first" /\ serving' \in {"second", "done"}
      \/ serving = "idle" /\ serving' = "done"
  BY <1>2 DEF EndBuild, EndBaselineBuild, EndRun, EndFirst, BrokerStops, ListenerFails, BreakDown
<1>. QED BY <1>1, <1>3, Ranks

LEMMA Sums ==
    /\ \A w, v, w2, v2 \in Int :
           (w2 < w /\ v2 = v) \/ (w2 = w /\ v2 < v) => w2 + v2 < w + v
    /\ \A r, b, p, s, s2 \in Int :
           s2 < s => 2 * r + 3 * b + p + s2 < 2 * r + 3 * b + p + s
    /\ \A r, b, p, p2 \in Int :
           p2 <= p + 1 => 2 * (r - 2) + 3 * b + p2 + 3 < 2 * r + 3 * b + p + 1
    /\ \A e, c, i, a, i2 \in Int : i2 < i => e + c + i2 + a < e + c + i + a
OBVIOUS

LEMMA StepsShrink ==
    ASSUME LimitInv, LimitInv', EndInv, Next, ~Done
    PROVE  StepsLeft' < StepsLeft
<1>. DEFINE R == MaxRuns - runs
            B == Once(~built)
            P == Once(pending)
            S == StepsOfBroker[serving]
            E == Once(~expired)
            C == Once(checker = "running")
            I == StepsOfInit[init]
            A == Once(outcome = None)
            W == 2 * R + 3 * B + P + S
            V == E + C + I + A
<1>3. \A p : Once(p) \in {0, 1}
  BY DEF Once
<1>4. /\ R \in Nat /\ B \in {0, 1} /\ P \in {0, 1} /\ S \in 0 .. 5 /\ E \in {0, 1}
      /\ C \in {0, 1} /\ I \in 0 .. 4 /\ A \in {0, 1}
  BY <1>3, Ranks, ProgramAssumption DEF LimitInv, Controls, Servings, Limits
<1>5. /\ R' \in Nat /\ B' \in {0, 1} /\ P' \in {0, 1} /\ S' \in 0 .. 5 /\ E' \in {0, 1}
      /\ C' \in {0, 1} /\ I' \in 0 .. 4 /\ A' \in {0, 1}
  BY <1>3, Ranks, ProgramAssumption DEF LimitInv, Controls, Servings, Limits
<1>6. /\ UNCHANGED runs => R' = R
      /\ UNCHANGED built => B' = B
      /\ UNCHANGED pending => P' = P
      /\ UNCHANGED serving => S' = S
      /\ UNCHANGED expired => E' = E
      /\ UNCHANGED checker => C' = C
      /\ UNCHANGED init => I' = I
      /\ UNCHANGED outcome => A' = A
  OBVIOUS
<1>0. /\ R \in Int /\ B \in Int /\ P \in Int /\ S \in Int /\ E \in Int /\ C \in Int
      /\ I \in Int /\ A \in Int /\ R' \in Int /\ S' \in Int /\ I' \in Int
  <2>. HIDE DEF R, B, P, S, E, C, I, A
  <2>. QED BY <1>4, <1>5
<1>1. W \in Int /\ W' \in Int /\ V \in Int /\ V' \in Int
  <2>. HIDE DEF R, B, P, S, E, C, I, A
  <2>. QED BY <1>4, <1>5
<1>2. StepsLeft = W + V /\ StepsLeft' = W' + V'
  <2>1. StepsLeft = 2 * R + 3 * B + P + S + E + C + I + A
    BY DEF StepsLeft
  <2>2. StepsLeft' = 2 * R' + 3 * B' + P' + S' + E' + C' + I' + A'
    BY DEF StepsLeft
  <2>. HIDE DEF R, B, P, S, E, C, I, A
  <2>. QED BY <1>4, <1>5, <2>1, <2>2
<1>. SUFFICES (W' < W /\ V' = V) \/ (W' = W /\ V' < V)
  <2>. HIDE DEF W, V
  <2>. QED BY <1>1, <1>2, Sums
<1>7. CASE EndBuild \/ EndBaselineBuild \/ EndRun \/ EndFirst \/ BrokerStops \/ ListenerFails
  <2>1. S' < S
    BY <1>7, ServingEnds
  <2>2. R' = R /\ B' = B /\ P' = P /\ E' = E /\ C' = C /\ I' = I /\ A' = A
    BY <1>6, <1>7, ServingEnds
  <2>. HIDE DEF R, B, P, S, E, C, I, A
  <2>3. W' < W
    BY <1>0, <2>1, <2>2, Sums
  <2>4. V' = V
    BY <2>1, <2>2
  <2>. QED BY <2>3, <2>4
<1>8. CASE AcceptBuild
  <2>1. B = 1 /\ B' = 0 /\ S = 3 /\ S' = 5
    BY <1>8, Ranks DEF AcceptBuild
  <2>2. R' = R /\ P' = P /\ E' = E /\ C' = C /\ I' = I /\ A' = A
    BY <1>6, <1>8 DEF AcceptBuild, guest, host
  <2>. HIDE DEF R, B, P, S, E, C, I, A
  <2>3. W' < W
    BY <1>4, <1>5, <2>1, <2>2
  <2>4. V' = V
    BY <2>1, <2>2
  <2>. QED BY <2>3, <2>4
<1>9. CASE AcceptRun
  <2>1. R' = R - 1 /\ S = 3 /\ S' = 4
    BY <1>9, Ranks, ProgramAssumption DEF AcceptRun, LimitInv, Limits
  <2>2. B' = B /\ P' = P /\ E' = E /\ C' = C /\ I' = I /\ A' = A
    BY <1>6, <1>9 DEF AcceptRun, guest, host
  <2>. HIDE DEF R, B, P, S, E, C, I, A
  <2>3. W' < W
    BY <1>4, <1>5, <2>1, <2>2
  <2>4. V' = V
    BY <2>1, <2>2
  <2>. QED BY <2>3, <2>4
<1>10. CASE AcceptPair
  <2>1. S = 3 /\ S' = 2
    BY <1>10, Ranks DEF AcceptPair
  <2>2. R' = R /\ B' = B /\ P' = P /\ E' = E /\ C' = C /\ I' = I /\ A' = A
    BY <1>6, <1>10 DEF AcceptPair, guest, host
  <2>. HIDE DEF R, B, P, S, E, C, I, A
  <2>3. W' < W
    BY <1>4, <1>5, <2>1, <2>2
  <2>4. V' = V
    BY <2>1, <2>2
  <2>. QED BY <2>3, <2>4
<1>11. CASE EndSecond
  <2>1. \/ R' = R - 2 /\ S = 1 /\ S' = 3
        \/ R' = R /\ P' = P /\ S = 1 /\ S' = 0
    <3>1. serving = "second"
      BY <1>11 DEF EndSecond
    <3>2. \/ runs' = runs + 2 /\ serving' = "idle"
          \/ UNCHANGED <<runs, pending>> /\ serving' = "done"
      BY <1>11 DEF EndSecond, BreakDown
    <3>3. runs' = runs + 2 => R' = R - 2
      BY ProgramAssumption DEF LimitInv, Limits
    <3>. QED BY <1>6, <3>1, <3>2, <3>3, Ranks
  <2>2. B' = B /\ E' = E /\ C' = C /\ I' = I /\ A' = A
    BY <1>6, <1>11 DEF EndSecond, guest, host
  <2>. HIDE DEF R, B, P, S, E, C, I, A
  <2>3. P' <= P + 1 /\ P' \in Int
    BY <1>4, <1>5
  <2>4. W' < W
    <3>1. CASE R' = R - 2 /\ S = 1 /\ S' = 3
      BY <1>0, <2>2, <2>3, <3>1, Sums
    <3>2. CASE R' = R /\ P' = P /\ S = 1 /\ S' = 0
      BY <1>0, <2>2, <3>2
    <3>. QED BY <2>1, <3>1, <3>2
  <2>5. V' = V
    BY <2>2
  <2>. QED BY <2>4, <2>5
<1>12. CASE \E passed \in BOOLEAN : Assess(passed)
  <2>1. P = 1 /\ P' = 0
    BY <1>12, Ranks, Zenon DEF Assess, Once
  <2>2. R' = R /\ B' = B /\ S' = S /\ E' = E /\ C' = C /\ I' = I /\ A' = A
    BY <1>6, <1>12 DEF Assess, guest, host
  <2>. HIDE DEF R, B, P, S, E, C, I, A
  <2>3. W' < W
    BY <1>4, <1>5, <2>1, <2>2
  <2>4. V' = V
    BY <2>1, <2>2
  <2>. QED BY <2>3, <2>4
<1>13. CASE Expire
  <2>1. E = 1 /\ E' = 0
    BY <1>13, Ranks DEF Expire
  <2>2. R' = R /\ B' = B /\ P' = P /\ S' = S /\ C' = C /\ I' = I /\ A' = A
    BY <1>6, <1>13 DEF Expire, broker, program, guest, host
  <2>. HIDE DEF R, B, P, S, E, C, I, A
  <2>3. W' = W
    BY <2>1, <2>2
  <2>4. V' < V
    BY <1>4, <1>5, <2>1, <2>2
  <2>. QED BY <2>3, <2>4
<1>14. CASE CheckerExits \/ CheckerUnstarted \/ KillChecker
  <2>1. C = 1 /\ C' = 0
    BY <1>14 DEF CheckerExits, CheckerUnstarted, KillChecker, Once
  <2>2. R' = R /\ B' = B /\ P' = P /\ S' = S /\ E' = E /\ I' = I /\ A' = A
    BY <1>6, <1>14 DEF CheckerExits, CheckerUnstarted, KillChecker, broker, program, host
  <2>. HIDE DEF R, B, P, S, E, C, I, A
  <2>3. W' = W
    BY <2>1, <2>2
  <2>4. V' < V
    BY <1>4, <1>5, <2>1, <2>2
  <2>. QED BY <2>3, <2>4
<1>15. CASE StartMachine \/ Boot \/ BootFails \/ Drain \/ Report
  <2>1. I' < I
    BY <1>15, Ranks DEF StartMachine, Boot, BootFails, Drain, Report
  <2>2. R' = R /\ B' = B /\ P' = P /\ S' = S /\ E' = E /\ C' = C /\ A' = A
    BY <1>6, <1>15 DEF StartMachine, Boot, BootFails, Drain, Report, broker, program, host
  <2>. HIDE DEF R, B, P, S, E, C, I, A
  <2>3. W' = W
    BY <2>1, <2>2
  <2>4. V' < V
    BY <1>0, <2>1, <2>2, Sums
  <2>. QED BY <2>3, <2>4
<1>16. CASE SetupFails \/ \E end \in Ends : Finish(end)
  <2>1. outcome = None /\ outcome' # None
    <3>0. CASE SetupFails
      BY <3>0 DEF SetupFails, None
    <3>. SUFFICES ASSUME \E end \in Ends : Finish(end) PROVE outcome = None /\ outcome' # None
      BY <1>16, <3>0
    <3>1. PICK end \in Ends : Finish(end)
      OBVIOUS
    <3>2. Receipt(end).outcome # None
      BY DEF Receipt, Frame, None, EndInv
    <3>. QED BY <3>1, <3>2 DEF Finish, None
  <2>2. A = 1 /\ A' = 0
    BY <2>1 DEF Once
  <2>3. R' = R /\ B' = B /\ P' = P /\ S' = S /\ E' = E /\ C' = C /\ I' = I
    BY <1>6, <1>16 DEF SetupFails, Finish, broker, program, guest
  <2>. HIDE DEF R, B, P, S, E, C, I, A
  <2>4. W' = W
    BY <2>2, <2>3
  <2>5. V' < V
    BY <1>4, <1>5, <2>2, <2>3
  <2>. QED BY <2>4, <2>5
<1>. QED BY <1>7, <1>8, <1>9, <1>10, <1>11, <1>12, <1>13, <1>14, <1>15, <1>16 DEF Next

LEMMA SessionInvariant == Spec => [](LimitInv /\ EndInv)
<1>1. LimitInv /\ WholeInv /\ [Next]_vars => LimitInv'
  BY ControlStep, LimitStep DEF LimitInv, WholeInv
<1>. QED BY <1>1, LimitInit, FaultInit, FaultStep, WholeInit, WholeStep, EndInit, EndStep, PTL DEF Spec

(* A session is finite, for any number of runs, repetitions and failures: every   *)
(* step uses up some of a number that it starts with (the broker's counters, the  *)
(* single build, PID 1).                                                          *)
THEOREM SessionsAreFinite == Spec => SessionShrinks
<1>1. ASSUME LimitInv, LimitInv', EndInv, [Next]_vars, Counted, Counted'
      PROVE  [StepsLeft' < StepsLeft /\ {StepsLeft, StepsLeft'} \subseteq Nat]_vars
  <2>1. StepsLeft \in Nat /\ StepsLeft' \in Nat
    BY <1>1 DEF Counted
  <2>2. CASE UNCHANGED vars
    BY <2>2
  <2>3. CASE ~UNCHANGED vars
    <3>1. Next /\ ~Done
      BY <1>1, <2>3 DEF Done
    <3>2. StepsLeft' < StepsLeft
      BY <1>1, <3>1, StepsShrink
    <3>. QED BY <2>1, <3>2
  <2>. QED BY <2>2, <2>3
<1>. QED BY <1>1, SessionInvariant, StepsCounted, PTL DEF Spec, SessionShrinks

(* Nor does it stand still before its end: PID 1, the broker and the checker's    *)
(* requests never wait for each other (Drain cancels the broker it waits for).    *)
THEOREM SomeoneAlwaysMoves == Spec => []SomeoneMoves
<1>1. LimitInv /\ EndInv => SomeoneMoves
  BY DEF LimitInv, Controls, EndInv, SomeoneMoves, ctxDone
<1>. QED BY <1>1, SessionInvariant, PTL
=============================================================================
