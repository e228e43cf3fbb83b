---------------------------- MODULE IntakeProofs ----------------------------
(* What is proved of the intake, for any accounts, commits, artifacts, claims  *)
(* and scores, any limits, and any number of tickets, retries and losses.      *)
EXTENDS Intake, FiniteSetTheorems, SequenceTheorems, TLAPS

-----------------------------------------------------------------------------
(* One row of a table of accounts and commits is written *)

Rows(S) == [Owners -> [Commits -> S]]

Put(f, g, o, c, r) == g = [f EXCEPT ![o] = [f[o] EXCEPT ![c] = r]]

LEMMA PutAt ==
  ASSUME NEW S, NEW f \in Rows(S), NEW g, NEW o \in Owners, NEW c \in Commits,
         NEW r \in S, Put(f, g, o, c, r)
  PROVE  /\ g \in Rows(S)
         /\ g[o][c] = r
         /\ \A p \in Owners, e \in Commits : p # o \/ e # c => g[p][e] = f[p][e]
BY DEF Put, Rows

LEMMA PutSame ==
  ASSUME NEW S, NEW f \in Rows(S), NEW o \in Owners, NEW c \in Commits
  PROVE  Put(f, f, o, c, f[o][c])
BY DEF Put, Rows

-----------------------------------------------------------------------------
(* The inductive invariant *)

(* How intent i, fetch task f and runner job j of one account and commit stand *)
(* to each other: at most one attempt is in flight, only while the intent      *)
(* waits for it, and a job is queued only while the intent is in quarantine;   *)
(* an intent that waits for its fetch or its job has one.                      *)
RowOK(i, f, j) ==
  /\ f.inFlight \in {0, 1}
  /\ f.inFlight = 1 => f.status = "running"
  /\ f.status = "running" => i.status = "github_fetch"
  /\ i.status \in {"none", "github_fetch"} => j.status = "none"
  /\ j.status = "queued" => i.status = "quarantine_pending"
  /\ i.status = "none" => i.ticket = NoTicket /\ i.artifact = None /\ f.status = "none"
  /\ f.status = "none" => f.inFlight = 0
  /\ i.status = "github_fetch" => \/ f.status \in {"queued", "attention_required"}
                                  \/ f.status = "running" /\ f.inFlight = 1
  /\ i.status = "quarantine_pending" =>
       j.status \in {"queued", "attention_required", "cancelled"}

(* The ticket that admitted intent i, among tickets ts. *)
Admitted(o, c, i, ts) ==
  i.status # "none" =>
    /\ i.ticket \in DOMAIN ts
    /\ ts[i.ticket].consumed /\ ts[i.ticket].owner = o /\ ts[i.ticket].commit = c
    /\ meaningful(ts[i.ticket].ticks, ts[i.ticket].frontier, metric)
    /\ i.artifact \in {None, ts[i.ticket].artifact}

RowsOK == \A o \in Owners, c \in Commits : RowOK(intent[o][c], fetch[o][c], job[o][c])

AllAdmitted == \A o \in Owners, c \in Commits : Admitted(o, c, intent[o][c], tickets)

IntakeInv == IntakeTypeOK /\ RowsOK /\ AllAdmitted /\ ActiveBounded

LEMMA Typed ==
  ASSUME IntakeTypeOK
  PROVE  /\ intent \in Rows(Intent) /\ fetch \in Rows(Fetch) /\ job \in Rows(Job)
         /\ \A o \in Owners, c \in Commits :
              intent[o][c] \in Intent /\ fetch[o][c] \in Fetch /\ job[o][c] \in Job
BY DEF IntakeTypeOK, Rows

LEMMA TypedNext ==
  ASSUME frontier' \in Int, tickets' \in Seq(Ticket), expired' \in 0..Len(tickets'),
         candidate' \in [Candidates -> {"none", "resolving_sources", "settled"}],
         intent' \in Rows(Intent), fetch' \in Rows(Fetch), job' \in Rows(Job),
         submitted' \subseteq Artifacts, version' \in {"published", "compromised"}
  PROVE  IntakeTypeOK'
BY DEF IntakeTypeOK, Rows

(* What a step that writes one row of the three tables and no ticket keeps. *)
LEMMA RowWritten ==
  ASSUME IntakeTypeOK, RowsOK, AllAdmitted,
         NEW o \in Owners, NEW c \in Commits,
         NEW i \in Intent, NEW f \in Fetch, NEW j \in Job,
         Put(intent, intent', o, c, i), Put(fetch, fetch', o, c, f),
         Put(job, job', o, c, j), UNCHANGED <<frontier, tickets, expired, candidate, version>>,
         submitted' \subseteq Artifacts,
         RowOK(i, f, j), Admitted(o, c, i, tickets)
  PROVE  IntakeTypeOK' /\ RowsOK' /\ AllAdmitted'
<1>. intent \in Rows(Intent) /\ fetch \in Rows(Fetch) /\ job \in Rows(Job)
  BY Typed
<1>1. /\ intent' \in Rows(Intent) /\ intent'[o][c] = i
      /\ \A p \in Owners, e \in Commits : p # o \/ e # c => intent'[p][e] = intent[p][e]
  BY PutAt
<1>2. /\ fetch' \in Rows(Fetch) /\ fetch'[o][c] = f
      /\ \A p \in Owners, e \in Commits : p # o \/ e # c => fetch'[p][e] = fetch[p][e]
  BY PutAt
<1>3. /\ job' \in Rows(Job) /\ job'[o][c] = j
      /\ \A p \in Owners, e \in Commits : p # o \/ e # c => job'[p][e] = job[p][e]
  BY PutAt
<1>4. IntakeTypeOK'
  BY <1>1, <1>2, <1>3, TypedNext DEF IntakeTypeOK
<1>5. RowsOK'
  <2>. SUFFICES ASSUME NEW p \in Owners, NEW e \in Commits
                PROVE  RowOK(intent'[p][e], fetch'[p][e], job'[p][e])
    BY DEF RowsOK
  <2>1. CASE p = o /\ e = c
    BY <1>1, <1>2, <1>3, <2>1
  <2>2. CASE p # o \/ e # c
    BY <1>1, <1>2, <1>3, <2>2 DEF RowsOK
  <2>. QED BY <2>1, <2>2
<1>6. AllAdmitted'
  <2>. SUFFICES ASSUME NEW p \in Owners, NEW e \in Commits
                PROVE  Admitted(p, e, intent'[p][e], tickets)
    BY DEF AllAdmitted
  <2>1. CASE p = o /\ e = c
    BY <1>1, <2>1
  <2>2. CASE p # o \/ e # c
    BY <1>1, <2>2 DEF AllAdmitted
  <2>. QED BY <2>1, <2>2
<1>. QED BY <1>4, <1>5, <1>6

(* A step that keeps every consumed ticket keeps every admission. *)
LEMMA TicketsKept ==
  ASSUME IntakeTypeOK, AllAdmitted, NEW o \in Owners, NEW c \in Commits, NEW ts,
         \A u \in DOMAIN tickets :
           tickets[u].consumed => u \in DOMAIN ts /\ ts[u] = tickets[u]
  PROVE  Admitted(o, c, intent[o][c], ts)
BY DEF AllAdmitted, Admitted

-----------------------------------------------------------------------------
(* The budget: two sets may shrink, or one of them gains one element while the *)
(* sum is below the limit.                                                     *)

Resolving(o) == {k \in Candidates : Author[k] = o /\ candidate[k] = "resolving_sources"}
Held(o) == {c \in Commits : intent[o][c].status \in Holding}

LEMMA Finite ==
  ASSUME NEW o
  PROVE  /\ IsFiniteSet(Resolving(o)) /\ IsFiniteSet(Held(o))
         /\ IsFiniteSet(Resolving(o)') /\ IsFiniteSet(Held(o)')
<1>1. Resolving(o) \subseteq Candidates /\ Resolving(o)' \subseteq Candidates
  BY DEF Resolving
<1>2. Held(o) \subseteq Commits /\ Held(o)' \subseteq Commits
  BY DEF Held
<1>. QED BY <1>1, <1>2, FS_Subset, IntakeAssumption

LEMMA Shrinks ==
  ASSUME NEW A, NEW B, NEW C, NEW D, IsFiniteSet(A), IsFiniteSet(B),
         C \subseteq A, D \subseteq B
  PROVE  /\ Cardinality(C) + Cardinality(D) <= Cardinality(A) + Cardinality(B)
         /\ Cardinality(A) \in Nat /\ Cardinality(B) \in Nat
         /\ Cardinality(C) \in Nat /\ Cardinality(D) \in Nat
<1>1. Cardinality(C) <= Cardinality(A) /\ Cardinality(D) <= Cardinality(B)
  BY FS_Subset
<1>2. IsFiniteSet(C) /\ IsFiniteSet(D)
  BY FS_Subset
<1>3. /\ Cardinality(A) \in Nat /\ Cardinality(B) \in Nat
      /\ Cardinality(C) \in Nat /\ Cardinality(D) \in Nat
  BY <1>2, FS_CardinalityType
<1>. QED BY <1>1, <1>3

LEMMA Grows ==
  ASSUME NEW A, NEW B, NEW C, NEW x, IsFiniteSet(A), IsFiniteSet(B), C \subseteq A \cup {x}
  PROVE  /\ Cardinality(C) + Cardinality(B) <= Cardinality(A) + Cardinality(B) + 1
         /\ Cardinality(A) \in Nat /\ Cardinality(B) \in Nat /\ Cardinality(C) \in Nat
<1>1. IsFiniteSet(A \cup {x}) /\ Cardinality(A \cup {x}) \in {Cardinality(A), Cardinality(A) + 1}
  BY FS_AddElement
<1>2. Cardinality(C) <= Cardinality(A \cup {x}) /\ IsFiniteSet(C)
  BY <1>1, FS_Subset
<1>3. Cardinality(A) \in Nat /\ Cardinality(B) \in Nat /\ Cardinality(C) \in Nat
  BY <1>2, FS_CardinalityType
<1>. QED BY <1>1, <1>2, <1>3

LEMMA BudgetForm ==
  /\ ActiveBounded <=> \A o \in Owners :
       Cardinality(Resolving(o)) + Cardinality(Held(o)) <= ActiveLimit
  /\ ActiveBounded' <=> \A o \in Owners :
       Cardinality(Resolving(o)') + Cardinality(Held(o)') <= ActiveLimit
  /\ \A o : ActivePreparations(o) = Cardinality(Resolving(o)) + Cardinality(Held(o))
BY DEF ActiveBounded, ActivePreparations, Resolving, Held

LEMMA BudgetKept ==
  ASSUME ActiveBounded,
         \A o \in Owners : Resolving(o)' \subseteq Resolving(o) /\ Held(o)' \subseteq Held(o)
  PROVE  ActiveBounded'
<1>. SUFFICES ASSUME NEW o \in Owners
              PROVE  Cardinality(Resolving(o)') + Cardinality(Held(o)') <= ActiveLimit
  BY BudgetForm
<1>1. Cardinality(Resolving(o)) + Cardinality(Held(o)) <= ActiveLimit
  BY BudgetForm
<1>2. IsFiniteSet(Resolving(o)) /\ IsFiniteSet(Held(o))
  BY Finite
<1>3. /\ Cardinality(Resolving(o)') + Cardinality(Held(o)')
           <= Cardinality(Resolving(o)) + Cardinality(Held(o))
      /\ Cardinality(Resolving(o)) \in Nat /\ Cardinality(Held(o)) \in Nat
      /\ Cardinality(Resolving(o)') \in Nat /\ Cardinality(Held(o)') \in Nat
  BY <1>2, Shrinks
<1>4. ActiveLimit \in Nat
  BY IntakeAssumption
<1>. QED BY <1>1, <1>3, <1>4

LEMMA BudgetGrows ==
  ASSUME ActiveBounded, NEW o \in Owners, reservePreparation(o),
         \A p \in Owners : p # o => Resolving(p)' \subseteq Resolving(p)
                                   /\ Held(p)' \subseteq Held(p),
         NEW x,
         \/ Resolving(o)' \subseteq Resolving(o) \cup {x} /\ Held(o)' = Held(o)
         \/ Resolving(o)' = Resolving(o) /\ Held(o)' \subseteq Held(o) \cup {x}
  PROVE  ActiveBounded'
<1>. SUFFICES ASSUME NEW p \in Owners
              PROVE  Cardinality(Resolving(p)') + Cardinality(Held(p)') <= ActiveLimit
  BY BudgetForm
<1>1. Cardinality(Resolving(p)) + Cardinality(Held(p)) <= ActiveLimit
  BY BudgetForm
<1>2. IsFiniteSet(Resolving(p)) /\ IsFiniteSet(Held(p))
  BY Finite
<1>3. ActiveLimit \in Nat
  BY IntakeAssumption
<1>4. CASE p # o
  <2>1. /\ Cardinality(Resolving(p)') + Cardinality(Held(p)')
             <= Cardinality(Resolving(p)) + Cardinality(Held(p))
        /\ Cardinality(Resolving(p)) \in Nat /\ Cardinality(Held(p)) \in Nat
        /\ Cardinality(Resolving(p)') \in Nat /\ Cardinality(Held(p)') \in Nat
    BY <1>2, <1>4, Shrinks
  <2>. QED BY <1>1, <1>3, <2>1
<1>5. CASE p = o
  <2>1. Cardinality(Resolving(o)) + Cardinality(Held(o)) < ActiveLimit
    BY BudgetForm DEF reservePreparation
  <2>2. IsFiniteSet(Resolving(o)) /\ IsFiniteSet(Held(o))
    BY <1>2, <1>5
  <2>3. CASE Resolving(o)' \subseteq Resolving(o) \cup {x} /\ Held(o)' = Held(o)
    <3>1. /\ Cardinality(Resolving(o)') + Cardinality(Held(o))
               <= Cardinality(Resolving(o)) + Cardinality(Held(o)) + 1
          /\ Cardinality(Resolving(o)) \in Nat /\ Cardinality(Held(o)) \in Nat
          /\ Cardinality(Resolving(o)') \in Nat
      BY <2>2, <2>3, Grows
    <3>2. Cardinality(Held(o)') = Cardinality(Held(o))
      BY <2>3
    <3>. QED BY <1>3, <1>5, <2>1, <3>1, <3>2
  <2>4. CASE Resolving(o)' = Resolving(o) /\ Held(o)' \subseteq Held(o) \cup {x}
    <3>1. /\ Cardinality(Held(o)') + Cardinality(Resolving(o))
               <= Cardinality(Held(o)) + Cardinality(Resolving(o)) + 1
          /\ Cardinality(Resolving(o)) \in Nat /\ Cardinality(Held(o)) \in Nat
          /\ Cardinality(Held(o)') \in Nat
      BY <2>2, <2>4, Grows
    <3>2. Cardinality(Resolving(o)') = Cardinality(Resolving(o))
      BY <2>4
    <3>. QED BY <1>3, <1>5, <2>1, <3>1, <3>2
  <2>. QED BY <2>3, <2>4
<1>. QED BY <1>4, <1>5

-----------------------------------------------------------------------------
(* What every step does *)

AcceptedKept ==
  \A o \in Owners, c \in Commits :
    intent[o][c].status = "accepted" => intent'[o][c].status = "accepted"

StepOK == IntakeInv' /\ AcceptedKept

(* A row that stays within the budget and keeps an acceptance. *)
Still(i, k) ==
  /\ k.status \in Holding => i.status \in Holding
  /\ i.status = "accepted" => k.status = "accepted"

LEMMA OneRow ==
  ASSUME IntakeInv,
         NEW o \in Owners, NEW c \in Commits,
         NEW i \in Intent, NEW f \in Fetch, NEW j \in Job,
         Put(intent, intent', o, c, i), Put(fetch, fetch', o, c, f),
         Put(job, job', o, c, j), UNCHANGED <<frontier, tickets, expired, candidate, version>>,
         submitted' \subseteq Artifacts,
         RowOK(i, f, j), Admitted(o, c, i, tickets), Still(intent[o][c], i)
  PROVE  StepOK
<1>1. IntakeTypeOK' /\ RowsOK' /\ AllAdmitted'
  BY RowWritten DEF IntakeInv
<1>2. intent \in Rows(Intent)
  BY Typed DEF IntakeInv
<1>3. /\ intent'[o][c] = i
      /\ \A p \in Owners, e \in Commits : p # o \/ e # c => intent'[p][e] = intent[p][e]
  BY <1>2, PutAt
<1>4. \A p \in Owners, e \in Commits : Still(intent[p][e], intent'[p][e])
  <2>. TAKE p \in Owners, e \in Commits
  <2>1. CASE p = o /\ e = c
    BY <1>3, <2>1
  <2>2. CASE p # o \/ e # c
    BY <1>3, <2>2 DEF Still
  <2>. QED BY <2>1, <2>2
<1>5. AcceptedKept
  BY <1>4 DEF AcceptedKept, Still
<1>6. \A p \in Owners : Resolving(p)' \subseteq Resolving(p) /\ Held(p)' \subseteq Held(p)
  BY <1>4 DEF Still, Resolving, Held
<1>7. ActiveBounded'
  BY <1>6, BudgetKept DEF IntakeInv
<1>. QED BY <1>1, <1>5, <1>7 DEF StepOK, IntakeInv

(* A step that leaves the three tables alone and keeps the consumed tickets. *)
LEMMA NoRow ==
  ASSUME IntakeInv, UNCHANGED workVars, IntakeTypeOK',
         \A u \in DOMAIN tickets :
           tickets[u].consumed => u \in DOMAIN tickets' /\ tickets'[u] = tickets[u],
         ActiveBounded'
  PROVE  StepOK
<1>1. RowsOK'
  BY DEF IntakeInv, RowsOK, workVars
<1>2. AllAdmitted'
  <2>. SUFFICES ASSUME NEW o \in Owners, NEW c \in Commits
                PROVE  Admitted(o, c, intent'[o][c], tickets')
    BY DEF AllAdmitted
  <2>1. Admitted(o, c, intent[o][c], tickets')
    BY TicketsKept DEF IntakeInv
  <2>. QED BY <2>1 DEF workVars
<1>. QED BY <1>1, <1>2 DEF StepOK, IntakeInv, AcceptedKept, workVars

-----------------------------------------------------------------------------
(* The fetch of a commit *)

LEMMA FetchRecords ==
  ASSUME NEW f \in Fetch, NEW i \in Intent
  PROVE  /\ f.status = "queued" /\ f.inFlight = 0 =>
              /\ Begun(f, i) \in Fetch
              /\ IF i.status # "github_fetch"
                 THEN Begun(f, i).status = "complete" /\ Begun(f, i).inFlight = 0
                 ELSE Begun(f, i).status = "running" /\ Begun(f, i).inFlight = 1
         /\ f.inFlight = 1 /\ f.status = "running" =>
              /\ Retried(f) \in Fetch /\ Completed(f) \in Fetch
              /\ Retried(f).status \in {"attention_required", "queued"}
              /\ Retried(f).inFlight = 0
              /\ Completed(f).status = "complete" /\ Completed(f).inFlight = 0
<1>1. f.tries \in Nat /\ f.inFlight \in Nat /\ f.status \in TaskStatus
  BY DEF Fetch
<1>2. ASSUME f.status = "queued", f.inFlight = 0, i.status # "github_fetch"
      PROVE  /\ Begun(f, i) \in Fetch
             /\ Begun(f, i).status = "complete" /\ Begun(f, i).inFlight = 0
  BY <1>2 DEF Begun, Fetch, TaskStatus
<1>3. ASSUME f.status = "queued", f.inFlight = 0, i.status = "github_fetch"
      PROVE  /\ Begun(f, i) \in Fetch
             /\ Begun(f, i).status = "running" /\ Begun(f, i).inFlight = 1
  <2>1. Begun(f, i) = [f EXCEPT !.status = "running", !.tries = f.tries + 1,
                                !.inFlight = f.inFlight + 1]
    BY <1>3 DEF Begun
  <2>2. f.tries + 1 \in Nat /\ f.inFlight + 1 \in Nat /\ f.inFlight + 1 = 1
        /\ "running" \in TaskStatus
    BY <1>1, <1>3 DEF TaskStatus
  <2>. QED BY <2>1, <2>2 DEF Fetch
<1>4. ASSUME f.inFlight = 1, f.status = "running"
      PROVE  /\ Retried(f) \in Fetch
             /\ Retried(f).status \in {"attention_required", "queued"}
             /\ Retried(f).inFlight = 0
  <2>. DEFINE s == IF f.tries >= MaxTries THEN "attention_required" ELSE "queued"
  <2>1. f.inFlight - 1 = 0
    BY <1>4
  <2>2. Retried(f) = [f EXCEPT !.status = s, !.inFlight = 0]
    BY <1>4, <2>1 DEF Retried
  <2>3. s \in TaskStatus /\ s \in {"attention_required", "queued"} /\ 0 \in Nat
    BY DEF TaskStatus
  <2>. HIDE DEF s
  <2>4. LET g == [f EXCEPT !.status = s, !.inFlight = 0]
        IN  g \in Fetch /\ g.status = s /\ g.inFlight = 0
    BY <2>3 DEF Fetch
  <2>. QED BY <2>2, <2>3, <2>4
<1>5. ASSUME f.inFlight = 1, f.status = "running"
      PROVE  /\ Completed(f) \in Fetch
             /\ Completed(f).status = "complete" /\ Completed(f).inFlight = 0
  <2>1. f.inFlight - 1 = 0
    BY <1>5
  <2>2. Completed(f) = [f EXCEPT !.status = "complete", !.inFlight = 0]
    BY <1>5, <2>1 DEF Completed
  <2>3. "complete" \in TaskStatus /\ 0 \in Nat
    BY DEF TaskStatus
  <2>4. LET g == [f EXCEPT !.status = "complete", !.inFlight = 0]
        IN  g \in Fetch /\ g.status = "complete" /\ g.inFlight = 0
    BY <2>3 DEF Fetch
  <2>. QED BY <2>2, <2>4
<1>. QED BY <1>2, <1>3, <1>4, <1>5

(* The three rows of an account and commit, and what the invariant says of them. *)
LEMMA TheRow ==
  ASSUME IntakeInv, NEW o \in Owners, NEW c \in Commits
  PROVE  /\ intent[o][c] \in Intent /\ fetch[o][c] \in Fetch /\ job[o][c] \in Job
         /\ RowOK(intent[o][c], fetch[o][c], job[o][c])
         /\ Admitted(o, c, intent[o][c], tickets)
         /\ Put(intent, intent, o, c, intent[o][c])
         /\ Put(fetch, fetch, o, c, fetch[o][c])
         /\ Put(job, job, o, c, job[o][c])
         /\ Still(intent[o][c], intent[o][c])
<1>. intent \in Rows(Intent) /\ fetch \in Rows(Fetch) /\ job \in Rows(Job)
  BY Typed DEF IntakeInv
<1>1. intent[o][c] \in Intent /\ fetch[o][c] \in Fetch /\ job[o][c] \in Job
  BY Typed DEF IntakeInv
<1>2. /\ Put(intent, intent, o, c, intent[o][c]) /\ Put(fetch, fetch, o, c, fetch[o][c])
      /\ Put(job, job, o, c, job[o][c])
  BY PutSame
<1>. QED BY <1>1, <1>2 DEF IntakeInv, RowsOK, AllAdmitted, Still

LEMMA BeginFetchStep ==
  ASSUME IntakeInv, NEW o \in Owners, NEW c \in Commits, BeginFetch(o, c)
  PROVE  StepOK
<1>1. fetch[o][c].status = "queued"
      /\ Put(fetch, fetch', o, c, Begun(fetch[o][c], intent[o][c]))
  BY DEF BeginFetch, Put
<1>2. Begun(fetch[o][c], intent[o][c]) \in Fetch
      /\ RowOK(intent[o][c], Begun(fetch[o][c], intent[o][c]), job[o][c])
  <2>. DEFINE f == fetch[o][c]
              i == intent[o][c]
              j == job[o][c]
  <2>1. f \in Fetch /\ i \in Intent /\ RowOK(i, f, j) /\ f.status = "queued"
    BY <1>1, TheRow
  <2>. HIDE DEF f, i, j
  <2>2. f.inFlight = 0
    BY <2>1 DEF RowOK
  <2>3. /\ Begun(f, i) \in Fetch
        /\ IF i.status # "github_fetch"
           THEN Begun(f, i).status = "complete" /\ Begun(f, i).inFlight = 0
           ELSE Begun(f, i).status = "running" /\ Begun(f, i).inFlight = 1
    BY <2>1, <2>2, FetchRecords
  <2>4. RowOK(i, Begun(f, i), j)
    BY <2>1, <2>3 DEF RowOK
  <2>. QED BY <2>3, <2>4 DEF f, i, j
<1>3. /\ intent' = intent /\ job' = job
      /\ UNCHANGED <<frontier, tickets, expired, candidate, version>> /\ submitted' \subseteq Artifacts
  BY DEF BeginFetch, ticketVars, IntakeInv, IntakeTypeOK
<1>. QED BY <1>1, <1>2, <1>3, TheRow, OneRow

LEMMA EndFetchStep ==
  ASSUME IntakeInv, NEW o \in Owners, NEW c \in Commits,
         FailFetch(o, c) \/ LoseFetch(o, c) \/ StoreFetch(o, c)
  PROVE  StepOK
<1>. DEFINE f == fetch[o][c]
            i == intent[o][c]
            j == job[o][c]
<1>1. f \in Fetch /\ i \in Intent /\ j \in Job /\ RowOK(i, f, j)
      /\ Admitted(o, c, i, tickets)
  BY TheRow
<1>2. fetch[o][c].inFlight > 0
  BY DEF FailFetch, LoseFetch, StoreFetch
<1>3. f.inFlight = 1 /\ f.status = "running" /\ i.status = "github_fetch"
      /\ j.status = "none"
  BY <1>1, <1>2 DEF RowOK
<1>4. /\ Retried(f) \in Fetch /\ Completed(f) \in Fetch
      /\ Retried(f).status \in {"attention_required", "queued"}
      /\ Retried(f).inFlight = 0
      /\ Completed(f).status = "complete" /\ Completed(f).inFlight = 0
  BY <1>1, <1>3, FetchRecords
<1>5. CASE FailFetch(o, c)
  <2>. DEFINE k == [i EXCEPT !.status = "failed"]
  <2>1. intent' = [intent EXCEPT ![o][c].status = "failed"]
        /\ fetch' = [fetch EXCEPT ![o][c] = Completed(fetch[o][c])]
    BY <1>5 DEF FailFetch
  <2>2. Put(intent, intent', o, c, k) /\ Put(fetch, fetch', o, c, Completed(f))
    BY <2>1 DEF Put
  <2>3. k \in Intent /\ k.status = "failed" /\ k.ticket = i.ticket /\ k.artifact = i.artifact
    BY <1>1 DEF Intent, IntentStatus
  <2>4. /\ job' = job
        /\ UNCHANGED <<frontier, tickets, expired, candidate, version>> /\ submitted' \subseteq Artifacts
    BY <1>5 DEF FailFetch, ticketVars, IntakeInv, IntakeTypeOK
  <2>. HIDE DEF k
  <2>5. RowOK(k, Completed(f), j) /\ Admitted(o, c, k, tickets) /\ Still(i, k)
    BY <1>1, <1>3, <1>4, <2>3 DEF RowOK, Admitted, Still, Holding
  <2>. QED BY <1>4, <2>2, <2>3, <2>4, <2>5, TheRow, OneRow
<1>6. CASE LoseFetch(o, c)
  <2>1. fetch' = [fetch EXCEPT ![o][c] = Retried(fetch[o][c])]
    BY <1>6 DEF LoseFetch
  <2>2. Put(fetch, fetch', o, c, Retried(f))
    BY <2>1 DEF Put
  <2>3. /\ intent' = intent /\ job' = job
        /\ UNCHANGED <<frontier, tickets, expired, candidate, version>> /\ submitted' \subseteq Artifacts
    BY <1>6 DEF LoseFetch, ticketVars, IntakeInv, IntakeTypeOK
  <2>4. RowOK(i, Retried(f), j)
    BY <1>1, <1>3, <1>4 DEF RowOK
  <2>. QED BY <1>4, <2>2, <2>3, <2>4, TheRow, OneRow
<1>7. CASE StoreFetch(o, c)
  <2>. DEFINE k == [i EXCEPT !.status = "quarantine_pending", !.artifact = Content[c]]
              l == [j EXCEPT !.status = "queued"]
  <2>1. Put(intent, intent', o, c, k)
    <3>1. Put(intent, intent', o, c, IF i.status # "github_fetch" THEN i ELSE k)
      BY <1>7 DEF StoreFetch, Put
    <3>. QED BY <1>3, <3>1
  <2>2. Put(job, job', o, c, l)
    <3>1. Put(job, job', o, c,
              [j EXCEPT !.status = IF j.status = "none" THEN "queued" ELSE j.status])
      BY <1>7 DEF StoreFetch, Put
    <3>. QED BY <1>3, <3>1
  <2>3. \E g \in {Retried(f), Completed(f)} : Put(fetch, fetch', o, c, g)
    BY <1>7 DEF StoreFetch, Put
  <2>4. /\ tickets[i.ticket].artifact = Content[c]
        /\ UNCHANGED <<frontier, tickets, expired, candidate, version>> /\ submitted' \subseteq Artifacts
    BY <1>7 DEF StoreFetch, PreviewMatches, ticketVars, IntakeInv, IntakeTypeOK
  <2>5. /\ k \in Intent /\ k.status = "quarantine_pending" /\ k.ticket = i.ticket
        /\ k.artifact = Content[c]
    <3>1. Content[c] \in Artifacts
      BY IntakeAssumption
    <3>. QED BY <1>1, <3>1 DEF Intent, IntentStatus
  <2>6. l \in Job /\ l.status = "queued"
    BY <1>1 DEF Job, JobStatus, TaskStatus
  <2>7. PICK g \in {Retried(f), Completed(f)} : Put(fetch, fetch', o, c, g)
    BY <2>3
  <2>8. g \in Fetch /\ g.status # "running" /\ g.status # "none" /\ g.inFlight = 0
    BY <1>4, <2>7
  <2>. HIDE DEF k, l
  <2>9. RowOK(k, g, l) /\ Admitted(o, c, k, tickets) /\ Still(i, k)
    BY <1>1, <1>3, <2>4, <2>5, <2>6, <2>8 DEF RowOK, Admitted, Still, Holding
  <2>. QED BY <2>1, <2>2, <2>4, <2>5, <2>6, <2>7, <2>8, <2>9, OneRow
<1>. QED BY <1>5, <1>6, <1>7

-----------------------------------------------------------------------------
(* Preparation and acceptance *)

LEMMA CommitArtifactStep ==
  ASSUME IntakeInv, NEW o \in Owners, NEW c \in Commits, NEW d \in Disks,
         CommitArtifact(o, c, d)
  PROVE  StepOK
<1>. DEFINE f == fetch[o][c]
            i == intent[o][c]
            j == job[o][c]
            k == [i EXCEPT !.status = "ready", !.disk = d]
            l == [j EXCEPT !.status = "complete", !.declared = d]
<1>1. f \in Fetch /\ i \in Intent /\ j \in Job /\ RowOK(i, f, j)
      /\ Admitted(o, c, i, tickets)
  BY TheRow
<1>2. i.status = "quarantine_pending"
  BY <1>1 DEF CommitArtifact, Claimable, RowOK
<1>3. Put(intent, intent', o, c, k)
  <2>1. Put(intent, intent', o, c, IF i.status # "quarantine_pending" THEN i ELSE k)
    BY DEF CommitArtifact, Put
  <2>. QED BY <1>2, <2>1
<1>4. Put(job, job', o, c, l)
  BY DEF CommitArtifact, Put
<1>5. k \in Intent /\ k.status = "ready" /\ k.ticket = i.ticket /\ k.artifact = i.artifact
  BY <1>1 DEF Intent, IntentStatus
<1>6. l \in Job /\ l.status = "complete"
  BY <1>1 DEF Job, JobStatus, TaskStatus
<1>7. /\ fetch' = fetch
      /\ UNCHANGED <<frontier, tickets, expired, candidate, version>> /\ submitted' \subseteq Artifacts
  BY DEF CommitArtifact, ticketVars, IntakeInv, IntakeTypeOK
<1>. HIDE DEF k, l
<1>8. RowOK(k, f, l) /\ Admitted(o, c, k, tickets) /\ Still(i, k)
  BY <1>1, <1>2, <1>5, <1>6 DEF RowOK, Admitted, Still, Holding
<1>. QED BY <1>3, <1>4, <1>5, <1>6, <1>7, <1>8, TheRow, OneRow

LEMMA FailArtifactStep ==
  ASSUME IntakeInv, NEW o \in Owners, NEW c \in Commits, FailArtifact(o, c)
  PROVE  StepOK
<1>. DEFINE f == fetch[o][c]
            i == intent[o][c]
            j == job[o][c]
            k == [i EXCEPT !.status = "failed"]
            l == [j EXCEPT !.status = "complete"]
<1>1. f \in Fetch /\ i \in Intent /\ j \in Job /\ RowOK(i, f, j)
      /\ Admitted(o, c, i, tickets)
  BY TheRow
<1>2. i.status = "quarantine_pending"
  BY <1>1 DEF FailArtifact, Claimable, RowOK
<1>3. Put(intent, intent', o, c, k) /\ Put(job, job', o, c, l)
  BY DEF FailArtifact, Put
<1>4. k \in Intent /\ k.status = "failed" /\ k.ticket = i.ticket /\ k.artifact = i.artifact
  BY <1>1 DEF Intent, IntentStatus
<1>5. l \in Job /\ l.status = "complete"
  BY <1>1 DEF Job, JobStatus, TaskStatus
<1>6. /\ fetch' = fetch
      /\ UNCHANGED <<frontier, tickets, expired, candidate, version>> /\ submitted' \subseteq Artifacts
  BY DEF FailArtifact, ticketVars, IntakeInv, IntakeTypeOK
<1>. HIDE DEF k, l
<1>7. RowOK(k, f, l) /\ Admitted(o, c, k, tickets) /\ Still(i, k)
  BY <1>1, <1>2, <1>4, <1>5 DEF RowOK, Admitted, Still, Holding
<1>. QED BY <1>3, <1>4, <1>5, <1>6, <1>7, TheRow, OneRow

(* A step that leaves the intent and its fetch alone and the job queued or     *)
(* before an operator.                                                         *)
LEMMA JobWritten ==
  ASSUME IntakeInv, NEW o \in Owners, NEW c \in Commits, NEW l \in Job,
         job[o][c].status = "queued", Put(job, job', o, c, l),
         l.status \in {"queued", "attention_required"},
         UNCHANGED <<frontier, tickets, expired, candidate, intent, fetch, submitted, version>>
  PROVE  StepOK
<1>. DEFINE f == fetch[o][c]
            i == intent[o][c]
            j == job[o][c]
<1>1. f \in Fetch /\ i \in Intent /\ j \in Job /\ RowOK(i, f, j)
      /\ Admitted(o, c, i, tickets)
  BY TheRow
<1>2. i.status = "quarantine_pending"
  BY <1>1 DEF RowOK
<1>3. RowOK(i, f, l)
  BY <1>1, <1>2 DEF RowOK
<1>4. submitted' \subseteq Artifacts
  BY DEF IntakeInv, IntakeTypeOK
<1>. QED BY <1>3, <1>4, TheRow, OneRow

LEMMA LosePreparationStep ==
  ASSUME IntakeInv, NEW o \in Owners, NEW c \in Commits, NEW d \in Disks \cup {None},
         LosePreparation(o, c, d)
  PROVE  StepOK
<1>. DEFINE j == job[o][c]
            s == IF j.tries + 1 >= MaxTries THEN "attention_required" ELSE j.status
            e == IF d = None THEN j.declared ELSE d
            x == IF Policy = "platform" THEN j.excluded ELSE j.excluded + 1
            l == [j EXCEPT !.status = s, !.tries = j.tries + 1, !.declared = e,
                           !.excluded = x]
<1>1. j \in Job /\ j.status = "queued"
  BY TheRow DEF LosePreparation, Claimable
<1>2. Put(job, job', o, c, l)
  <2>1. job' = [job EXCEPT ![o][c].status = s, ![o][c].tries = job[o][c].tries + 1,
                           ![o][c].declared = e, ![o][c].excluded = x]
    BY DEF LosePreparation
  <2>. HIDE DEF s, e, x
  <2>. QED BY <2>1 DEF Put
<1>3. s \in {"attention_required", "queued"} /\ s \in JobStatus
  BY <1>1 DEF JobStatus, TaskStatus
<1>4. j.tries + 1 \in Nat /\ e \in Disks \cup {None} /\ x \in Nat
  BY <1>1 DEF Job
<1>. HIDE DEF s, e, x
<1>5. l \in Job /\ l.status = s
  BY <1>1, <1>3, <1>4 DEF Job
<1>6. UNCHANGED <<frontier, tickets, expired, candidate, intent, fetch, submitted, version>>
  BY DEF LosePreparation, ticketVars
<1>. HIDE DEF l
<1>. QED BY <1>1, <1>2, <1>3, <1>5, <1>6, JobWritten

LEMMA FaultPreparationStep ==
  ASSUME IntakeInv, NEW o \in Owners, NEW c \in Commits, NEW d \in Disks \cup {None},
         FaultPreparation(o, c, d)
  PROVE  StepOK
<1>. DEFINE j == job[o][c]
            e == IF d = None THEN j.declared ELSE d
            l == [j EXCEPT !.tries = j.tries + 1, !.declared = e,
                           !.excluded = j.excluded + 1]
<1>1. j \in Job /\ j.status = "queued"
  BY TheRow DEF FaultPreparation, Claimable
<1>2. Put(job, job', o, c, l)
  <2>1. job' = [job EXCEPT ![o][c].tries = job[o][c].tries + 1, ![o][c].declared = e,
                           ![o][c].excluded = job[o][c].excluded + 1]
    BY DEF FaultPreparation
  <2>. HIDE DEF e
  <2>. QED BY <2>1 DEF Put
<1>3. j.tries + 1 \in Nat /\ e \in Disks \cup {None} /\ j.excluded + 1 \in Nat
  BY <1>1 DEF Job
<1>. HIDE DEF e
<1>4. l \in Job /\ l.status = "queued"
  BY <1>1, <1>3 DEF Job
<1>5. UNCHANGED <<frontier, tickets, expired, candidate, intent, fetch, submitted, version>>
  BY DEF FaultPreparation, ticketVars
<1>. HIDE DEF l
<1>. QED BY <1>1, <1>2, <1>4, <1>5, JobWritten

LEMMA AcceptStep ==
  ASSUME IntakeInv, NEW o \in Owners, NEW c \in Commits, acceptIntent(o, c)
  PROVE  StepOK
<1>. DEFINE f == fetch[o][c]
            i == intent[o][c]
            j == job[o][c]
            k == [i EXCEPT !.status = "accepted"]
<1>1. f \in Fetch /\ i \in Intent /\ j \in Job /\ RowOK(i, f, j)
      /\ Admitted(o, c, i, tickets)
  BY TheRow
<1>2. i.status = "ready" /\ tickets[i.ticket].artifact = i.artifact
  BY DEF acceptIntent
<1>3. Put(intent, intent', o, c, k)
  BY DEF acceptIntent, Put
<1>4. k \in Intent /\ k.status = "accepted" /\ k.ticket = i.ticket /\ k.artifact = i.artifact
  BY <1>1 DEF Intent, IntentStatus
<1>5. submitted' \subseteq Artifacts
  <2>1. tickets[i.ticket] \in Ticket
    BY <1>1, <1>2, ElementOfSeq DEF Admitted, IntakeInv, IntakeTypeOK
  <2>. QED BY <1>2, <2>1 DEF acceptIntent, Ticket, IntakeInv, IntakeTypeOK
<1>6. /\ fetch' = fetch /\ job' = job
      /\ UNCHANGED <<frontier, tickets, expired, candidate, version>>
  BY DEF acceptIntent, ticketVars
<1>. HIDE DEF k
<1>7. RowOK(k, f, j) /\ Admitted(o, c, k, tickets) /\ Still(i, k)
  BY <1>1, <1>2, <1>4 DEF RowOK, Admitted, Still, Holding
<1>. QED BY <1>3, <1>4, <1>5, <1>6, <1>7, TheRow, OneRow

-----------------------------------------------------------------------------
(* Tickets, candidates, the frontier *)

LEMMA FrontierTyped == IntakeTypeOK => AdmissionFrontier \in Int
BY IntakeAssumption DEF AdmissionFrontier, IntakeTypeOK, Metric

LEMMA TicketStep ==
  ASSUME IntakeInv, NEW q \in Claims, createFrontierTicket(q)
  PROVE  StepOK
<1>. DEFINE t == [owner |-> q.owner, commit |-> q.commit, artifact |-> q.artifact,
                  ticks |-> q.ticks, frontier |-> AdmissionFrontier, consumed |-> FALSE]
<1>1. t \in Ticket
  BY FrontierTyped, IntakeAssumption DEF IntakeInv, Ticket
<1>2. tickets' = Append(tickets, t) /\ tickets \in Seq(Ticket)
  BY DEF createFrontierTicket, IntakeInv, IntakeTypeOK
<1>. HIDE DEF t
<1>3. /\ tickets' \in Seq(Ticket) /\ Len(tickets') = Len(tickets) + 1
      /\ \A u \in DOMAIN tickets : u \in DOMAIN tickets' /\ tickets'[u] = tickets[u]
  BY <1>1, <1>2
<1>4. /\ UNCHANGED workVars
      /\ UNCHANGED <<frontier, expired, candidate, submitted, version>>
  BY DEF createFrontierTicket
<1>5. expired' \in 0..Len(tickets')
  BY <1>2, <1>3, <1>4 DEF IntakeInv, IntakeTypeOK
<1>6. IntakeTypeOK'
  BY <1>3, <1>4, <1>5 DEF IntakeInv, IntakeTypeOK, workVars
<1>7. ActiveBounded'
  BY <1>4 DEF IntakeInv, ActiveBounded, workVars
<1>. QED BY <1>3, <1>4, <1>6, <1>7, NoRow

LEMMA QuietStep ==
  ASSUME IntakeInv,
         \/ ExpireTicket
         \/ \E n \in Scored : AdvanceFrontier(n)
         \/ \E a \in Rivals : OthersAccept(a)
  PROVE  StepOK
<1>1. UNCHANGED workVars /\ UNCHANGED <<tickets, candidate, version>>
  BY DEF ExpireTicket, AdvanceFrontier, OthersAccept, ticketVars
<1>2. expired' \in 0..Len(tickets)
  BY DEF ExpireTicket, AdvanceFrontier, OthersAccept, ticketVars, IntakeInv, IntakeTypeOK
<1>3. frontier' \in Int
  BY IntakeAssumption
     DEF ExpireTicket, AdvanceFrontier, OthersAccept, IntakeInv, IntakeTypeOK
<1>4. submitted' \subseteq Artifacts
  BY IntakeAssumption
     DEF ExpireTicket, AdvanceFrontier, OthersAccept, IntakeInv, IntakeTypeOK
<1>5. IntakeTypeOK'
  BY <1>1, <1>2, <1>3, <1>4 DEF IntakeInv, IntakeTypeOK, workVars
<1>6. ActiveBounded'
  BY <1>1 DEF IntakeInv, ActiveBounded, workVars
<1>. QED BY <1>1, <1>5, <1>6, NoRow

LEMMA CandidateStep ==
  ASSUME IntakeInv, NEW k \in Candidates, ImportCandidate(k) \/ ResolveCandidate(k)
  PROVE  StepOK
<1>1. /\ UNCHANGED workVars /\ UNCHANGED <<frontier, tickets, expired, submitted, version>>
  BY DEF ImportCandidate, ResolveCandidate, ticketVars
<1>2. candidate \in [Candidates -> {"none", "resolving_sources", "settled"}]
  BY DEF IntakeInv, IntakeTypeOK
<1>3. \A p \in Owners : Held(p)' = Held(p)
  BY <1>1 DEF Held, workVars
<1>4. IntakeTypeOK'
  BY <1>1, <1>2 DEF ImportCandidate, ResolveCandidate, IntakeInv, IntakeTypeOK, workVars
<1>5. CASE ImportCandidate(k)
  <2>1. candidate' = [candidate EXCEPT ![k] = "resolving_sources"]
        /\ reservePreparation(Author[k]) /\ Author[k] \in Owners
    BY <1>5, IntakeAssumption DEF ImportCandidate
  <2>2. \A p \in Owners : Resolving(p)' \subseteq Resolving(p) \cup {k}
    BY <1>2, <2>1 DEF Resolving
  <2>3. \A p \in Owners : p # Author[k] => Resolving(p)' \subseteq Resolving(p)
    BY <1>2, <2>1 DEF Resolving
  <2>4. ActiveBounded'
    BY <1>3, <2>1, <2>2, <2>3, BudgetGrows DEF IntakeInv
  <2>. QED BY <1>1, <1>4, <2>4, NoRow
<1>6. CASE ResolveCandidate(k)
  <2>1. \A p \in Owners : Resolving(p)' \subseteq Resolving(p)
    BY <1>2, <1>6 DEF ResolveCandidate, Resolving
  <2>2. ActiveBounded'
    BY <1>3, <2>1, BudgetKept DEF IntakeInv
  <2>. QED BY <1>1, <1>4, <2>2, NoRow
<1>. QED BY <1>5, <1>6

(* createIntent consumes its ticket in the step that writes the row. *)
LEMMA CreateStep ==
  ASSUME IntakeInv, NEW o \in Owners, NEW c \in Commits, NEW t \in DOMAIN tickets,
         createIntent(o, c, t)
  PROVE  StepOK
<1>. DEFINE f == fetch[o][c]
            i == intent[o][c]
            j == job[o][c]
            k == [i EXCEPT !.status = "github_fetch", !.ticket = t]
            g == [f EXCEPT !.status = "queued"]
            u == [tickets[t] EXCEPT !.consumed = TRUE, !.frontier = AdmissionFrontier]
<1>1. f \in Fetch /\ i \in Intent /\ j \in Job /\ RowOK(i, f, j)
  BY TheRow
<1>2. /\ tickets \in Seq(Ticket) /\ tickets[t] \in Ticket /\ t \in Nat
      /\ intent \in Rows(Intent) /\ fetch \in Rows(Fetch)
  BY Typed, ElementOfSeq DEF IntakeInv, IntakeTypeOK
<1>3. /\ i.status = "none" /\ reservePreparation(o)
      /\ tickets[t].owner = o /\ tickets[t].commit = c /\ ~tickets[t].consumed
      /\ meaningful(tickets[t].ticks, AdmissionFrontier, metric)
  BY DEF createIntent, Consumable, Live, FrontierImprovement
<1>4. Put(intent, intent', o, c, k)
  BY DEF createIntent, Put
<1>5. Put(fetch, fetch', o, c, g)
  BY DEF createIntent, Put
<1>6. tickets' = [tickets EXCEPT ![t] = u]
  BY DEF createIntent
<1>7. /\ k \in Intent /\ k.status = "github_fetch" /\ k.ticket = t /\ k.artifact = i.artifact
  BY <1>1, <1>2 DEF Intent, IntentStatus
<1>8. g \in Fetch /\ g.status = "queued" /\ g.inFlight = f.inFlight
  BY <1>1 DEF Fetch, TaskStatus
<1>9. /\ u \in Ticket /\ u.consumed /\ u.frontier = AdmissionFrontier
      /\ u.owner = tickets[t].owner /\ u.commit = tickets[t].commit
      /\ u.ticks = tickets[t].ticks /\ u.artifact = tickets[t].artifact
  <2>1. AdmissionFrontier \in Int
    BY FrontierTyped DEF IntakeInv
  <2>. QED BY <1>2, <2>1 DEF Ticket
<1>. HIDE DEF k, g, u
<1>10. /\ tickets' \in Seq(Ticket) /\ Len(tickets') = Len(tickets)
       /\ DOMAIN tickets' = DOMAIN tickets /\ tickets'[t] = u
       /\ \A v \in DOMAIN tickets : v # t => tickets'[v] = tickets[v]
  BY <1>2, <1>6, <1>9
<1>11. /\ intent' \in Rows(Intent) /\ intent'[o][c] = k
       /\ \A p \in Owners, e \in Commits : p # o \/ e # c => intent'[p][e] = intent[p][e]
  BY <1>2, <1>4, <1>7, PutAt
<1>12. /\ fetch' \in Rows(Fetch) /\ fetch'[o][c] = g
       /\ \A p \in Owners, e \in Commits : p # o \/ e # c => fetch'[p][e] = fetch[p][e]
  BY <1>2, <1>5, <1>8, PutAt
<1>13. UNCHANGED <<frontier, expired, candidate, job, submitted, version>>
  BY DEF createIntent
<1>14. IntakeTypeOK'
  BY <1>10, <1>11, <1>12, <1>13, Typed, TypedNext DEF IntakeInv, IntakeTypeOK
<1>15. RowsOK'
  <2>. SUFFICES ASSUME NEW p \in Owners, NEW e \in Commits
                PROVE  RowOK(intent'[p][e], fetch'[p][e], job'[p][e])
    BY DEF RowsOK
  <2>1. CASE p = o /\ e = c
    <3>1. RowOK(k, g, j)
      BY <1>1, <1>3, <1>7, <1>8 DEF RowOK
    <3>. QED BY <1>11, <1>12, <1>13, <2>1, <3>1
  <2>2. CASE p # o \/ e # c
    BY <1>11, <1>12, <1>13, <2>2 DEF IntakeInv, RowsOK
  <2>. QED BY <2>1, <2>2
<1>16. AllAdmitted'
  <2>. SUFFICES ASSUME NEW p \in Owners, NEW e \in Commits
                PROVE  Admitted(p, e, intent'[p][e], tickets')
    BY DEF AllAdmitted
  <2>1. CASE p = o /\ e = c
    <3>1. i.artifact = None
      BY <1>1, <1>3 DEF RowOK
    <3>2. Admitted(o, c, k, tickets')
      BY <1>3, <1>7, <1>9, <1>10, <3>1 DEF Admitted
    <3>. QED BY <1>11, <2>1, <3>2
  <2>2. CASE p # o \/ e # c
    <3>1. Admitted(p, e, intent[p][e], tickets')
      BY <1>3, <1>10, TicketsKept DEF IntakeInv
    <3>. QED BY <1>11, <2>2, <3>1
  <2>. QED BY <2>1, <2>2
<1>17. ActiveBounded'
  <2>1. \A p \in Owners : Resolving(p)' = Resolving(p)
    BY <1>13 DEF Resolving
  <2>2. \A p \in Owners : p # o => Held(p)' = Held(p)
    BY <1>11 DEF Held
  <2>3. Held(o)' \subseteq Held(o) \cup {c}
    BY <1>11 DEF Held
  <2>. QED BY <1>3, <2>1, <2>2, <2>3, BudgetGrows DEF IntakeInv
<1>18. AcceptedKept
  BY <1>3, <1>11 DEF AcceptedKept
<1>. QED BY <1>14, <1>15, <1>16, <1>17, <1>18 DEF StepOK, IntakeInv

LEMMA RowCancelled ==
  ASSUME NEW i, NEW f, NEW j, NEW l, RowOK(i, f, j),
         l.status = IF j.status \in {"queued", "attention_required"}
                    THEN "cancelled" ELSE j.status
  PROVE  RowOK(i, f, l)
<1>1. CASE j.status \in {"queued", "attention_required"}
  <2>1. l.status = "cancelled"
    BY <1>1
  <2>2. i.status \notin {"none", "github_fetch"}
    BY <1>1 DEF RowOK
  <2>. QED BY <2>1, <2>2 DEF RowOK
<1>2. CASE j.status \notin {"queued", "attention_required"}
  <2>1. l.status = j.status
    BY <1>2
  <2>. QED BY <2>1 DEF RowOK
<1>. QED BY <1>1, <1>2

(* resolve_unscorable writes the jobs of every intent of the version. *)
LEMMA ResolveStep ==
  ASSUME IntakeInv, ResolveUnscorable
  PROVE  StepOK
<1>1. \A o \in Owners, c \in Commits :
        /\ job[o][c] \in Job /\ RowOK(intent[o][c], fetch[o][c], job[o][c])
        /\ job'[o][c] = IF job[o][c].status \in {"queued", "attention_required"}
                        THEN [job[o][c] EXCEPT !.status = "cancelled"] ELSE job[o][c]
  BY TheRow DEF ResolveUnscorable
<1>2. \A o \in Owners, c \in Commits :
        /\ job'[o][c] \in Job
        /\ job'[o][c].status = IF job[o][c].status \in {"queued", "attention_required"}
                               THEN "cancelled" ELSE job[o][c].status
  <2>. TAKE o \in Owners, c \in Commits
  <2>1. CASE job[o][c].status \in {"queued", "attention_required"}
    <3>1. job'[o][c] = [job[o][c] EXCEPT !.status = "cancelled"] /\ job[o][c] \in Job
      BY <1>1, <2>1
    <3>2. "cancelled" \in JobStatus
      BY DEF JobStatus
    <3>3. job'[o][c] \in Job /\ job'[o][c].status = "cancelled"
      BY <3>1, <3>2 DEF Job
    <3>. QED BY <2>1, <3>3
  <2>2. CASE job[o][c].status \notin {"queued", "attention_required"}
    BY <1>1, <2>2
  <2>. QED BY <2>1, <2>2
<1>3. UNCHANGED <<frontier, tickets, expired, candidate, intent, fetch, submitted>>
      /\ version' = "compromised"
  BY DEF ResolveUnscorable, ticketVars
<1>4. job' \in Rows(Job)
  BY <1>2 DEF ResolveUnscorable, Rows
<1>5. IntakeTypeOK'
  BY <1>3, <1>4, Typed, TypedNext DEF IntakeInv, IntakeTypeOK
<1>6. RowsOK'
  <2>. SUFFICES ASSUME NEW o \in Owners, NEW c \in Commits
                PROVE  RowOK(intent[o][c], fetch[o][c], job'[o][c])
    BY <1>3 DEF RowsOK
  <2>. QED BY <1>1, <1>2, RowCancelled
<1>7. AllAdmitted' /\ AcceptedKept
  BY <1>3 DEF IntakeInv, AllAdmitted, AcceptedKept
<1>8. ActiveBounded'
  BY <1>3 DEF IntakeInv, ActiveBounded
<1>. QED BY <1>5, <1>6, <1>7, <1>8 DEF StepOK, IntakeInv

-----------------------------------------------------------------------------
LEMMA IntakeInit == Init => IntakeInv
<1>. SUFFICES ASSUME Init PROVE IntakeInv
  OBVIOUS
<1>1. NoIntent \in Intent /\ NoTask \in Fetch /\ NoJob \in Job
  BY DEF NoIntent, NoTask, NoJob, Intent, Fetch, Job, IntentStatus, JobStatus, TaskStatus, NoTicket
<1>2. IntakeTypeOK
  BY <1>1, IntakeAssumption DEF Init, IntakeTypeOK, Metric
<1>3. RowsOK
  BY DEF Init, RowsOK, RowOK, NoIntent, NoTask, NoJob
<1>4. AllAdmitted
  BY DEF Init, AllAdmitted, Admitted, NoIntent
<1>5. ActiveBounded
  <2>1. \A o \in Owners : Resolving(o) = {} /\ Held(o) = {}
    BY DEF Init, Resolving, Held, Holding, NoIntent
  <2>2. Cardinality({}) = 0
    BY FS_EmptySet
  <2>. QED BY <2>1, <2>2, BudgetForm, IntakeAssumption
<1>. QED BY <1>2, <1>3, <1>4, <1>5 DEF IntakeInv

LEMMA IntakeStep == IntakeInv /\ [Next]_vars => IntakeInv' /\ AcceptedKept
<1>. SUFFICES ASSUME IntakeInv, [Next]_vars PROVE IntakeInv' /\ AcceptedKept
  OBVIOUS
<1>1. CASE UNCHANGED vars
  <2>1. IntakeTypeOK' /\ RowsOK' /\ AllAdmitted' /\ AcceptedKept
    BY <1>1 DEF IntakeInv, IntakeTypeOK, RowsOK, AllAdmitted, AcceptedKept, vars,
                ticketVars, workVars
  <2>2. ActiveBounded'
    BY <1>1 DEF IntakeInv, ActiveBounded, vars, workVars
  <2>. QED BY <2>1, <2>2 DEF IntakeInv
<1>2. CASE Next
  <2>1. CASE ExpireTicket \/ (\E n \in Scored : AdvanceFrontier(n))
             \/ (\E a \in Rivals : OthersAccept(a))
    BY <2>1, QuietStep DEF StepOK
  <2>5. CASE ResolveUnscorable
    BY <2>5, ResolveStep DEF StepOK
  <2>2. CASE \E q \in Claims : createFrontierTicket(q)
    BY <2>2, TicketStep DEF StepOK
  <2>3. CASE \E k \in Candidates : ImportCandidate(k) \/ ResolveCandidate(k)
    BY <2>3, CandidateStep DEF StepOK
  <2>4. ASSUME NEW o \in Owners, NEW c \in Commits,
               \/ \E t \in DOMAIN tickets : createIntent(o, c, t)
               \/ FetchStep(o, c) \/ PreparationStep(o, c) \/ acceptIntent(o, c)
        PROVE  IntakeInv' /\ AcceptedKept
    BY <2>4, CreateStep, BeginFetchStep, EndFetchStep, CommitArtifactStep,
       FailArtifactStep, LosePreparationStep, FaultPreparationStep, AcceptStep
       DEF FetchStep, PreparationStep, StepOK
  <2>. QED BY <1>2, <2>1, <2>2, <2>3, <2>4, <2>5 DEF Next
<1>. QED BY <1>1, <1>2

LEMMA IntakeInvariant == Spec => []IntakeInv
<1>1. IntakeInv /\ [Next]_vars => IntakeInv'
  BY IntakeStep
<1>. QED BY <1>1, IntakeInit, PTL DEF Spec

(* Tickets, intents, tasks and jobs keep their types. *)
THEOREM IntakeTypeCorrect == Spec => []IntakeTypeOK
<1>1. IntakeInv => IntakeTypeOK
  BY DEF IntakeInv
<1>. QED BY <1>1, IntakeInvariant, PTL

(* Every intent was admitted by one consumed ticket of its own, whose claim    *)
(* improved the frontier it was consumed at (consumeFrontierTicket).           *)
THEOREM IntentsAreAdmitted == Spec => []AdmissionBound
<1>1. IntakeInv => AdmissionBound
  <2>. SUFFICES ASSUME IntakeInv, NEW o \in Owners, NEW c \in Commits,
                       intent[o][c].status # "none"
                PROVE  /\ intent[o][c].ticket \in DOMAIN tickets
                       /\ tickets[intent[o][c].ticket].consumed
                       /\ tickets[intent[o][c].ticket].owner = o
                       /\ tickets[intent[o][c].ticket].commit = c
                       /\ meaningful(tickets[intent[o][c].ticket].ticks,
                                     tickets[intent[o][c].ticket].frontier, metric)
                       /\ intent[o][c].artifact
                            \in {None, tickets[intent[o][c].ticket].artifact}
                       /\ \A p \in Owners, e \in Commits :
                            intent[p][e].ticket = intent[o][c].ticket => p = o /\ e = c
    BY DEF AdmissionBound
  <2>1. Admitted(o, c, intent[o][c], tickets)
    BY DEF IntakeInv, AllAdmitted
  <2>2. ASSUME NEW p \in Owners, NEW e \in Commits,
               intent[p][e].ticket = intent[o][c].ticket
        PROVE  p = o /\ e = c
    <3>1. intent[o][c].ticket # NoTicket
      BY <2>1 DEF Admitted, NoTicket, IntakeInv, IntakeTypeOK
    <3>2. intent[p][e].status # "none"
      BY <2>2, <3>1 DEF IntakeInv, RowsOK, RowOK
    <3>3. Admitted(p, e, intent[p][e], tickets)
      BY DEF IntakeInv, AllAdmitted
    <3>. QED BY <2>1, <2>2, <3>2, <3>3 DEF Admitted
  <2>. QED BY <2>1, <2>2 DEF Admitted
<1>. QED BY <1>1, IntakeInvariant, PTL

(* No interleaving of imports, intents and their ends exceeds the budget of an *)
(* account (reservePreparation).                                               *)
THEOREM PreparationsAreBounded == Spec => []ActiveBounded
<1>1. IntakeInv => ActiveBounded
  BY DEF IntakeInv
<1>. QED BY <1>1, IntakeInvariant, PTL

(* No late failure takes an acceptance back (failIntent, commitBuild).         *)
THEOREM AcceptanceStands == Spec => AcceptedStays
<1>1. IntakeInv /\ [Next]_vars => AcceptedKept
  BY IntakeStep
<1>2. AcceptedKept => [\A o \in Owners, c \in Commits :
         intent[o][c].status = "accepted" => intent'[o][c].status = "accepted"]_vars
  BY DEF AcceptedKept
<1>. QED BY <1>1, <1>2, IntakeInvariant, PTL DEF Spec, AcceptedStays

(* Only the end of the version cancels the job of an intent. *)
CancelledWith == \A o \in Owners, c \in Commits :
                   job[o][c].status = "cancelled" => version = "compromised"

LEMMA LosePreparationPut ==
  ASSUME IntakeInv, NEW o \in Owners, NEW c \in Commits, NEW d \in Disks \cup {None},
         LosePreparation(o, c, d)
  PROVE  version' = version /\ \E l : Put(job, job', o, c, l) /\ l.status # "cancelled"
<1>. DEFINE j == job[o][c]
            s == IF j.tries + 1 >= MaxTries THEN "attention_required" ELSE j.status
            e == IF d = None THEN j.declared ELSE d
            x == IF Policy = "platform" THEN j.excluded ELSE j.excluded + 1
            l == [j EXCEPT !.status = s, !.tries = j.tries + 1, !.declared = e,
                           !.excluded = x]
<1>1. j \in Job /\ j.status = "queued" /\ version' = version
  BY TheRow DEF LosePreparation, Claimable
<1>2. Put(job, job', o, c, l)
  <2>1. job' = [job EXCEPT ![o][c].status = s, ![o][c].tries = job[o][c].tries + 1,
                           ![o][c].declared = e, ![o][c].excluded = x]
    BY DEF LosePreparation
  <2>. HIDE DEF s, e, x
  <2>. QED BY <2>1 DEF Put
<1>3. s # "cancelled"
  BY <1>1
<1>. HIDE DEF s, e, x
<1>4. l.status = s
  BY <1>1 DEF Job
<1>. HIDE DEF l
<1>. QED BY <1>1, <1>2, <1>3, <1>4

LEMMA CancelledStep ==
  ASSUME IntakeInv, CancelledWith, [Next]_vars
  PROVE  CancelledWith'
<1>. SUFFICES ASSUME NEW o \in Owners, NEW c \in Commits, job'[o][c].status = "cancelled"
              PROVE  version' = "compromised"
  BY DEF CancelledWith
<1>0. job \in Rows(Job)
  BY Typed DEF IntakeInv
<1>1. CASE ResolveUnscorable
  BY <1>1 DEF ResolveUnscorable
<1>2. CASE UNCHANGED <<job, version>>
  BY <1>2 DEF CancelledWith
<1>3. ASSUME NEW p \in Owners, NEW e \in Commits,
             FetchStep(p, e) \/ PreparationStep(p, e)
      PROVE  version' = "compromised"
  <2>1. version' = version /\ \E l : /\ Put(job, job', p, e, l)
                                     /\ l.status # "cancelled" \/ l = job[p][e]
    <3>1. CASE BeginFetch(p, e) \/ FailFetch(p, e) \/ LoseFetch(p, e)
      <4>1. version' = version /\ job' = job
        BY <3>1 DEF BeginFetch, FailFetch, LoseFetch
      <4>. QED BY <1>0, <4>1, PutSame
    <3>2. CASE StoreFetch(p, e)
      <4>. DEFINE l == [job[p][e] EXCEPT !.status =
                          IF job[p][e].status = "none" THEN "queued" ELSE job[p][e].status]
      <4>1. version' = version /\ Put(job, job', p, e, l)
        BY <3>2 DEF StoreFetch, Put
      <4>2. job[p][e] \in Job
        BY <1>0 DEF Rows
      <4>3. l.status # "cancelled" \/ l = job[p][e]
        BY <4>2 DEF Job
      <4>. QED BY <4>1, <4>3
    <3>3. CASE FailArtifact(p, e)
      <4>. DEFINE l == [job[p][e] EXCEPT !.status = "complete"]
      <4>1. version' = version /\ Put(job, job', p, e, l)
        BY <3>3 DEF FailArtifact, Put
      <4>2. job[p][e] \in Job
        BY <1>0 DEF Rows
      <4>3. l.status # "cancelled"
        BY <4>2 DEF Job
      <4>. QED BY <4>1, <4>3
    <3>4. ASSUME NEW d \in Disks, CommitArtifact(p, e, d)
          PROVE  version' = version /\ \E l : /\ Put(job, job', p, e, l)
                                              /\ l.status # "cancelled" \/ l = job[p][e]
      <4>. DEFINE l == [job[p][e] EXCEPT !.status = "complete", !.declared = d]
      <4>1. version' = version /\ Put(job, job', p, e, l)
        BY <3>4 DEF CommitArtifact, Put
      <4>2. job[p][e] \in Job
        BY <1>0 DEF Rows
      <4>3. l.status # "cancelled"
        BY <4>2 DEF Job
      <4>. QED BY <4>1, <4>3
    <3>5. ASSUME NEW d \in Disks \cup {None}, LosePreparation(p, e, d)
          PROVE  version' = version /\ \E l : /\ Put(job, job', p, e, l)
                                              /\ l.status # "cancelled" \/ l = job[p][e]
      BY <3>5, LosePreparationPut
    <3>6. ASSUME NEW d \in Disks \cup {None}, FaultPreparation(p, e, d)
          PROVE  version' = version /\ \E l : /\ Put(job, job', p, e, l)
                                              /\ l.status # "cancelled" \/ l = job[p][e]
      <4>. DEFINE j == job[p][e]
                  q == IF d = None THEN j.declared ELSE d
                  l == [j EXCEPT !.tries = j.tries + 1, !.declared = q,
                                 !.excluded = j.excluded + 1]
      <4>1. version' = version /\ j.status = "queued"
            /\ job' = [job EXCEPT ![p][e].tries = job[p][e].tries + 1,
                                  ![p][e].declared = q,
                                  ![p][e].excluded = job[p][e].excluded + 1]
        BY <3>6 DEF FaultPreparation, Claimable
      <4>2. j \in Job
        BY <1>0 DEF Rows
      <4>. HIDE DEF q
      <4>3. Put(job, job', p, e, l)
        <5>1. job' = [job EXCEPT ![p][e].tries = job[p][e].tries + 1,
                                 ![p][e].declared = q,
                                 ![p][e].excluded = job[p][e].excluded + 1]
          BY <4>1
        <5>. QED BY <5>1 DEF Put
      <4>4. l.status = j.status
        BY <4>2 DEF Job
      <4>. QED BY <4>1, <4>3, <4>4
    <3>. QED BY <1>3, <3>1, <3>2, <3>3, <3>4, <3>5, <3>6 DEF FetchStep, PreparationStep
  <2>2. PICK l : /\ Put(job, job', p, e, l)
                 /\ l.status # "cancelled" \/ l = job[p][e]
    BY <2>1
  <2>3. job'[o][c] = IF o = p /\ c = e THEN l ELSE job[o][c]
    BY <1>0, <2>2 DEF Put, Rows
  <2>. QED BY <2>1, <2>2, <2>3 DEF CancelledWith
<1>4. Next => \/ ResolveUnscorable \/ UNCHANGED <<job, version>>
              \/ \E p \in Owners, e \in Commits : FetchStep(p, e) \/ PreparationStep(p, e)
  <2>1. ExpireTicket \/ (\E n \in Scored : AdvanceFrontier(n))
        \/ (\E a \in Rivals : OthersAccept(a)) => UNCHANGED <<job, version>>
    BY DEF ExpireTicket, AdvanceFrontier, OthersAccept, workVars
  <2>2. (\E q \in Claims : createFrontierTicket(q)) => UNCHANGED <<job, version>>
    BY DEF createFrontierTicket, workVars
  <2>3. (\E k \in Candidates : ImportCandidate(k) \/ ResolveCandidate(k))
          => UNCHANGED <<job, version>>
    BY DEF ImportCandidate, ResolveCandidate, workVars
  <2>4. ASSUME NEW p \in Owners, NEW e \in Commits,
               (\E t \in DOMAIN tickets : createIntent(p, e, t)) \/ acceptIntent(p, e)
        PROVE  UNCHANGED <<job, version>>
    <3>1. ASSUME NEW t \in DOMAIN tickets, createIntent(p, e, t)
          PROVE  UNCHANGED <<job, version>>
      BY <3>1 DEF createIntent
    <3>2. acceptIntent(p, e) => UNCHANGED <<job, version>>
      BY DEF acceptIntent
    <3>. QED BY <2>4, <3>1, <3>2
  <2>. QED BY <2>1, <2>2, <2>3, <2>4 DEF Next
<1>5. UNCHANGED vars => UNCHANGED <<job, version>>
  BY DEF vars, workVars
<1>. QED BY <1>1, <1>2, <1>3, <1>4, <1>5

(* An intent that waits for its fetch or its preparation always has a task or  *)
(* a job that will end it or that an operator sees, through every lost attempt *)
(* and every commit that went unacknowledged (createIntent, fetchSubmission,   *)
(* commitBuild, recoverRunnerLeases); its job may be one that no host is left  *)
(* to claim, and it is a cancelled one only when resolve_unscorable has ended  *)
(* the version.                                                                *)
THEOREM WaitingIntentsHaveWork == Spec => []IntentHasWork
<1>1. Init => CancelledWith
  BY DEF Init, CancelledWith, NoJob
<1>2. IntakeInv /\ CancelledWith /\ [Next]_vars => CancelledWith'
  BY CancelledStep
<1>3. ASSUME IntakeInv, CancelledWith
      PROVE  IntentHasWork
  <2>1. \A o \in Owners, c \in Commits :
          /\ RowOK(intent[o][c], fetch[o][c], job[o][c])
          /\ job[o][c].excluded < PoolSize \/ job[o][c].excluded >= PoolSize
    <3>. TAKE o \in Owners, c \in Commits
    <3>1. job[o][c].excluded \in Nat /\ PoolSize \in Nat
      BY <1>3, Typed, IntakeAssumption DEF IntakeInv, Job
    <3>. QED BY <1>3, <3>1 DEF IntakeInv, RowsOK
  <2>. QED BY <1>3, <2>1 DEF RowOK, IntentHasWork, CancelledWith, Claimable, Stranded
<1>. QED BY <1>1, <1>2, <1>3, IntakeInvariant, PTL DEF Spec
=============================================================================
