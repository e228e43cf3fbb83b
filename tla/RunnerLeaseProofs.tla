------------------------- MODULE RunnerLeaseProofs -------------------------
(***************************************************************************)
(* Theorems about RunnerLease, for every set of jobs and hosts and every   *)
(* bound.                                                                  *)
(***************************************************************************)
EXTENDS RunnerLease, TLAPS

-----------------------------------------------------------------------------
(* The inductive invariant *)

(* A running row has a holder and the token of its latest claim; a row is     *)
(* complete exactly when its result is stored.                                *)
RowsSound ==
  \A j \in Jobs :
    /\ row[j].status = "running" => row[j].holder \in Hosts /\ row[j].token \in Nat
    /\ row[j].expired => row[j].status = "running"
    /\ result[j] # NULL <=> row[j].status = "complete"

(* A daemon that serves, claims or executes has an empty spool and waits for  *)
(* no answer; only a daemon with a persisted delivery does.                   *)
DaemonsSound ==
  \A h \in Hosts :
    /\ daemon[h] \in {"idle", "claiming", "executing"} => spool[h] = NULL
    /\ reply[h] # "none" => spool[h] # NULL /\ daemon[h] \in {"starting", "delivering"}
    /\ daemon[h] = "executing" <=> holding[h] # NULL
    /\ daemon[h] = "delivering" => spool[h] # NULL
    /\ reply[h] = "accepted" => spool[h] \in taken

TypeInv == TypeOK /\ RowsSound /\ DaemonsSound

(* A lease that anything still names was granted under a fence the row has    *)
(* reached; if the row still has that fence, it is the row's own lease.       *)
FenceInv ==
  \A l \in KnownLeases :
    /\ l \in Lease
    /\ l.fence <= row[l.job].fence
    /\ l.fence = row[l.job].fence =>
         /\ row[l.job].status \in {"running", "complete"}
         /\ row[l.job].token = l.token /\ row[l.job].holder = l.host

(* A claim handler read its row before any later exclusion. *)
ClaimInv ==
  \A c \in claims :
    /\ c.fence <= row[c.job].fence
    /\ c.fence = row[c.job].fence => c.host \notin row[c.job].excluded

StoredInv ==
  \A d \in taken : d.outcome # Fault =>
    /\ result[d.lease.job] = d
    /\ row[d.lease.job].status = "complete"
    /\ row[d.lease.job].token = d.lease.token

LeaseInv == /\ TypeInv /\ FenceInv /\ FencesDistinct
            /\ ClaimInv /\ ExcludedNeverRuns /\ StoredInv

-----------------------------------------------------------------------------
(* Rows *)

(* The four ways a handler rewrites a row keep it well typed. *)
LEMMA RowTypes ==
  ASSUME NEW j \in Jobs, NEW r \in Row
  PROVE  /\ \A h \in Hosts : Granted(r, h) \in Row /\ Faulted(r, h) \in Row
         /\ [r EXCEPT !.expired = TRUE] \in Row
         /\ [r EXCEPT !.status = "complete", !.expired = FALSE] \in Row
         /\ [r EXCEPT !.status = "cancelled", !.fence = r.fence + 1,
                      !.expired = FALSE] \in Row
         /\ r.holder \in Hosts => Recovered(j, r) \in Row
<1> /\ r.fence \in Nat /\ r.fence + 1 \in Nat
    /\ r.attempts \in Nat /\ r.attempts + 1 \in Nat
    /\ r.excluded \subseteq Hosts
  BY DEF Row
<1>1. ASSUME NEW h \in Hosts PROVE Granted(r, h) \in Row
  BY DEF Row, RowStatus, Granted
<1>2. ASSUME NEW h \in Hosts PROVE Faulted(r, h) \in Row
  BY DEF Row, RowStatus, Faulted
<1>3. [r EXCEPT !.expired = TRUE] \in Row
  BY DEF Row
<1>4. [r EXCEPT !.status = "complete", !.expired = FALSE] \in Row
  BY DEF Row, RowStatus
<1>5. [r EXCEPT !.status = "cancelled", !.fence = r.fence + 1, !.expired = FALSE] \in Row
  BY DEF Row, RowStatus
<1>6. ASSUME r.holder \in Hosts PROVE Recovered(j, r) \in Row
  BY <1>6, LeaseAssumption DEF Row, RowStatus, Recovered
<1> QED BY <1>1, <1>2, <1>3, <1>4, <1>5, <1>6

(* What a step other than a claim may do to a row: a row under an unchanged   *)
(* fence keeps its token, holder and exclusions, and nothing starts running.  *)
RowKept(r, s) ==
  /\ s.fence >= r.fence
  /\ s.attempts = r.attempts
  /\ s.status = "running" => r.status = "running" /\ s.fence = r.fence
  /\ s.fence = r.fence =>
       /\ s.token = r.token /\ s.holder = r.holder /\ s.excluded = r.excluded
       /\ r.status \in {"running", "complete"} => s.status \in {"running", "complete"}
  /\ r.status = "complete" => s = r

RowsKept == \A j \in Jobs : RowKept(row[j], row'[j])

(* Claim handlers are only dropped or orphaned. *)
ClaimsKept ==
  \A c \in claims' : \E b \in claims : /\ c.job = b.job /\ c.host = b.host
                                       /\ c.fence = b.fence

(* Orphaning a host's claims changes nothing but who waits. *)
LEMMA OrphanedClaims ==
  ASSUME NEW h \in Hosts, claims \subseteq Claim, claims' = Orphaned(h)
  PROVE  ClaimsKept /\ claims' \subseteq Claim
<1>1. ASSUME NEW c \in claims'
      PROVE  /\ c \in Claim
             /\ \E b \in claims : c.job = b.job /\ c.host = b.host /\ c.fence = b.fence
  <2>1. PICK b \in claims : c = IF b.host = h THEN [b EXCEPT !.waiting = FALSE] ELSE b
    BY <1>1 DEF Orphaned
  <2>2. b \in Claim
    OBVIOUS
  <2> QED BY <2>1, <2>2 DEF Claim
<1> QED BY <1>1 DEF ClaimsKept

(* The database is well typed at first and no lease exists. *)
LEMMA InitLeaseInv == Init => LeaseInv
<1> SUFFICES ASSUME Init PROVE LeaseInv
  OBVIOUS
<1>1. TypeOK
  BY LeaseAssumption DEF Init, TypeOK, Row, RowStatus, DaemonState
<1>2. RowsSound /\ DaemonsSound /\ ExcludedNeverRuns /\ ClaimInv /\ StoredInv
  BY DEF Init, RowsSound, DaemonsSound, ExcludedNeverRuns, ClaimInv, StoredInv
<1>3. KnownLeases = {}
  BY DEF Init, KnownLeases
<1> QED BY <1>1, <1>2, <1>3 DEF LeaseInv, TypeInv, FenceInv, FencesDistinct

-----------------------------------------------------------------------------
(* Steps of the API on its rows *)

(* LeaseExpires, RecoverRunnerLeases and CancelJobs keep TypeInv and are      *)
(* rewritings of rows under a new fence or of nothing a lease depends on.     *)
LEMMA RowSteps ==
  ASSUME TypeInv,
         (\E j \in Jobs : LeaseExpires(j)) \/ RecoverRunnerLeases \/ CancelJobs
  PROVE  /\ TypeInv' /\ RowsKept
         /\ UNCHANGED <<result, claims, taken, posts, hostVars>>
<1> USE DEF TypeInv
<1>1. UNCHANGED <<result, claims, taken, posts, hostVars, faults>>
  BY DEF LeaseExpires, RecoverRunnerLeases, CancelJobs
<1>2. row' \in [Jobs -> Row] /\ RowsKept /\ RowsSound'
  <2>1. CASE \E j \in Jobs : LeaseExpires(j)
    <3>1. PICK j \in Jobs : LeaseExpires(j)
      BY <2>1
    <3>2. row' = [row EXCEPT ![j].expired = TRUE] /\ row[j].status = "running"
      BY <3>1 DEF LeaseExpires
    <3>3. row'[j] = [row[j] EXCEPT !.expired = TRUE]
      BY <3>2 DEF TypeOK
    <3>4. row \in [Jobs -> Row] /\ \A k \in Jobs : k # j => row'[k] = row[k]
      BY <3>2 DEF TypeOK
    <3>5. row' \in [Jobs -> Row]
      BY ZenonT(60), <3>2, <3>3, <3>4 DEF Row
    <3>6. RowsKept
      BY <3>2, <3>3, <3>4 DEF RowsKept, RowKept, Row
    <3>7. RowsSound'
      BY <1>1, <3>2, <3>3, <3>4 DEF RowsSound, Row
    <3> QED BY <3>5, <3>6, <3>7
  <2>2. CASE RecoverRunnerLeases
    <3>1. row' = [j \in Jobs |-> IF row[j].expired THEN Recovered(j, row[j]) ELSE row[j]]
      BY <2>2 DEF RecoverRunnerLeases
    <3>2. ASSUME NEW j \in Jobs
          PROVE  /\ row'[j] \in Row /\ RowKept(row[j], row'[j])
                 /\ row'[j].status = "running" => row'[j] = row[j]
                 /\ row'[j].expired => row'[j] = row[j]
                 /\ row'[j].status = "complete" <=> row[j].status = "complete"
      <4>1. row[j] \in Row
        BY DEF TypeOK
      <4>2. CASE ~row[j].expired
        BY <3>1, <4>1, <4>2 DEF RowKept, Row
      <4>3. CASE row[j].expired
        <5>1. row[j].status = "running" /\ row[j].holder \in Hosts
          BY <4>3 DEF RowsSound
        <5>2. row'[j] = Recovered(j, row[j])
          BY <3>1, <4>3
        <5>3. Recovered(j, row[j]) \in Row
          BY <4>1, <5>1, RowTypes
        <5> QED BY <4>1, <5>1, <5>2, <5>3 DEF Recovered, RowKept, Row
      <4> QED BY <4>2, <4>3
    <3>3. row' \in [Jobs -> Row]
      BY <3>1, <3>2
    <3>4. RowsSound'
      BY <1>1, <3>2 DEF RowsSound
    <3> QED BY <3>2, <3>3, <3>4 DEF RowsKept
  <2>3. CASE CancelJobs
    <3> DEFINE live == {"queued", "running", "attention_required"}
    <3>1. row' = [j \in Jobs |-> IF row[j].status \in live
                            THEN [row[j] EXCEPT !.status = "cancelled",
                                                !.fence = row[j].fence + 1,
                                                !.expired = FALSE]
                            ELSE row[j]]
      BY <2>3 DEF CancelJobs
    <3>2. ASSUME NEW j \in Jobs
          PROVE  /\ row'[j] \in Row /\ RowKept(row[j], row'[j])
                 /\ row'[j].status = "running" => row'[j] = row[j]
                 /\ row'[j].expired => row'[j] = row[j]
                 /\ row'[j].status = "complete" <=> row[j].status = "complete"
      <4>1. row[j] \in Row
        BY DEF TypeOK
      <4>2. CASE row[j].status \notin live
        <5>1. row'[j] = row[j]
          BY <3>1, <4>2
        <5> QED BY <4>1, <5>1 DEF RowKept, Row
      <4>3. CASE row[j].status \in live
        <5> DEFINE s == [row[j] EXCEPT !.status = "cancelled",
                                       !.fence = row[j].fence + 1, !.expired = FALSE]
        <5>1. row'[j] = s
          BY <3>1, <4>3
        <5>2. row[j].status # "complete"
          BY <4>3
        <5>3. s \in Row
          BY <4>1, RowTypes
        <5>4. /\ s.status = "cancelled" /\ s.expired = FALSE
              /\ s.fence = row[j].fence + 1 /\ s.attempts = row[j].attempts
              /\ row[j].fence \in Nat
          BY <4>1 DEF Row
        <5> HIDE DEF s
        <5> QED BY <5>1, <5>2, <5>3, <5>4 DEF RowKept
      <4> QED BY <4>2, <4>3
    <3>3. row' \in [Jobs -> Row]
      BY <3>1, <3>2
    <3>4. RowsSound'
      BY <1>1, <3>2 DEF RowsSound
    <3> QED BY <3>2, <3>3, <3>4 DEF RowsKept
  <2> QED BY <2>1, <2>2, <2>3
<1>3. TypeOK'
  BY <1>1, <1>2 DEF TypeOK, hostVars
<1>4. DaemonsSound'
  BY <1>1 DEF DaemonsSound, hostVars
<1> QED BY <1>1, <1>2, <1>3, <1>4

-----------------------------------------------------------------------------
(* Steps of the daemons *)

(* A step that passes leases on, from a host's hands to its spool, to a post  *)
(* and to the accepted deliveries, makes no lease known.                      *)
LEMMA LeasesPassedOn ==
  ASSUME \A x \in Hosts : holding'[x] # NULL => holding'[x] = holding[x],
         \A x \in Hosts : spool'[x] # NULL =>
           \/ spool'[x] = spool[x]
           \/ holding[x] # NULL /\ spool'[x].lease = holding[x],
         \A d \in posts' : d \in posts \/ \E x \in Hosts : spool[x] # NULL /\ d = spool[x],
         taken' \subseteq taken \cup posts
  PROVE  KnownLeases' \subseteq KnownLeases
<1> SUFFICES ASSUME NEW l \in KnownLeases' PROVE l \in KnownLeases
  OBVIOUS
<1>1. CASE \E x \in Hosts : holding'[x] # NULL /\ l = holding'[x]
  BY <1>1 DEF KnownLeases
<1>2. CASE \E d \in posts' \cup taken' : l = d.lease
  BY <1>2 DEF KnownLeases
<1>3. CASE \E x \in Hosts : spool'[x] # NULL /\ l = spool'[x].lease
  BY <1>3 DEF KnownLeases
<1> QED BY <1>1, <1>2, <1>3 DEF KnownLeases

(* A daemon's step leaves the rows alone, keeps TypeInv and the claims' facts *)
(* and makes no lease known.                                                  *)
LEMMA HostSteps ==
  ASSUME TypeInv, ClaimInv, NEW h \in Hosts, HostStep(h)
  PROVE  /\ UNCHANGED <<row, result, taken>>
         /\ TypeInv' /\ ClaimInv'
         /\ KnownLeases' \subseteq KnownLeases
<1> USE DEF TypeInv
<1>1. UNCHANGED <<row, result, taken>>
  BY DEF HostStep, SelectJob, AbandonClaim, RunFails, FinishRun, PostResult,
         PostTimesOut, HandleReply, StartServing, Crash, Restart, serverVars
<1>2. RowsSound'
  BY <1>1 DEF RowsSound
<1>3. ASSUME claims' = claims \/ claims' = Orphaned(h)
      PROVE  claims' \subseteq Claim /\ ClaimInv'
  <2>1. ClaimsKept /\ claims' \subseteq Claim
    BY <1>3, OrphanedClaims DEF TypeOK, ClaimsKept
  <2> QED BY <1>1, <2>1 DEF ClaimInv, ClaimsKept
<1>4. CASE \E j \in Jobs : SelectJob(h, j)
  <2>1. PICK j \in Jobs : SelectJob(h, j)
    BY <1>4
  <2> DEFINE c == [job |-> j, host |-> h, fence |-> row[j].fence, waiting |-> TRUE]
  <2>2. /\ claims' = claims \cup {c} /\ daemon' = [daemon EXCEPT ![h] = "claiming"]
        /\ daemon[h] = "idle" /\ h \notin row[j].excluded
        /\ UNCHANGED <<row, result, taken, posts, holding, tries, reply, spool,
                       workdir, faults>>
    BY <2>1 DEF SelectJob, Claimable
  <2>3. row[j].fence \in Nat
    BY DEF TypeOK, Row
  <2>4. c \in Claim
    BY <2>3 DEF Claim
  <2>5. ClaimInv'
    BY <2>2, <2>3 DEF ClaimInv
  <2>6. TypeOK'
    BY <2>2, <2>4 DEF TypeOK, DaemonState
  <2>7. DaemonsSound'
    BY <2>2 DEF DaemonsSound, TypeOK
  <2> QED BY <1>1, <1>2, <2>2, <2>5, <2>6, <2>7, LeasesPassedOn
<1>5. CASE AbandonClaim(h)
  <2>1. TypeOK' /\ ClaimInv'
    BY <1>3, <1>5 DEF AbandonClaim, TypeOK, DaemonState
  <2>2. DaemonsSound'
    BY <1>5 DEF AbandonClaim, DaemonsSound, TypeOK
  <2> QED BY <1>1, <1>2, <1>5, <2>1, <2>2, LeasesPassedOn DEF AbandonClaim
<1>6. CASE RunFails(h)
  <2>1. TypeOK' /\ ClaimInv'
    BY <1>3, <1>6 DEF RunFails, TypeOK, DaemonState, serverVars
  <2>2. DaemonsSound'
    BY <1>6 DEF RunFails, DaemonsSound, TypeOK, serverVars
  <2>3. \A x \in Hosts : holding'[x] # NULL => holding'[x] = holding[x]
    BY <1>6 DEF RunFails, TypeOK
  <2> QED BY <1>1, <1>2, <1>6, <2>1, <2>2, <2>3, LeasesPassedOn DEF RunFails
<1>7. CASE \E o \in Outcomes \cup {Fault} : FinishRun(h, o)
  <2>1. PICK o \in Outcomes \cup {Fault} : FinishRun(h, o)
    BY <1>7
  <2> DEFINE d == [lease |-> holding[h], outcome |-> o]
  <2>2. /\ daemon[h] = "executing"
        /\ spool' = [spool EXCEPT ![h] = d]
        /\ daemon' = [daemon EXCEPT ![h] = "delivering"]
        /\ holding' = [holding EXCEPT ![h] = NULL]
        /\ UNCHANGED <<row, result, claims, taken, posts, tries, reply, workdir, faults>>
    BY <2>1 DEF FinishRun, serverVars
  <2>3. holding[h] \in Lease /\ holding[h] # NULL
    BY <2>2, LeaseAssumption DEF TypeOK, DaemonsSound
  <2>4. d \in Delivery /\ d # NULL /\ d.lease = holding[h]
    BY <2>3, LeaseAssumption DEF Delivery
  <2> HIDE DEF d
  <2>5. TypeOK' /\ ClaimInv'
    BY <1>3, <2>2, <2>4 DEF TypeOK, DaemonState
  <2>6. DaemonsSound'
    BY <2>2, <2>4 DEF DaemonsSound, TypeOK
  <2>7. ASSUME NEW x \in Hosts
        PROVE  /\ holding'[x] # NULL => holding'[x] = holding[x]
               /\ spool'[x] # NULL =>
                    \/ spool'[x] = spool[x]
                    \/ holding[x] # NULL /\ spool'[x].lease = holding[x]
    <3>1. CASE x = h
      <4>1. spool'[h] = d /\ holding'[h] = NULL
        BY <2>2 DEF TypeOK
      <4> QED BY <2>3, <2>4, <3>1, <4>1
    <3>2. CASE x # h
      BY <2>2, <3>2 DEF TypeOK
    <3> QED BY <3>1, <3>2
  <2> QED BY <1>1, <1>2, <2>2, <2>5, <2>6, <2>7, LeasesPassedOn
<1>8. CASE PostResult(h)
  <2>1. spool[h] \in Delivery /\ spool[h] # NULL
    BY <1>8 DEF PostResult, TypeOK
  <2>2. TypeOK' /\ ClaimInv'
    BY <1>3, <1>8, <2>1 DEF PostResult, TypeOK, serverVars
  <2>3. DaemonsSound'
    BY <1>8 DEF PostResult, DaemonsSound, TypeOK, serverVars
  <2> QED BY <1>1, <1>2, <1>8, <2>1, <2>2, <2>3, LeasesPassedOn DEF PostResult
<1>9. CASE PostTimesOut(h)
  <2>1. TypeOK' /\ ClaimInv'
    BY <1>3, <1>9 DEF PostTimesOut, TypeOK, serverVars
  <2>2. DaemonsSound'
    BY <1>9 DEF PostTimesOut, DaemonsSound, TypeOK, serverVars
  <2> QED BY <1>1, <1>2, <1>9, <2>1, <2>2, LeasesPassedOn DEF PostTimesOut
<1>10. CASE HandleReply(h)
  <2>1. TypeOK' /\ ClaimInv'
    BY <1>3, <1>10 DEF HandleReply, RemovePersisted, TypeOK, DaemonState, serverVars
  <2>2. DaemonsSound'
    BY <1>10 DEF HandleReply, RemovePersisted, DaemonsSound, TypeOK, DaemonState, serverVars
  <2>3. \A x \in Hosts : spool'[x] # NULL => spool'[x] = spool[x]
    BY <1>10 DEF HandleReply, RemovePersisted, TypeOK
  <2> QED BY <1>1, <1>2, <1>10, <2>1, <2>2, <2>3, LeasesPassedOn DEF HandleReply
<1>11. CASE StartServing(h) \/ Restart(h)
  <2>1. TypeOK' /\ ClaimInv'
    BY <1>3, <1>11 DEF StartServing, Restart, TypeOK, DaemonState, serverVars
  <2>2. DaemonsSound'
    BY <1>11 DEF StartServing, Restart, DaemonsSound, TypeOK, serverVars
  <2> QED BY <1>1, <1>2, <1>11, <2>1, <2>2, LeasesPassedOn DEF StartServing, Restart
<1>12. CASE Crash(h)
  <2>1. claims' \subseteq Claim /\ ClaimInv'
    BY <1>3, <1>12 DEF Crash
  <2>2. /\ daemon' \in [Hosts -> DaemonState] /\ tries' \in [Hosts -> Nat]
        /\ holding' \in [Hosts -> Lease \cup {NULL}]
        /\ reply' \in [Hosts -> {"none", "waiting", "accepted", "failed"}]
        /\ faults' \in Nat
    BY <1>12 DEF Crash, TypeOK, DaemonState
  <2>3. workdir' \in [Hosts -> BOOLEAN]
    BY <1>12 DEF Crash, TypeOK
  <2>4. TypeOK'
    BY <1>12, <2>1, <2>2, <2>3 DEF Crash, TypeOK
  <2>5. DaemonsSound'
    BY <1>12 DEF Crash, DaemonsSound, TypeOK
  <2>6. \A x \in Hosts : holding'[x] # NULL => holding'[x] = holding[x]
    BY <1>12 DEF Crash, TypeOK
  <2> QED BY <1>1, <1>2, <1>12, <2>1, <2>4, <2>5, <2>6, LeasesPassedOn DEF Crash
<1> QED BY <1>4, <1>5, <1>6, <1>7, <1>8, <1>9, <1>10, <1>11, <1>12 DEF HostStep

-----------------------------------------------------------------------------
(* Steps of the API's handlers *)

(* The handler of a claim that fails or loses the compare and swap changes    *)
(* nothing but who waits.                                                     *)
LEMMA LostClaims ==
  ASSUME TypeInv, ClaimInv, NEW c \in claims,
         ClaimFails(c) \/ (ClaimRunnerJob(c) /\ ~Swaps(c))
  PROVE  /\ UNCHANGED <<row, result, taken, posts, holding, spool>>
         /\ TypeInv' /\ ClaimInv'
<1> USE DEF TypeInv
<1> DEFINE h == c.host
<1>1. h \in Hosts
  BY DEF TypeOK, Claim
<1>2. /\ UNCHANGED <<row, result, taken, posts, tries, reply, spool, workdir>>
      /\ claims' = claims \ {c} /\ faults' \in {faults, faults + 1}
      /\ \/ UNCHANGED daemon
         \/ daemon[h] = "claiming" /\ daemon' = [daemon EXCEPT ![h] = "idle"]
  <2>1. CASE ClaimFails(c)
    BY <1>1, <2>1 DEF ClaimFails, TypeOK
  <2>2. CASE ClaimRunnerJob(c) /\ ~Swaps(c)
    BY <1>1, <2>2 DEF ClaimRunnerJob, TypeOK
  <2> QED BY <2>1, <2>2
<1>3. UNCHANGED holding
  BY <1>1 DEF ClaimFails, ClaimRunnerJob, TypeOK
<1>4. TypeOK'
  BY <1>1, <1>2, <1>3 DEF TypeOK, DaemonState
<1>5. DaemonsSound'
  BY <1>1, <1>2, <1>3 DEF DaemonsSound, TypeOK
<1>6. RowsSound' /\ ClaimInv'
  BY <1>2 DEF RowsSound, ClaimInv
<1> QED BY <1>2, <1>3, <1>4, <1>5, <1>6

(* A claim that swaps starts a queued row under the fence it had, and makes   *)
(* at most the lease of that row known.                                       *)
LEMMA WonClaim ==
  ASSUME TypeInv, ClaimInv, NEW c \in claims, ClaimRunnerJob(c), Swaps(c)
  PROVE  /\ row[c.job].status = "queued" /\ c.fence = row[c.job].fence
         /\ row' = [row EXCEPT ![c.job] = Granted(row[c.job], c.host)]
         /\ UNCHANGED <<result, taken, posts, spool>>
         /\ TypeInv' /\ ClaimInv'
         /\ KnownLeases' \subseteq KnownLeases \cup
              {[job |-> c.job, host |-> c.host, fence |-> c.fence,
                token |-> row[c.job].attempts + 1]}
<1> USE DEF TypeInv
<1> DEFINE j == c.job
           h == c.host
           l == [job |-> c.job, host |-> c.host, fence |-> c.fence,
                 token |-> row[c.job].attempts + 1]
<1>1. /\ j \in Jobs /\ h \in Hosts /\ c \in Claim /\ c.fence \in Nat
      /\ row[j] \in Row /\ row[j].fence \in Nat /\ row[j].attempts \in Nat
      /\ row[j].attempts + 1 \in Nat
  BY DEF TypeOK, Claim, Row
<1>2. row[j].status = "queued" /\ c.fence = row[j].fence
  BY DEF Swaps
<1>3. /\ row' = [row EXCEPT ![j] = Granted(row[j], h)]
      /\ claims' = claims \ {c}
      /\ UNCHANGED <<result, taken, posts, tries, reply, spool, workdir, faults>>
      /\ \/ UNCHANGED <<daemon, holding>>
         \/ /\ daemon[h] = "claiming" /\ daemon' = [daemon EXCEPT ![h] = "executing"]
            /\ holding' = [holding EXCEPT ![h] = l]
  BY <1>1 DEF ClaimRunnerJob, TypeOK
<1>4. l \in Lease /\ l # NULL
  BY <1>1, LeaseAssumption DEF Lease
<1> HIDE DEF l
<1>5. row'[j] = Granted(row[j], h) /\ \A k \in Jobs : k # j => row'[k] = row[k]
  BY <1>1, <1>3 DEF TypeOK
<1>6. Granted(row[j], h) \in Row
  BY <1>1, RowTypes
<1>7. TypeOK'
  BY <1>1, <1>3, <1>4, <1>6 DEF TypeOK, DaemonState
<1>8. RowsSound'
  BY <1>1, <1>2, <1>3, <1>5 DEF RowsSound, Granted, Row
<1>9. DaemonsSound'
  BY <1>1, <1>3, <1>4 DEF DaemonsSound, TypeOK
<1>10. ClaimInv'
  <2> SUFFICES ASSUME NEW b \in claims'
               PROVE  /\ b.fence <= row'[b.job].fence
                      /\ b.fence = row'[b.job].fence => b.host \notin row'[b.job].excluded
    BY DEF ClaimInv
  <2>1. b \in claims /\ b.job \in Jobs
    BY <1>3 DEF TypeOK, Claim
  <2>2. row'[b.job].fence = row[b.job].fence /\ row'[b.job].excluded = row[b.job].excluded
    <3>1. /\ Granted(row[j], h).fence = row[j].fence
          /\ Granted(row[j], h).excluded = row[j].excluded
      BY <1>1 DEF Granted, Row
    <3> QED BY <1>5, <2>1, <3>1
  <2> QED BY <2>1, <2>2 DEF ClaimInv
<1>11. KnownLeases' \subseteq KnownLeases \cup {l}
  <2>1. \A x \in Hosts : holding'[x] # NULL => holding'[x] = holding[x] \/ holding'[x] = l
    BY <1>1, <1>3 DEF TypeOK
  <2> QED BY <1>3, <2>1 DEF KnownLeases
<1> QED BY <1>2, <1>3, <1>7, <1>8, <1>9, <1>10, <1>11 DEF l

(* What runnerResult does when it commits a delivery: the row was the running *)
(* row of that very lease, and ends under a new fence or completes.           *)
LEMMA Commits ==
  ASSUME TypeInv, NEW d \in posts, Answer(d) = "commit", Commit(d)
  PROVE  /\ row[d.lease.job].status = "running"
         /\ row' \in [Jobs -> Row] /\ result' \in [Jobs -> Delivery \cup {NULL}]
         /\ RowsKept /\ RowsSound'
         /\ \A k \in Jobs : k # d.lease.job => row'[k] = row[k] /\ result'[k] = result[k]
         /\ d.outcome # Fault => /\ result'[d.lease.job] = d
                                 /\ row'[d.lease.job].status = "complete"
                                 /\ row'[d.lease.job].token = d.lease.token
<1> USE DEF TypeInv
<1> DEFINE j == d.lease.job
           h == d.lease.host
<1>1. d \in Delivery /\ d # NULL /\ j \in Jobs /\ h \in Hosts
  BY LeaseAssumption DEF TypeOK, Delivery, Lease
<1>2. row[j] \in Row /\ row[j].fence \in Nat
  BY <1>1 DEF TypeOK, Row
<1>3. row[j].status = "running" /\ row[j].token = d.lease.token
  BY DEF Answer
<1>4. CASE d.outcome = Fault
  <2>1. row' = [row EXCEPT ![j] = Faulted(row[j], h)] /\ UNCHANGED result
    BY <1>4 DEF Commit
  <2>2. Faulted(row[j], h) \in Row
    BY <1>1, <1>2, RowTypes
  <2>3. /\ Faulted(row[j], h).status = "queued"
        /\ Faulted(row[j], h).fence = row[j].fence + 1
        /\ Faulted(row[j], h).attempts = row[j].attempts
        /\ Faulted(row[j], h).expired = FALSE
    BY <1>2 DEF Faulted, Row
  <2>4. row'[j] = Faulted(row[j], h) /\ \A k \in Jobs : k # j => row'[k] = row[k]
    BY <1>1, <2>1 DEF TypeOK
  <2>5. row' \in [Jobs -> Row] /\ result' \in [Jobs -> Delivery \cup {NULL}]
    BY <2>1, <2>2 DEF TypeOK
  <2>6. RowsKept
    BY <1>2, <1>3, <2>3, <2>4 DEF RowsKept, RowKept, TypeOK, Row
  <2>7. RowsSound'
    BY <1>3, <2>1, <2>3, <2>4 DEF RowsSound
  <2> QED BY <1>3, <1>4, <2>1, <2>4, <2>5, <2>6, <2>7
<1>5. CASE d.outcome # Fault
  <2> DEFINE r == [row[j] EXCEPT !.status = "complete", !.expired = FALSE]
  <2>1. /\ row' = [row EXCEPT ![j].status = "complete", ![j].expired = FALSE]
        /\ result' = [result EXCEPT ![j] = d]
    BY <1>5 DEF Commit
  <2>2. r \in Row
    BY <1>1, <1>2, RowTypes
  <2>3. /\ r.status = "complete" /\ r.fence = row[j].fence
        /\ r.attempts = row[j].attempts /\ r.expired = FALSE
        /\ r.token = row[j].token /\ r.holder = row[j].holder
        /\ r.excluded = row[j].excluded
    BY <1>2 DEF Row
  <2>4. row'[j] = r /\ \A k \in Jobs : k # j => row'[k] = row[k]
    BY <1>1, <2>1 DEF TypeOK
  <2>5. result'[j] = d /\ \A k \in Jobs : k # j => result'[k] = result[k]
    BY <1>1, <2>1 DEF TypeOK
  <2> HIDE DEF r
  <2>6. row' \in [Jobs -> Row]
    <3>1. row' = [k \in Jobs |-> IF k = j THEN r ELSE row[k]]
      BY <1>1, <2>1 DEF TypeOK, r
    <3> QED BY <2>2, <3>1 DEF TypeOK
  <2>7. result' \in [Jobs -> Delivery \cup {NULL}]
    BY <1>1, <2>1 DEF TypeOK
  <2>8. RowsKept
    BY <1>2, <1>3, <2>3, <2>4 DEF RowsKept, RowKept, TypeOK, Row
  <2>9. RowsSound'
    BY <1>1, <1>3, <2>3, <2>4, <2>5 DEF RowsSound
  <2> QED BY <1>3, <2>3, <2>4, <2>5, <2>6, <2>7, <2>8, <2>9
<1> QED BY <1>4, <1>5

(* runnerResult, whatever it answers. *)
LEMMA ResultSteps ==
  ASSUME TypeInv, StoredInv, NEW d \in posts, RunnerResult(d)
  PROVE  /\ TypeInv' /\ RowsKept /\ StoredInv'
         /\ KnownLeases' \subseteq KnownLeases
         /\ UNCHANGED claims
<1> USE DEF TypeInv
<1> DEFINE j == d.lease.job
           h == d.lease.host
<1>1. d \in Delivery /\ j \in Jobs /\ h \in Hosts
  BY DEF TypeOK, Delivery, Lease
<1>2. /\ posts' = posts \ {d}
      /\ UNCHANGED <<claims, daemon, holding, tries, spool, workdir, faults>>
      /\ taken' = IF Answer(d) = "refused" THEN taken ELSE taken \cup {d}
  BY DEF RunnerResult
<1>3. ASSUME Answer(d) = "commit"
      PROVE  /\ row' \in [Jobs -> Row] /\ result' \in [Jobs -> Delivery \cup {NULL}]
             /\ RowsKept /\ RowsSound' /\ StoredInv'
  <2>1. Commit(d)
    BY <1>3 DEF RunnerResult
  <2>2. /\ row' \in [Jobs -> Row] /\ result' \in [Jobs -> Delivery \cup {NULL}]
        /\ RowsKept /\ RowsSound'
    BY <1>3, <2>1, Commits
  <2>3. ASSUME NEW e \in taken', e.outcome # Fault
        PROVE  /\ result'[e.lease.job] = e
               /\ row'[e.lease.job].status = "complete"
               /\ row'[e.lease.job].token = e.lease.token
    <3>1. CASE e = d
      BY <1>3, <2>1, <2>3, <3>1, Commits
    <3>2. CASE e # d
      <4>1. e \in taken
        BY <1>2, <3>2
      <4>2. e.lease.job \in Jobs
        BY <4>1 DEF TypeOK, Delivery, Lease
      <4>3. e.lease.job # j
        BY <1>3, <2>1, <2>3, <4>1, Commits DEF StoredInv
      <4>4. row'[e.lease.job] = row[e.lease.job] /\ result'[e.lease.job] = result[e.lease.job]
        BY <1>3, <2>1, <4>2, <4>3, Commits
      <4> QED BY <2>3, <4>1, <4>4 DEF StoredInv
    <3> QED BY <3>1, <3>2
  <2> QED BY <2>2, <2>3 DEF StoredInv
<1>4. ASSUME Answer(d) # "commit"
      PROVE  /\ row' \in [Jobs -> Row] /\ result' \in [Jobs -> Delivery \cup {NULL}]
             /\ RowsKept /\ RowsSound' /\ StoredInv'
  <2>1. UNCHANGED <<row, result>>
    BY <1>4 DEF RunnerResult
  <2>2. RowsKept
    BY <2>1 DEF RowsKept, RowKept, TypeOK, Row
  <2>3. ASSUME Answer(d) # "refused"
        PROVE  result[j] = d /\ row[j].status = "complete" /\ row[j].token = d.lease.token
    BY <1>4, <2>3 DEF Answer
  <2>4. StoredInv'
    BY <1>2, <2>1, <2>3 DEF StoredInv
  <2> QED BY <2>1, <2>2, <2>4 DEF RowsSound, TypeOK
<1>5. reply' \in [Hosts -> {"none", "waiting", "accepted", "failed"}]
  BY <1>1 DEF RunnerResult, TypeOK
<1>6. TypeOK'
  BY <1>1, <1>2, <1>3, <1>4, <1>5 DEF TypeOK
<1>7. DaemonsSound'
  <2>1. taken \subseteq taken'
    BY <1>2
  <2>2. CASE reply' = reply
    BY <1>2, <2>1, <2>2 DEF DaemonsSound
  <2>3. CASE reply' # reply
    <3>1. /\ reply[h] = "waiting" /\ spool[h] = d
          /\ reply' = [reply EXCEPT ![h] =
                         IF Answer(d) = "refused" THEN "failed" ELSE "accepted"]
      BY <2>3 DEF RunnerResult
    <3> QED BY <1>1, <1>2, <2>1, <3>1 DEF DaemonsSound, TypeOK
  <2> QED BY <2>2, <2>3
<1>8. KnownLeases' \subseteq KnownLeases
  BY <1>2, LeasesPassedOn
<1> QED BY <1>2, <1>3, <1>4, <1>6, <1>7, <1>8

-----------------------------------------------------------------------------
(* The invariant is inductive *)

(* Rewriting rows the way RowKept says, with no lease made known, keeps every *)
(* fact about fences and exclusions.                                          *)
LEMMA FencesKept ==
  ASSUME TypeInv, TypeInv', FenceInv, FencesDistinct, ExcludedNeverRuns,
         RowsKept, KnownLeases' \subseteq KnownLeases
  PROVE  FenceInv' /\ FencesDistinct' /\ ExcludedNeverRuns'
<1>1. FenceInv'
  <2> SUFFICES ASSUME NEW l \in KnownLeases'
               PROVE  /\ l \in Lease
                      /\ l.fence <= row'[l.job].fence
                      /\ l.fence = row'[l.job].fence =>
                           /\ row'[l.job].status \in {"running", "complete"}
                           /\ row'[l.job].token = l.token
                           /\ row'[l.job].holder = l.host
    BY DEF FenceInv
  <2>1. l \in KnownLeases /\ l \in Lease
    BY DEF FenceInv
  <2>2. l.job \in Jobs /\ l.fence \in Nat
    BY <2>1 DEF Lease
  <2>3. row[l.job].fence \in Nat /\ row'[l.job].fence \in Nat
    BY <2>2 DEF TypeInv, TypeOK, Row
  <2>4. RowKept(row[l.job], row'[l.job])
    BY <2>2 DEF RowsKept
  <2>5. /\ l.fence <= row[l.job].fence
        /\ l.fence = row[l.job].fence =>
             /\ row[l.job].status \in {"running", "complete"}
             /\ row[l.job].token = l.token /\ row[l.job].holder = l.host
    BY <2>1 DEF FenceInv
  <2> QED BY <2>1, <2>2, <2>3, <2>4, <2>5 DEF RowKept
<1>2. FencesDistinct'
  BY DEF FencesDistinct
<1>3. ExcludedNeverRuns'
  BY DEF ExcludedNeverRuns, RowsKept, RowKept
<1> QED BY <1>1, <1>2, <1>3

(* Likewise for the claim handlers. *)
LEMMA ClaimInvKept ==
  ASSUME TypeInv, TypeInv', ClaimInv, RowsKept, UNCHANGED claims
  PROVE  ClaimInv'
<1> SUFFICES ASSUME NEW c \in claims
             PROVE  /\ c.fence <= row'[c.job].fence
                    /\ c.fence = row'[c.job].fence => c.host \notin row'[c.job].excluded
  BY DEF ClaimInv
<1>1. c.job \in Jobs /\ c.fence \in Nat
  BY DEF TypeInv, TypeOK, Claim
<1>2. row[c.job].fence \in Nat /\ row'[c.job].fence \in Nat
  BY <1>1 DEF TypeInv, TypeOK, Row
<1>3. RowKept(row[c.job], row'[c.job])
  BY <1>1 DEF RowsKept
<1> QED BY <1>1, <1>2, <1>3 DEF ClaimInv, RowKept

(* A stored result is unaffected by steps that rewrite rows but no result. *)
LEMMA StoredInvKept ==
  ASSUME TypeInv, StoredInv, RowsKept, UNCHANGED <<result, taken>>
  PROVE  StoredInv'
<1> SUFFICES ASSUME NEW d \in taken, d.outcome # Fault
             PROVE  /\ result'[d.lease.job] = d
                    /\ row'[d.lease.job].status = "complete"
                    /\ row'[d.lease.job].token = d.lease.token
  BY DEF StoredInv
<1>1. d.lease.job \in Jobs
  BY DEF TypeInv, TypeOK, Delivery, Lease
<1>2. row'[d.lease.job] = row[d.lease.job]
  BY <1>1 DEF StoredInv, RowsKept, RowKept
<1> QED BY <1>2 DEF StoredInv

(* Unchanged rows are rows kept. *)
LEMMA SameRows == ASSUME TypeInv, UNCHANGED row PROVE RowsKept
BY DEF TypeInv, TypeOK, Row, RowsKept, RowKept

(* A claim that wins: the new lease takes the fence of a queued row, which no *)
(* known lease has, and its host is not excluded by ClaimInv.                 *)
LEMMA WonClaimInv ==
  ASSUME LeaseInv, NEW c \in claims, ClaimRunnerJob(c), Swaps(c)
  PROVE  LeaseInv'
<1> USE DEF LeaseInv
<1> DEFINE j == c.job
           l == [job |-> c.job, host |-> c.host, fence |-> c.fence,
                 token |-> row[c.job].attempts + 1]
<1>1. /\ row[j].status = "queued" /\ c.fence = row[j].fence
      /\ row' = [row EXCEPT ![j] = Granted(row[j], c.host)]
      /\ UNCHANGED <<result, taken, posts, spool>>
      /\ TypeInv' /\ ClaimInv'
      /\ KnownLeases' \subseteq KnownLeases \cup {l}
  BY WonClaim
<1>2. /\ j \in Jobs /\ c.host \in Hosts /\ c.fence \in Nat
      /\ row[j] \in Row /\ row[j].attempts + 1 \in Nat
  BY DEF TypeInv, TypeOK, Claim, Row
<1>3. /\ l \in Lease /\ l.job = j /\ l.host = c.host /\ l.fence = row[j].fence
      /\ l.token = row[j].attempts + 1
  BY <1>1, <1>2 DEF Lease
<1> HIDE DEF l
<1>4. \A k \in Jobs : k # j => row'[k] = row[k]
  BY <1>1, <1>2 DEF TypeInv, TypeOK
<1>5. /\ row'[j].status = "running" /\ row'[j].holder = c.host
      /\ row'[j].token = row[j].attempts + 1 /\ row'[j].fence = row[j].fence
      /\ row'[j].excluded = row[j].excluded
  <2>1. row'[j] = Granted(row[j], c.host)
    BY <1>1, <1>2 DEF TypeInv, TypeOK
  <2> QED BY <1>2, <2>1 DEF Granted, Row
<1>6. ASSUME NEW m \in KnownLeases, m.job = j PROVE m.fence # row[j].fence
  BY <1>1, <1>6 DEF FenceInv
<1>7. FenceInv'
  <2> SUFFICES ASSUME NEW m \in KnownLeases'
               PROVE  /\ m \in Lease
                      /\ m.fence <= row'[m.job].fence
                      /\ m.fence = row'[m.job].fence =>
                           /\ row'[m.job].status \in {"running", "complete"}
                           /\ row'[m.job].token = m.token
                           /\ row'[m.job].holder = m.host
    BY DEF FenceInv
  <2>1. CASE m = l
    BY <1>1, <1>2, <1>3, <1>5, <2>1
  <2>2. CASE m # l
    <3>1. m \in KnownLeases /\ m \in Lease /\ m.job \in Jobs
      BY <1>1, <2>2 DEF FenceInv, Lease
    <3>2. CASE m.job = j
      BY <1>5, <1>6, <3>1, <3>2 DEF FenceInv
    <3>3. CASE m.job # j
      BY <1>4, <3>1, <3>3 DEF FenceInv
    <3> QED BY <3>2, <3>3
  <2> QED BY <2>1, <2>2
<1>8. FencesDistinct'
  BY <1>1, <1>3, <1>6 DEF FencesDistinct
<1>9. ExcludedNeverRuns'
  BY <1>1, <1>2, <1>4, <1>5 DEF ExcludedNeverRuns, ClaimInv
<1>10. StoredInv'
  BY <1>1, <1>4 DEF StoredInv, TypeInv, TypeOK, Delivery, Lease
<1> QED BY <1>1, <1>7, <1>8, <1>9, <1>10

(* Every step keeps the invariant. *)
LEMMA LeaseInvStep == LeaseInv /\ [Next]_vars => LeaseInv'
<1> SUFFICES ASSUME LeaseInv, [Next]_vars PROVE LeaseInv'
  OBVIOUS
<1> USE DEF LeaseInv
<1>1. ASSUME NEW h \in Hosts, HostStep(h) PROVE LeaseInv'
  <2>1. /\ UNCHANGED <<row, result, taken>> /\ TypeInv' /\ ClaimInv'
        /\ KnownLeases' \subseteq KnownLeases
    BY <1>1, HostSteps
  <2>2. RowsKept
    BY <2>1, SameRows
  <2>3. FenceInv' /\ FencesDistinct' /\ ExcludedNeverRuns'
    BY <2>1, <2>2, FencesKept
  <2> QED BY <2>1, <2>2, <2>3, StoredInvKept
<1>2. ASSUME NEW c \in claims, ClaimRunnerJob(c) \/ ClaimFails(c) PROVE LeaseInv'
  <2>1. CASE ClaimRunnerJob(c) /\ Swaps(c)
    BY <2>1, WonClaimInv
  <2>2. CASE ClaimFails(c) \/ (ClaimRunnerJob(c) /\ ~Swaps(c))
    <3>1. /\ UNCHANGED <<row, result, taken, posts, holding, spool>>
          /\ TypeInv' /\ ClaimInv'
      BY <2>2, LostClaims
    <3>2. RowsKept
      BY <3>1, SameRows
    <3>3. KnownLeases' \subseteq KnownLeases
      BY <3>1 DEF KnownLeases
    <3>4. FenceInv' /\ FencesDistinct' /\ ExcludedNeverRuns'
      BY <3>1, <3>2, <3>3, FencesKept
    <3> QED BY <3>1, <3>2, <3>4, StoredInvKept
  <2> QED BY <1>2, <2>1, <2>2
<1>3. ASSUME NEW d \in posts, RunnerResult(d) PROVE LeaseInv'
  <2>1. /\ TypeInv' /\ RowsKept /\ StoredInv'
        /\ KnownLeases' \subseteq KnownLeases /\ UNCHANGED claims
    BY <1>3, ResultSteps
  <2> QED BY <2>1, FencesKept, ClaimInvKept
<1>4. ASSUME NEW d \in posts, LosePost(d) PROVE LeaseInv'
  <2>1. posts' = posts \ {d} /\ UNCHANGED <<serverVars, hostVars, faults>>
    BY <1>4 DEF LosePost
  <2>2. TypeInv'
    BY <2>1 DEF TypeInv, TypeOK, RowsSound, DaemonsSound, serverVars, hostVars
  <2>3. KnownLeases' \subseteq KnownLeases
    BY <2>1 DEF KnownLeases, serverVars, hostVars
  <2>4. RowsKept /\ UNCHANGED <<row, result, claims, taken>>
    BY <2>1, SameRows DEF serverVars
  <2> QED BY <2>2, <2>3, <2>4, FencesKept, ClaimInvKept, StoredInvKept
<1>5. ASSUME (\E j \in Jobs : LeaseExpires(j)) \/ RecoverRunnerLeases \/ CancelJobs
      PROVE  LeaseInv'
  <2>1. /\ TypeInv' /\ RowsKept /\ UNCHANGED <<result, claims, taken, posts, hostVars>>
    BY <1>5, RowSteps
  <2>2. KnownLeases' \subseteq KnownLeases
    BY <2>1 DEF KnownLeases, hostVars
  <2> QED BY <2>1, <2>2, FencesKept, ClaimInvKept, StoredInvKept
<1>6. ASSUME UNCHANGED vars PROVE LeaseInv'
  <2>1. UNCHANGED <<row, result, claims, taken, posts, daemon, holding, tries, reply,
                    spool, workdir, faults>>
    BY <1>6 DEF vars, serverVars, hostVars
  <2>2. TypeInv'
    BY <2>1 DEF TypeInv, TypeOK, RowsSound, DaemonsSound
  <2>3. KnownLeases' \subseteq KnownLeases
    BY <2>1 DEF KnownLeases
  <2> QED BY <2>1, <2>2, <2>3, SameRows, FencesKept, ClaimInvKept, StoredInvKept
<1> QED BY <1>1, <1>2, <1>3, <1>4, <1>5, <1>6 DEF Next

-----------------------------------------------------------------------------
(* Theorems *)

(* The inductive invariant holds in every reachable state. *)
LEMMA LeaseInvAlways == Spec => []LeaseInv
BY InitLeaseInv, LeaseInvStep, PTL DEF Spec

(* The rows of the runner queue, the spools and the daemons are well typed.   *)
THEOREM LeaseTypeCorrect == Spec => []TypeOK
<1>1. LeaseInv => TypeOK
  BY DEF LeaseInv, TypeInv
<1> QED BY <1>1, LeaseInvAlways, PTL

(* FencesDistinct: although claimRunnerJob does not advance the fence, no two *)
(* leases of a job share one.                                                 *)
THEOREM FencesAreDistinct == Spec => []FencesDistinct
<1>1. LeaseInv => FencesDistinct
  BY DEF LeaseInv
<1> QED BY <1>1, LeaseInvAlways, PTL

(* ExcludedNeverRuns: the compare and swap on the fence makes a claim lose    *)
(* whose SELECT preceded the exclusion of its host.                           *)
THEOREM ExcludedHostsNeverRun == Spec => []ExcludedNeverRuns
<1>1. LeaseInv => ExcludedNeverRuns
  BY DEF LeaseInv
<1> QED BY <1>1, LeaseInvAlways, PTL

(* StoredStaysAccepted: a stored result is answered as a duplicate for ever.  *)
THEOREM StoredResultsStayAccepted == Spec => []StoredStaysAccepted
<1>1. LeaseInv => StoredStaysAccepted
  BY DEF LeaseInv, StoredInv, StoredStaysAccepted, Answer
<1> QED BY <1>1, LeaseInvAlways, PTL

(* NothingDropped: runnerd removes a persisted delivery only after the API    *)
(* accepted it, through crashes, restarts, timeouts and lost answers.         *)
THEOREM DeliveriesAreNotDropped == Spec => NothingDropped
<1> DEFINE Kept == \A h \in Hosts :
                     spool'[h] # spool[h] /\ spool[h] # NULL => spool[h] \in taken
<1>1. LeaseInv /\ [Next]_vars => Kept
  <2> SUFFICES ASSUME LeaseInv, [Next]_vars, NEW h \in Hosts,
                      spool'[h] # spool[h], spool[h] # NULL
               PROVE  spool[h] \in taken
    OBVIOUS
  <2>1. spool \in [Hosts -> Delivery \cup {NULL}] /\ DaemonsSound
    BY DEF LeaseInv, TypeInv, TypeOK
  <2>2. PICK x \in Hosts : HandleReply(x) \/ \E o \in Outcomes \cup {Fault} : FinishRun(x, o)
    BY DEF Next, HostStep, SelectJob, AbandonClaim, RunFails, PostResult, PostTimesOut,
           StartServing, Crash, Restart, ClaimRunnerJob, ClaimFails, RunnerResult, LosePost,
           LeaseExpires, RecoverRunnerLeases, CancelJobs, vars, serverVars, hostVars
  <2>3. CASE HandleReply(x)
    BY <2>1, <2>3 DEF HandleReply, RemovePersisted, DaemonsSound
  <2>4. CASE \E o \in Outcomes \cup {Fault} : FinishRun(x, o)
    BY <2>1, <2>4 DEF FinishRun, DaemonsSound
  <2> QED BY <2>2, <2>3, <2>4
<1>2. LeaseInv /\ [Next]_vars => [Kept]_vars
  BY <1>1
<1> QED BY <1>2, LeaseInvAlways, PTL DEF Spec, NothingDropped

-----------------------------------------------------------------------------
(* The lease contract *)

(* A step that rewrites rows the way RowKept says and stores no result lets   *)
(* the contract stutter or revoke, job by job.                                *)
LEMMA KeptIsContractStep ==
  ASSUME TypeInv, RowsKept, UNCHANGED result, NEW j \in Jobs
  PROVE  Contract!JobStep(JobState(j), JobState(j)')
<1>1. /\ row'[j].attempts = row[j].attempts
      /\ row'[j].status = "running" => /\ row[j].status = "running"
                                       /\ row'[j].token = row[j].token
                                       /\ row'[j].holder = row[j].holder
  BY DEF RowsKept, RowKept
<1>2. CASE row'[j].status = "running" \/ row[j].status # "running"
  <2>1. JobState(j)' = JobState(j)
    BY <1>1, <1>2 DEF JobState
  <2> QED BY <2>1 DEF Contract!JobStep
<1>3. CASE row'[j].status # "running"
  <2>1. JobState(j)' = [JobState(j) EXCEPT !.lease = NULL]
    BY <1>1, <1>3 DEF JobState
  <2> QED BY <2>1 DEF Contract!JobStep, Contract!Revoke
<1> QED BY <1>2, <1>3

(* A claim that wins grants the next lease of its job. *)
LEMMA WonClaimGrants ==
  ASSUME LeaseInv, NEW c \in claims, ClaimRunnerJob(c), Swaps(c), NEW j \in Jobs
  PROVE  Contract!JobStep(JobState(j), JobState(j)')
<1>1. /\ row[c.job].status = "queued"
      /\ row' = [row EXCEPT ![c.job] = Granted(row[c.job], c.host)]
      /\ UNCHANGED result
  BY WonClaim DEF LeaseInv
<1>2. /\ c.job \in Jobs /\ c.host \in Hosts /\ row \in [Jobs -> Row]
      /\ result[c.job] = NULL
  BY <1>1 DEF LeaseInv, TypeInv, TypeOK, Claim, RowsSound
<1>3. CASE j # c.job
  <2>1. JobState(j)' = JobState(j)
    BY <1>1, <1>2, <1>3 DEF JobState
  <2> QED BY <2>1 DEF Contract!JobStep
<1>4. CASE j = c.job
  <2>1. row'[j] = Granted(row[j], c.host) /\ row[j] \in Row
    BY <1>1, <1>2, <1>4
  <2>2. /\ row'[j].status = "running" /\ row'[j].holder = c.host
        /\ row'[j].token = row[j].attempts + 1
        /\ row'[j].attempts = row[j].attempts + 1
    BY <2>1 DEF Granted, Row
  <2>3. JobState(j) = [granted |-> row[j].attempts, lease |-> NULL, verdict |-> NULL]
    BY <1>1, <1>2, <1>4 DEF JobState
  <2>4. JobState(j)' = [granted |-> row[j].attempts + 1, verdict |-> NULL,
                        lease |-> [host |-> c.host, number |-> row[j].attempts + 1]]
    BY <1>1, <1>2, <1>4, <2>2 DEF JobState
  <2>5. Contract!Grant(JobState(j), JobState(j)')
    BY <1>2, <2>3, <2>4 DEF Contract!Grant
  <2> QED BY <2>5 DEF Contract!JobStep
<1> QED BY <1>3, <1>4

(* A committed verdict is decided under the lease that is current. *)
LEMMA CommitDecides ==
  ASSUME LeaseInv, NEW d \in posts, RunnerResult(d), NEW j \in Jobs
  PROVE  Contract!JobStep(JobState(j), JobState(j)')
<1>1. TypeInv /\ RowsKept
  BY ResultSteps DEF LeaseInv
<1>2. CASE UNCHANGED result
  BY <1>1, <1>2, KeptIsContractStep
<1>3. CASE ~UNCHANGED result
  <2>1. Answer(d) = "commit" /\ Commit(d) /\ d.outcome # Fault
    BY <1>3 DEF RunnerResult, Commit
  <2>2. /\ d \in Delivery /\ d # NULL /\ d.lease.job \in Jobs /\ d.outcome \in Outcomes
        /\ d.lease.host \in Hosts /\ d.lease.token \in Nat
    BY <1>1, <2>1, LeaseAssumption DEF TypeInv, TypeOK, Delivery, Lease
  <2>3. /\ row[d.lease.job].status = "running"
        /\ \A k \in Jobs : k # d.lease.job => row'[k] = row[k] /\ result'[k] = result[k]
        /\ result'[d.lease.job] = d /\ row'[d.lease.job].status = "complete"
        /\ RowKept(row[d.lease.job], row'[d.lease.job])
    BY <1>1, <2>1, <2>2, Commits DEF RowsKept
  <2>4. CASE j # d.lease.job
    <3>1. JobState(j)' = JobState(j)
      BY <2>3, <2>4 DEF JobState
    <3> QED BY <3>1 DEF Contract!JobStep
  <2>5. CASE j = d.lease.job
    <3> DEFINE lease == [host |-> d.lease.host, number |-> d.lease.token]
    <3>1. row[j].token = d.lease.token /\ row[j].holder = d.lease.host
      BY <2>1, <2>5 DEF Answer
    <3>2. result[j] = NULL
      BY <1>1, <2>3, <2>5 DEF TypeInv, RowsSound
    <3>3. JobState(j) = [granted |-> row[j].attempts, lease |-> lease, verdict |-> NULL]
      BY <2>3, <2>5, <3>1, <3>2 DEF JobState
    <3>4. JobState(j)' = [granted |-> row[j].attempts, lease |-> NULL,
                          verdict |-> [by |-> lease, outcome |-> d.outcome]]
      BY <2>2, <2>3, <2>5 DEF JobState, RowKept
    <3>5. lease # NULL
      BY <2>2, LeaseAssumption
    <3> HIDE DEF lease
    <3>6. Contract!Decide(JobState(j), JobState(j)')
      BY <2>2, <3>3, <3>4, <3>5 DEF Contract!Decide
    <3> QED BY <3>6 DEF Contract!JobStep
  <2> QED BY <2>4, <2>5
<1> QED BY <1>2, <1>3

(* ImplementsContract: the initial rows are the contract's initial state, and *)
(* every step of handlers, daemons and network is a step of the contract.     *)
THEOREM QueueImplementsContract == Spec => ImplementsContract
<1> DEFINE abs == [j \in Jobs |-> JobState(j)]
<1>1. Init => Contract!Init
  BY LeaseAssumption DEF Init, Contract!Init, JobState
<1>2. LeaseInv /\ [Next]_vars => [Contract!Next]_abs
  <2> SUFFICES ASSUME LeaseInv, [Next]_vars
               PROVE  Contract!Next
    OBVIOUS
  <2>1. ASSUME NEW j \in Jobs PROVE Contract!JobStep(JobState(j), JobState(j)')
    <3>1. CASE \E h \in Hosts : HostStep(h)
      <4>1. UNCHANGED <<row, result>>
        BY <3>1, HostSteps DEF LeaseInv
      <4> QED BY <4>1, SameRows, KeptIsContractStep DEF LeaseInv
    <3>2. CASE \E c \in claims : ClaimRunnerJob(c) \/ ClaimFails(c)
      <4>1. PICK c \in claims : ClaimRunnerJob(c) \/ ClaimFails(c)
        BY <3>2
      <4>2. CASE ClaimRunnerJob(c) /\ Swaps(c)
        BY <4>2, WonClaimGrants
      <4>3. CASE ClaimFails(c) \/ (ClaimRunnerJob(c) /\ ~Swaps(c))
        <5>1. UNCHANGED <<row, result>>
          BY <4>3, LostClaims DEF LeaseInv
        <5> QED BY <5>1, SameRows, KeptIsContractStep DEF LeaseInv
      <4> QED BY <4>1, <4>2, <4>3
    <3>3. CASE \E d \in posts : RunnerResult(d)
      BY <3>3, CommitDecides
    <3>4. CASE (\E d \in posts : LosePost(d)) \/ UNCHANGED vars
      <4>1. UNCHANGED <<row, result>>
        BY <3>4 DEF LosePost, serverVars, vars
      <4> QED BY <4>1, SameRows, KeptIsContractStep DEF LeaseInv
    <3>5. CASE (\E i \in Jobs : LeaseExpires(i)) \/ RecoverRunnerLeases \/ CancelJobs
      <4>1. RowsKept /\ UNCHANGED result
        BY <3>5, RowSteps DEF LeaseInv
      <4> QED BY <4>1, KeptIsContractStep DEF LeaseInv
    <3> QED BY <3>1, <3>2, <3>3, <3>4, <3>5 DEF Next
  <2> QED BY <2>1 DEF Contract!Next
<1> QED BY <1>1, <1>2, LeaseInvAlways, PTL DEF Spec, ImplementsContract, Contract!Spec
=============================================================================
