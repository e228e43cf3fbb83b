----------------------------- MODULE AuditLog -----------------------------
(***************************************************************************)
(* The public audit log and its independent witnesses: the control plane   *)
(* appends events and signs checkpoints over them (platform/audit.go);     *)
(* each witness retains the chain in its own journal before it releases a  *)
(* countersignature (internal/audit/witness.go) and publishes it through   *)
(* its observer (cmd/witness); two of three registered witnesses certify a *)
(* checkpoint.  Processes crash between a write and its sync, requests and *)
(* answers are lost, bundles are pushed to a witness by third parties, the *)
(* witness membership rotates, and the database is restored from a backup, *)
(* after which the platform signs a competing chain.                       *)
(*                                                                         *)
(* A checkpoint is named by the order of its creation: its payload holds   *)
(* the time of issue, so its digest is fresh.  The platform is honest: the *)
(* events of a bundle are those its checkpoint covers.  An fsync that      *)
(* succeeds makes everything written before it durable.                    *)
(***************************************************************************)
EXTENDS Integers, Sequences, FiniteSets

CONSTANTS
  Witnesses,      \* every witness key of the signed history
  Members,        \* Members[h]: the three witnesses history h registers
  Workers,        \* processes that run the worker loop
  BatchLimit,     \* events one checkpoint covers at most (1000)
  MaxAppends,     \* bound: events appended
  MaxHeartbeats,  \* bound: checkpoints without events, the genesis included
  MaxFaults,      \* bound: crashes and failing writes of witnesses
  MaxRestores,    \* bound: database restores
  NULL

Epochs == 1..Len(Members)

VARIABLES
  db,         \* audit_events, audit_checkpoints and witness_receipts
  backup,     \* the database a restore returns to
  made,       \* history: every checkpoint built, in order
  published,  \* history: checkpoints whose platform signature was public
  signing,    \* the checkpoint a worker signs outside the transaction
  epoch,      \* key histories the root has signed
  trusted,    \* the history the control plane has loaded
  witness,    \* journal and process of each witness
  cursor,     \* the latest record an observer replayed, before its fetch
  released,   \* history: checkpoints each witness's signature was given out for
  certified,  \* history: checkpoints found to have a quorum, with its members
  appended, faults, restores

platformVars == <<db, made, published, signing, appended>>
trustVars    == <<epoch, trusted>>
restoreVars  == <<backup, restores>>
witnessVars  == <<witness, cursor, released, faults>>
vars == <<platformVars, trustVars, restoreVars, witnessVars, certified>>

-----------------------------------------------------------------------------
(* Types *)

Id == Nat \ {0}
Checkpoint == [prev : Nat, height : Id, from : Id, to : Nat, epoch : Epochs]
Vote       == [cp : Id, by : Witnesses]
Database   == [events : Nat, table : Seq(Id), signed : SUBSET Id,
               votes : SUBSET Vote, quorum : SUBSET Id]
Record     == [cp : Id, signed : BOOLEAN]
Witness    == [status : {"down", "up", "writing", "poisoned"},
               journal : Seq(Record), synced : Nat, torn : BOOLEAN, last : Nat,
               loaded : Epochs]

(* History verification demands three distinct witnesses (VerifyHistory). *)
ASSUME AuditAssumption ==
  /\ Members \in Seq(SUBSET Witnesses) /\ Members # <<>>
  /\ \A h \in Epochs : IsFiniteSet(Members[h]) /\ Cardinality(Members[h]) = 3
  /\ BatchLimit \in Nat \ {0}
  /\ {MaxAppends, MaxHeartbeats, MaxFaults, MaxRestores} \subseteq Nat
  /\ NULL \notin Nat

TypeOK ==
  /\ db \in Database /\ backup \in Database
  /\ made \in Seq(Checkpoint)
  /\ published \subseteq Id
  /\ signing \in [Workers -> Id \cup {NULL}]
  /\ epoch \in Epochs /\ trusted \in Epochs
  /\ witness \in [Witnesses -> Witness]
  /\ cursor \in [Witnesses -> Nat \cup {NULL}]
  /\ released \in [Witnesses -> SUBSET Id]
  /\ certified \subseteq [cp : Id, members : SUBSET Witnesses]
  /\ {appended, faults, restores} \subseteq Nat

(* The log is bootstrapped: the first checkpoint, empty and signed, is the    *)
(* genesis the first history pins, and the witnesses that history registers   *)
(* run, retain it and have certified it.                                      *)
Bootstrapped ==
  [events |-> 0, table |-> <<1>>, signed |-> {1},
   votes |-> [cp : {1}, by : Members[1]], quorum |-> {1}]
Retaining(status, records) ==
  [status |-> status, journal |-> records, synced |-> Len(records),
   torn |-> FALSE, last |-> Len(records), loaded |-> 1]

Init ==
  /\ db = Bootstrapped /\ backup = Bootstrapped
  /\ made = <<[prev |-> 0, height |-> 1, from |-> 1, to |-> 0, epoch |-> 1]>>
  /\ published = {1}
  /\ signing = [k \in Workers |-> NULL]
  /\ epoch = 1 /\ trusted = 1
  /\ witness = [w \in Witnesses |->
       IF w \in Members[1] THEN Retaining("up", <<[cp |-> 1, signed |-> TRUE]>>)
                           ELSE Retaining("down", <<>>)]
  /\ cursor = [w \in Witnesses |-> NULL]
  /\ released = [w \in Witnesses |-> IF w \in Members[1] THEN {1} ELSE {}]
  /\ certified = {[cp |-> 1, members |-> Members[1]]}
  /\ appended = 0 /\ faults = 0 /\ restores = 0

-----------------------------------------------------------------------------
(* The control plane *)

(* audit: an advisory lock held to the commit makes the sequence dense. *)
AppendEvent ==
  /\ appended < MaxAppends
  /\ appended' = appended + 1
  /\ db' = [db EXCEPT !.events = @ + 1]
  /\ UNCHANGED <<made, published, signing, trustVars, restoreVars, witnessVars,
                 certified>>

LastRow == db.table[Len(db.table)]
Smaller(m, n) == IF m < n THEN m ELSE n

(* Build over the events readAuditEvents returns after the last checkpoint *)
Build(previous) ==
  [prev |-> previous, height |-> made[previous].height + 1,
   from |-> made[previous].to + 1,
   to |-> Smaller(made[previous].to + BatchLimit, db.events), epoch |-> epoch]

Heartbeats == {c \in DOMAIN made : made[c].from > made[c].to}

(* Inserts the successor of the last row; how long ago that was issued and    *)
(* how many events wait decide when, so any time is possible.                 *)
InsertCheckpoint(k) ==
  LET c == Build(LastRow) IN
  /\ c.from > c.to => Cardinality(Heartbeats) < MaxHeartbeats
  /\ made' = Append(made, c)
  /\ db' = [db EXCEPT !.table = Append(db.table, Len(made) + 1)]
  /\ signing' = [signing EXCEPT ![k] = Len(made) + 1]

(* Seeded faults: a row that still lacks its signature is built upon, or is   *)
(* waited for, instead of being taken again.                                  *)
TickIgnoresPending(k) ==
  /\ signing[k] = NULL
  /\ InsertCheckpoint(k)
  /\ UNCHANGED <<published, appended, trustVars, restoreVars, witnessVars, certified>>

TickAwaitsPending(k) ==
  /\ signing[k] = NULL /\ LastRow \in db.signed
  /\ InsertCheckpoint(k)
  /\ UNCHANGED <<published, appended, trustVars, restoreVars, witnessVars, certified>>

(* checkpointTick up to its commit, under an advisory lock: a pending row is  *)
(* taken again, otherwise the next checkpoint is inserted.                    *)
CheckpointTick(k) ==
  /\ signing[k] = NULL
  /\ IF LastRow \notin db.signed
     THEN signing' = [signing EXCEPT ![k] = LastRow] /\ UNCHANGED <<db, made>>
     ELSE InsertCheckpoint(k)
  /\ UNCHANGED <<published, appended, trustVars, restoreVars, witnessVars, certified>>

Stored(c) == \E i \in 1..Len(db.table) : db.table[i] = c

(* The rest of checkpointTick: the UPDATE finds the row if it still exists    *)
(* without a signature.                                                       *)
SignCheckpoint(k) ==
  LET c == signing[k] IN
  /\ c # NULL
  /\ signing' = [signing EXCEPT ![k] = NULL]
  /\ IF Stored(c) /\ c \notin db.signed
     THEN /\ db' = [db EXCEPT !.signed = @ \cup {c}]
          /\ published' = published \cup {c}
     ELSE UNCHANGED <<db, published>>
  /\ UNCHANGED <<made, appended, trustVars, restoreVars, witnessVars, certified>>

(* The signer is unavailable or the process ends before the UPDATE. *)
TickFails(k) ==
  /\ signing[k] # NULL
  /\ signing' = [signing EXCEPT ![k] = NULL]
  /\ UNCHANGED <<db, made, published, appended, trustVars, restoreVars,
                 witnessVars, certified>>

(* Managed backup and point-in-time recovery of the database *)
Backup ==
  /\ restores < MaxRestores
  /\ backup' = db
  /\ UNCHANGED <<platformVars, trustVars, restores, witnessVars, certified>>

Restore ==
  /\ restores < MaxRestores
  /\ restores' = restores + 1
  /\ db' = backup
  /\ UNCHANGED <<made, published, signing, appended, trustVars, backup,
                 witnessVars, certified>>

-----------------------------------------------------------------------------
(* Witness membership *)

(* The root signs a successor history: from now on it registers others. *)
RotateWitnesses ==
  /\ epoch + 1 \in Epochs
  /\ epoch' = epoch + 1
  /\ UNCHANGED <<platformVars, trusted, restoreVars, witnessVars, certified>>

(* loadTrust: the control plane starts with the latest history. *)
LoadTrust ==
  /\ trusted < epoch
  /\ trusted' = epoch
  /\ UNCHANGED <<platformVars, epoch, restoreVars, witnessVars, certified>>

(* Seeded fault: the current membership also judges older checkpoints. *)
CurrentOperators(h, e) == Members[h]

(* WitnessOperatorsAt: the membership in force at time e, as far as a process *)
(* that loaded history h knows.                                               *)
WitnessOperatorsAt(h, e) == Members[Smaller(h, e)]

-----------------------------------------------------------------------------
(* A witness process *)

Signed(w, n) == IF n > 0 /\ witness[w].journal[n].signed
                THEN {witness[w].journal[n].cp} ELSE {}

(* openWitness: syncs what the file holds before it reads it, refuses a torn  *)
(* tail and records that the history does not admit, and from then on gives   *)
(* out the signature of its last record.                                      *)
OpenWitness(w, h) ==
  LET s == witness[w]
      n == Len(s.journal) IN
  /\ s.status = "down" /\ ~s.torn
  /\ h \in s.loaded..epoch
  /\ w \in WitnessOperatorsAt(h, epoch)
  /\ \A i \in 1..n : s.journal[i].signed =>
       w \in WitnessOperatorsAt(h, made[s.journal[i].cp].epoch)
  /\ witness' = [witness EXCEPT ![w] =
       [s EXCEPT !.status = "up", !.synced = n, !.last = n, !.loaded = h]]
  /\ released' = [released EXCEPT ![w] = @ \cup Signed(w, n)]
  /\ UNCHANGED <<platformVars, trustVars, restoreVars, cursor, faults, certified>>

Latest(w) == IF witness[w].last = 0 THEN 0
             ELSE witness[w].journal[witness[w].last].cp

(* validate: the predecessor is the last retained checkpoint, and the first   *)
(* is the pinned genesis.                                                     *)
Valid(w, c) == IF witness[w].last = 0 THEN c = 1 ELSE made[c].prev = Latest(w)

(* Observe up to journal.Write: checkpoints issued while this witness was not *)
(* registered are retained without a signature.                               *)
Writes(w, c) ==
  LET s == witness[w]
      signs == w \in WitnessOperatorsAt(s.loaded, made[c].epoch) IN
  witness' = [witness EXCEPT ![w] =
    [s EXCEPT !.status = "writing",
              !.journal = Append(s.journal, [cp |-> c, signed |-> signs])]]

Observes(w, c) ==
  /\ witness[w].status = "up"
  /\ Valid(w, c)
  /\ w \in WitnessOperatorsAt(witness[w].loaded, epoch)

(* POST /v1/checkpoints: anyone hands over a bundle the platform published. *)
Push(w, c) ==
  /\ c \in published
  /\ Observes(w, c) /\ Writes(w, c)
  /\ UNCHANGED <<platformVars, trustVars, restoreVars, cursor, released, faults,
                 certified>>

(* Seeded fault: the signature is given out before the journal is synced. *)
ReturnsBeforeSync(w) ==
  LET s == witness[w]
      n == Len(s.journal) IN
  /\ s.status = "writing"
  /\ witness' = [witness EXCEPT ![w] = [s EXCEPT !.status = "up", !.last = n]]
  /\ released' = [released EXCEPT ![w] = @ \cup Signed(w, n)]
  /\ UNCHANGED <<platformVars, trustVars, restoreVars, cursor, faults, certified>>

(* The journal is synced; only then is the signature returned. *)
ObserveReturns(w) ==
  LET s == witness[w]
      n == Len(s.journal) IN
  /\ s.status = "writing"
  /\ witness' = [witness EXCEPT ![w] =
       [s EXCEPT !.status = "up", !.synced = n, !.last = n]]
  /\ released' = [released EXCEPT ![w] = @ \cup Signed(w, n)]
  /\ UNCHANGED <<platformVars, trustVars, restoreVars, cursor, faults, certified>>

(* Write or sync fails and the witness is poisoned: a short write leaves part *)
(* of a record, a failed sync leaves it whole but perhaps not durable.        *)
ObserveFails(w) ==
  LET s == witness[w]
      short == [s EXCEPT !.status = "poisoned", !.torn = TRUE,
                         !.journal = SubSeq(s.journal, 1, s.last)] IN
  /\ s.status = "writing" /\ faults < MaxFaults
  /\ faults' = faults + 1
  /\ \/ witness' = [witness EXCEPT ![w] = short]
     \/ witness' = [witness EXCEPT ![w].status = "poisoned"]
  /\ UNCHANGED <<platformVars, trustVars, restoreVars, cursor, released, certified>>

(* Process or machine stop: what was not synced survives whole, in part or    *)
(* not at all.                                                                *)
Crash(w) ==
  LET s == witness[w] IN
  /\ s.status # "down" /\ faults < MaxFaults
  /\ faults' = faults + 1
  /\ cursor' = [cursor EXCEPT ![w] = NULL]
  /\ \E n \in s.synced..Len(s.journal), torn \in BOOLEAN :
       /\ torn => s.torn \/ n < Len(s.journal)
       /\ witness' = [witness EXCEPT ![w] =
            [s EXCEPT !.status = "down", !.journal = SubSeq(s.journal, 1, n),
                      !.torn = torn, !.last = 0]]
  /\ UNCHANGED <<platformVars, trustVars, restoreVars, released, certified>>

(* The operator recovers the committed prefix of a torn journal. *)
RecoverPrefix(w) ==
  /\ witness[w].status = "down" /\ witness[w].torn
  /\ witness' = [witness EXCEPT ![w].torn = FALSE]
  /\ UNCHANGED <<platformVars, trustVars, restoreVars, cursor, released, faults,
                 certified>>

-----------------------------------------------------------------------------
(* The observer of a witness: observeOne *)

VotersOf(d, c) == {v.by : v \in {u \in d.votes : u.cp = c}}

(* Seeded fault: one countersignature is taken for a quorum. *)
SingleVote(d, c, members) == VotersOf(d, c) \cap members # {}

(* VerifyQuorum: two distinct registered operators *)
VerifyQuorum(d, c, members) == Cardinality(VotersOf(d, c) \cap members) >= 2

(* witnessReceipt, for a checkpoint the database knows and a witness that was *)
(* registered when it was issued                                              *)
WitnessReceipt(w, c) ==
  LET members == WitnessOperatorsAt(trusted, made[c].epoch)
      voted == [db EXCEPT !.votes = @ \cup {[cp |-> c, by |-> w]}] IN
  /\ Stored(c) /\ c \in db.signed
  /\ w \in members
  /\ IF VerifyQuorum(voted, c, members)
     THEN /\ db' = [voted EXCEPT !.quorum = @ \cup {c}]
          /\ certified' = certified \cup {[cp |-> c, members |-> members]}
     ELSE db' = voted /\ UNCHANGED certified

(* The first half of observeOne replays the latest signature; an unsigned or  *)
(* missing record has nothing to replay.  A refused post ends the attempt.    *)
ReplayLatest(w) ==
  /\ witness[w].status \in {"up", "poisoned"}
  /\ cursor[w] = NULL
  /\ cursor' = [cursor EXCEPT ![w] = Latest(w)]
  /\ IF Signed(w, witness[w].last) = {} THEN UNCHANGED <<db, certified>>
     ELSE WitnessReceipt(w, Latest(w))
  /\ UNCHANGED <<made, published, signing, appended, trustVars, restoreVars,
                 witness, released, faults>>

(* The post was applied, its answer was lost. *)
LostAnswer(w) ==
  /\ witness[w].status \in {"up", "poisoned"}
  /\ cursor[w] = NULL
  /\ Signed(w, witness[w].last) # {}
  /\ WitnessReceipt(w, Latest(w))
  /\ UNCHANGED <<made, published, signing, appended, trustVars, restoreVars,
                 witness, cursor, released, faults>>

(* publicCheckpoints with limit 1: the first signed row after the one with    *)
(* this digest, which must be stored and signed; zero asks from the start.    *)
RowOf(c) == {i \in 1..Len(db.table) : db.table[i] = c /\ c \in db.signed}

PageAfter(c) ==
  LET after == {j \in 1..Len(db.table) :
                  /\ db.table[j] \in db.signed
                  /\ c = 0 \/ \E i \in RowOf(c) : i < j} IN
  {db.table[j] : j \in {i \in after : \A n \in after : i <= n}}

(* The second half of observeOne: what it fetched is observed, refused or, if *)
(* the record arrived meanwhile, found to be there already.                   *)
Fetch(w) ==
  /\ cursor[w] # NULL
  /\ witness[w].status \in {"up", "poisoned"}
  /\ cursor' = [cursor EXCEPT ![w] = NULL]
  /\ \/ \E c \in PageAfter(cursor[w]) : Observes(w, c) /\ Writes(w, c)
     \/ /\ \A c \in PageAfter(cursor[w]) : ~Observes(w, c)
        /\ UNCHANGED witness
  /\ UNCHANGED <<platformVars, trustVars, restoreVars, released, faults, certified>>

-----------------------------------------------------------------------------
Next ==
  \/ AppendEvent \/ Backup \/ Restore \/ RotateWitnesses \/ LoadTrust
  \/ \E k \in Workers : CheckpointTick(k) \/ SignCheckpoint(k) \/ TickFails(k)
  \/ \E w \in Witnesses :
       \/ \E h \in Epochs : OpenWitness(w, h)
       \/ \E c \in published : Push(w, c)
       \/ ObserveReturns(w) \/ ObserveFails(w) \/ Crash(w) \/ RecoverPrefix(w)
       \/ ReplayLatest(w) \/ LostAnswer(w) \/ Fetch(w)

Spec == Init /\ [][Next]_vars

(* Fairness: the worker loop ticks and a signer that fails recovers; witness  *)
(* processes are started and finish what they do unless they fail; observers  *)
(* poll every five seconds.  Nothing restarts a poisoned or crashed witness   *)
(* with a torn journal, and no one has to push.                               *)
WitnessRuns(w) ==
  (\E h \in Epochs : OpenWitness(w, h)) \/ ObserveReturns(w) \/ ReplayLatest(w) \/ Fetch(w)

FairSpec ==
  /\ Spec
  /\ \A k \in Workers : WF_vars(CheckpointTick(k)) /\ SF_vars(SignCheckpoint(k))
  /\ \A w \in Witnesses : WF_vars(WitnessRuns(w))

-----------------------------------------------------------------------------
(* Properties *)

(* The stored checkpoints cover the event log from its start without gap or   *)
(* overlap, each links to the row before it, and only the newest can lack its *)
(* platform signature, whatever workers, failures and restores do to          *)
(* checkpointTick between its commit and its UPDATE.                          *)
ChainCovers ==
  /\ \A i \in 1..Len(db.table) : made[db.table[i]].to <= db.events
  /\ \A i \in 2..Len(db.table) :
       /\ made[db.table[i]].prev = db.table[i - 1]
       /\ made[db.table[i]].from = made[db.table[i - 1]].to + 1
       /\ db.table[i - 1] \in db.signed

(* A witness never gives out signatures for two competing checkpoints, i.e.   *)
(* two at the same place of the chain, although it crashes between write and  *)
(* sync and is offered both branches of a restored platform (Observe,         *)
(* openWitness).                                                              *)
NoEquivocation ==
  \A w \in Witnesses : \A c, d \in released[w] :
    made[c].height = made[d].height => c = d

(* The checkpoints w would still find after losing everything unsynced. *)
Durable(w) == {witness[w].journal[i].cp : i \in 1..witness[w].synced}

(* A checkpoint the control plane ever found certified stays in the durable   *)
(* journals of two of the witnesses it counted, through crashes of witnesses  *)
(* and restores of the database (VerifyQuorum, Observe).                      *)
CertifiedIsRetained ==
  \A q \in certified :
    Cardinality({w \in q.members : q.cp \in Durable(w)}) >= 2

(* Two competing checkpoints are never both certified by the same membership: *)
(* a platform restored behind a certified checkpoint cannot have its new      *)
(* branch certified by the witnesses who certified the lost one.              *)
OneQuorum ==
  \A q, r \in certified :
    q.members = r.members /\ made[q.cp].height = made[r.cp].height => q.cp = r.cp

(* Rotating the witnesses does not erase old quorums: a checkpoint certified  *)
(* by those registered when it was issued, and not by a control plane that    *)
(* had yet to load their history, keeps its quorum under every later history  *)
(* (WitnessOperatorsAt, witnessReceipt).                                      *)
OldQuorumsVerify ==
  \A c \in db.quorum :
    LET e == made[c].epoch IN
    (\A q \in certified : q.cp = c => q.members = Members[e]) =>
      \A h \in e..Len(Members) : VerifyQuorum(db, c, WitnessOperatorsAt(h, e))

(* Every event is eventually covered by a certified checkpoint, although one  *)
(* witness may crash or be poisoned for good at any point, answers are lost   *)
(* and third parties push bundles past the observers (checkpointTick,         *)
(* observeOne, witnessReceipt).                                               *)
EventsCertified ==
  \A n \in 1..MaxAppends :
    db.events >= n ~> \E c \in db.quorum : made[c].to >= n
=============================================================================
