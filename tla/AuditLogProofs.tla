--------------------------- MODULE AuditLogProofs ---------------------------
(***************************************************************************)
(* Theorems about AuditLog for every set of witnesses, sequence of         *)
(* memberships and bound: types, the chain of stored checkpoints, that no  *)
(* two competing checkpoints are certified by the same members, and that   *)
(* old quorums verify under later memberships.                             *)
(***************************************************************************)
EXTENDS AuditLog, FiniteSetTheorems, TLAPS

(* A sequence and what Append and SubSeq make of it *)
LEMMA Appended ==
  ASSUME NEW S, NEW s \in Seq(S), NEW e \in S
  PROVE  /\ Append(s, e) \in Seq(S)
         /\ Len(Append(s, e)) = Len(s) + 1
         /\ \A i \in 1..Len(s) : Append(s, e)[i] = s[i]
         /\ Append(s, e)[Len(s) + 1] = e
  OBVIOUS

LEMMA Prefix ==
  ASSUME NEW S, NEW s \in Seq(S), NEW n \in 0..Len(s)
  PROVE  /\ SubSeq(s, 1, n) \in Seq(S)
         /\ Len(SubSeq(s, 1, n)) = n
         /\ \A i \in 1..n : SubSeq(s, 1, n)[i] = s[i]
  OBVIOUS

LEMMA CheckpointFields ==
  ASSUME NEW m \in Seq(Checkpoint), NEW c \in 1..Len(m)
  PROVE  m[c].to \in Nat /\ m[c].height \in Nat
<1>1. m[c] \in Checkpoint
  OBVIOUS
<1> QED BY <1>1 DEF Checkpoint, Id

(* The built checkpoint is one, whatever the row it succeeds. *)
LEMMA BuildType ==
  ASSUME TypeOK, NEW p \in 1..Len(made)
  PROVE  Build(p) \in Checkpoint
<1>1. made[p] \in Checkpoint
  BY DEF TypeOK
<1>2. db.events \in Nat
  BY DEF TypeOK, Database
<1>3. BatchLimit \in Nat /\ epoch \in Epochs
  BY AuditAssumption DEF TypeOK
<1> QED BY <1>1, <1>2, <1>3 DEF Build, Smaller, Checkpoint, Id

-----------------------------------------------------------------------------
(* The inductive invariant *)

Known == 1..Len(made)

(* Every checkpoint but the genesis succeeds a known one, one place below it. *)
MadeInv ==
  /\ 1 \in Known /\ made[1].height = 1 /\ made[1].prev = 0
  /\ \A c \in Known : c # 1 =>
       /\ made[c].prev \in Known
       /\ made[c].height = made[made[c].prev].height + 1
  /\ published \subseteq Known

(* What ChainCovers says, of the database and of its backup *)
RowsInv(d) ==
  /\ Len(d.table) >= 1
  /\ \A i \in 1..Len(d.table) :
       d.table[i] \in Known /\ made[d.table[i]].to <= d.events
  /\ \A i \in 2..Len(d.table) :
       /\ made[d.table[i]].prev = d.table[i - 1]
       /\ made[d.table[i]].from = made[d.table[i - 1]].to + 1
       /\ d.table[i - 1] \in d.signed

(* A journal holds at each place a checkpoint of that height; everything up   *)
(* to last is synced, and what was released is among it.                      *)
Sound(s, out) ==
  /\ s.last <= s.synced /\ s.synced <= Len(s.journal)
  /\ s.status = "up" => s.last = Len(s.journal)
  /\ s.status = "writing" => s.last = s.synced /\ s.last + 1 = Len(s.journal)
  /\ \A i \in 1..Len(s.journal) :
       s.journal[i].cp \in Known /\ made[s.journal[i].cp].height = i
  /\ s.last > 0 /\ s.journal[s.last].signed => s.journal[s.last].cp \in out
  /\ \A c \in out : \E i \in 1..s.synced : s.journal[i].cp = c

JournalInv == \A w \in Witnesses : Sound(witness[w], released[w])

(* Only released signatures are counted. *)
VotesInv(d) == \A v \in d.votes : v.cp \in released[v.by]

(* Two of the members counted had released their signature. *)
Backed(q) == \E V \in SUBSET q.members :
               Cardinality(V) >= 2 /\ \A w \in V : q.cp \in released[w]

CertInv == \A q \in certified : (\E h \in Epochs : q.members = Members[h]) /\ Backed(q)

DatabaseInv(d) == RowsInv(d) /\ VotesInv(d)

AuditInv ==
  /\ TypeOK /\ MadeInv /\ DatabaseInv(db) /\ DatabaseInv(backup)
  /\ JournalInv /\ CertInv

(* Three witnesses: the genesis is certified by two of them. *)
LEMMA Members1 ==
  /\ 1 \in Epochs
  /\ \A h \in Epochs : /\ Members[h] \in SUBSET Witnesses
                       /\ IsFiniteSet(Members[h])
                       /\ Cardinality(Members[h]) = 3
  BY AuditAssumption DEF Epochs

LEMMA InitAudit == Init => AuditInv
<1> SUFFICES ASSUME Init PROVE AuditInv
  OBVIOUS
<1> USE Members1
<1>1. Bootstrapped \in Database
  BY DEF Bootstrapped, Database, Id, Vote
<1>2. made \in Seq(Checkpoint) /\ Len(made) = 1
      /\ made[1] = [prev |-> 0, height |-> 1, from |-> 1, to |-> 0, epoch |-> 1]
  BY DEF Init, Checkpoint, Id
<1>3. \A r : r = <<[cp |-> 1, signed |-> TRUE]>> =>
        r \in Seq(Record) /\ Len(r) = 1 /\ r[1] = [cp |-> 1, signed |-> TRUE]
  BY DEF Record, Id
<1>4. <<>> \in Seq(Record) /\ Len(<<>>) = 0
  OBVIOUS
<1>5. \A w \in Witnesses : witness[w] \in Witness
  BY <1>3, <1>4, SMT DEF Init, Retaining, Witness
<1>6. TypeOK
  <2>1. witness \in [Witnesses -> Witness]
    BY <1>5 DEF Init
  <2>2. released \in [Witnesses -> SUBSET Id]
    BY DEF Init, Id
  <2>3. certified \subseteq [cp : Id, members : SUBSET Witnesses]
    BY DEF Init, Id
  <2> QED BY <1>1, <1>2, <2>1, <2>2, <2>3 DEF Init, TypeOK, Id
<1>7. MadeInv
  BY <1>2 DEF Init, MadeInv, Known
<1>8. DatabaseInv(Bootstrapped)
  BY <1>2 DEF Init, Bootstrapped, DatabaseInv, RowsInv, VotesInv, Known
<1>9. JournalInv
  BY <1>2, <1>3, <1>4, SMT DEF Init, JournalInv, Sound, Retaining, Known
<1>10. CertInv
  BY DEF Init, CertInv, Backed
<1> QED BY <1>6, <1>7, <1>8, <1>9, <1>10 DEF Init, AuditInv

-----------------------------------------------------------------------------
(* The control plane *)

(* What a step of the platform that builds nothing leaves alone *)
SamePlaces == UNCHANGED <<made, witness, released, certified>>

LEMMA PlacesKept ==
  ASSUME AuditInv, SamePlaces
  PROVE  JournalInv' /\ CertInv'
  BY DEF AuditInv, SamePlaces, JournalInv, Sound, Known, CertInv, Backed

LEMMA AppendAudit == AuditInv /\ AppendEvent => AuditInv'
<1> SUFFICES ASSUME AuditInv, AppendEvent PROVE AuditInv'
  OBVIOUS
<1>1. db \in Database /\ db' = [db EXCEPT !.events = @ + 1] /\ SamePlaces
      /\ UNCHANGED <<backup, published>>
  BY DEF AuditInv, TypeOK, AppendEvent, SamePlaces, restoreVars, witnessVars
<1>2. db' \in Database /\ db'.events = db.events + 1 /\ db.events \in Nat
      /\ db'.table = db.table /\ db'.votes = db.votes /\ db'.signed = db.signed
  BY <1>1 DEF Database
<1>3. TypeOK' /\ MadeInv'
  <2>1. TypeOK'
    BY <1>1, <1>2 DEF AuditInv, TypeOK, AppendEvent, SamePlaces, restoreVars,
      witnessVars, trustVars
  <2> QED BY <1>1, <2>1 DEF AuditInv, MadeInv, SamePlaces, Known
<1>4. DatabaseInv(db)'
  <2>1. \A i \in 1..Len(db.table) : db.table[i] \in 1..Len(made)
    BY DEF AuditInv, DatabaseInv, RowsInv, Known
  <2>2. made \in Seq(Checkpoint)
    BY DEF AuditInv, TypeOK
  <2>3. \A c \in 1..Len(made) : made[c].to \in Nat
    BY <2>2, CheckpointFields
  <2> QED BY <1>1, <1>2, <2>1, <2>3 DEF AuditInv, DatabaseInv, RowsInv, VotesInv,
    SamePlaces, Known
<1>5. DatabaseInv(backup)'
  BY <1>1 DEF AuditInv, DatabaseInv, RowsInv, VotesInv, SamePlaces, Known
<1> QED BY <1>1, <1>3, <1>4, <1>5, PlacesKept DEF AuditInv

(* Backups and restores exchange databases for which everything holds. *)
LEMMA RestoreAudit == AuditInv /\ (Backup \/ Restore) => AuditInv'
<1> SUFFICES ASSUME AuditInv, Backup \/ Restore PROVE AuditInv'
  OBVIOUS
<1>1. SamePlaces /\ UNCHANGED published /\ db' \in {db, backup} /\ backup' \in {db, backup}
  BY DEF Backup, Restore, SamePlaces, platformVars, witnessVars
<1>2. TypeOK'
  BY DEF AuditInv, TypeOK, Backup, Restore, platformVars, witnessVars, trustVars
<1>3. MadeInv'
  BY <1>1 DEF AuditInv, MadeInv, SamePlaces, Known
<1>4. DatabaseInv(db)' /\ DatabaseInv(backup)'
  BY <1>1 DEF AuditInv, DatabaseInv, RowsInv, VotesInv, SamePlaces, Known
<1> QED BY <1>1, <1>2, <1>3, <1>4, PlacesKept DEF AuditInv

(* Histories do not touch databases and journals. *)
LEMMA TrustAudit == AuditInv /\ (RotateWitnesses \/ LoadTrust) => AuditInv'
<1> SUFFICES ASSUME AuditInv, RotateWitnesses \/ LoadTrust PROVE AuditInv'
  OBVIOUS
<1>1. SamePlaces /\ UNCHANGED <<published, db, backup>>
  BY DEF RotateWitnesses, LoadTrust, SamePlaces, platformVars, witnessVars, restoreVars
<1>2. TypeOK'
  BY DEF AuditInv, TypeOK, RotateWitnesses, LoadTrust, platformVars, witnessVars, restoreVars
<1>3. MadeInv'
  BY <1>1 DEF AuditInv, MadeInv, SamePlaces, Known
<1>4. DatabaseInv(db)' /\ DatabaseInv(backup)'
  BY <1>1 DEF AuditInv, DatabaseInv, RowsInv, VotesInv, SamePlaces, Known
<1> QED BY <1>1, <1>2, <1>3, <1>4, PlacesKept DEF AuditInv

(* A signature is only added to a stored row. *)
LEMMA SignAudit ==
  ASSUME AuditInv, NEW k \in Workers, SignCheckpoint(k) \/ TickFails(k)
  PROVE  AuditInv'
<1>1. /\ SamePlaces /\ UNCHANGED <<backup, appended, restores, epoch, trusted, cursor, faults>>
      /\ signing' = [signing EXCEPT ![k] = NULL]
      /\ \/ UNCHANGED <<db, published>>
         \/ /\ Stored(signing[k]) /\ signing[k] # NULL
            /\ db' = [db EXCEPT !.signed = @ \cup {signing[k]}]
            /\ published' = published \cup {signing[k]}
  BY DEF SignCheckpoint, TickFails, SamePlaces, trustVars, restoreVars, witnessVars
<1>2. CASE UNCHANGED <<db, published>>
  <2>1. TypeOK'
    BY <1>1, <1>2 DEF AuditInv, TypeOK, SamePlaces
  <2>2. MadeInv'
    BY <1>1, <1>2 DEF AuditInv, MadeInv, SamePlaces, Known
  <2>3. DatabaseInv(db)' /\ DatabaseInv(backup)'
    BY <1>1, <1>2 DEF AuditInv, DatabaseInv, RowsInv, VotesInv, SamePlaces, Known
  <2> QED BY <1>1, <2>1, <2>2, <2>3, PlacesKept DEF AuditInv
<1>3. CASE /\ Stored(signing[k]) /\ signing[k] # NULL
           /\ db' = [db EXCEPT !.signed = @ \cup {signing[k]}]
           /\ published' = published \cup {signing[k]}
  <2> DEFINE c == signing[k]
  <2>1. c \in Id /\ c \in Known /\ db \in Database
    BY <1>3 DEF AuditInv, TypeOK, Stored, DatabaseInv, RowsInv
  <2>2. db' \in Database /\ db'.table = db.table /\ db'.votes = db.votes
        /\ db'.events = db.events /\ db.signed \subseteq db'.signed
    BY <1>3, <2>1 DEF Database
  <2>3. TypeOK'
    BY <1>1, <1>3, <2>1, <2>2 DEF AuditInv, TypeOK, SamePlaces
  <2>4. MadeInv'
    BY <1>1, <1>3, <2>1 DEF AuditInv, MadeInv, SamePlaces, Known
  <2>5. DatabaseInv(db)'
    BY <1>1, <2>2 DEF AuditInv, DatabaseInv, RowsInv, VotesInv, SamePlaces, Known
  <2>6. DatabaseInv(backup)'
    BY <1>1 DEF AuditInv, DatabaseInv, RowsInv, VotesInv, SamePlaces, Known
  <2> QED BY <1>1, <2>3, <2>4, <2>5, <2>6, PlacesKept DEF AuditInv
<1> QED BY <1>1, <1>2, <1>3

(* checkpointTick takes the pending row again or adds its successor. *)
LEMMA TickAudit ==
  ASSUME AuditInv, NEW k \in Workers, CheckpointTick(k)
  PROVE  AuditInv'
<1> DEFINE p == LastRow
           n == Len(made) + 1
<1>1. /\ UNCHANGED <<backup, published, appended, restores, epoch, trusted, witness,
                     cursor, released, faults, certified>>
  BY DEF CheckpointTick, trustVars, restoreVars, witnessVars
<1>2. /\ db \in Database /\ made \in Seq(Checkpoint) /\ db.table \in Seq(Id)
      /\ signing \in [Workers -> Id \cup {NULL}] /\ db.events \in Nat
  BY DEF AuditInv, TypeOK, Database
<1>3. p \in Known /\ p \in Id
  BY <1>2 DEF AuditInv, DatabaseInv, RowsInv, LastRow
<1>4. CASE p \notin db.signed
  <2>1. UNCHANGED <<db, made>> /\ signing' = [signing EXCEPT ![k] = p]
    BY <1>4 DEF CheckpointTick
  <2>2. SamePlaces
    BY <1>1, <2>1 DEF SamePlaces
  <2>3. signing' \in [Workers -> Id \cup {NULL}]
    BY <1>2, <1>3, <2>1
  <2>4. TypeOK'
    BY <1>1, <2>1, <2>3 DEF AuditInv, TypeOK
  <2>5. MadeInv'
    BY <1>1, <2>1 DEF AuditInv, MadeInv, Known
  <2>6. DatabaseInv(db)' /\ DatabaseInv(backup)'
    BY <1>1, <2>1 DEF AuditInv, DatabaseInv, RowsInv, VotesInv, Known
  <2> QED BY <2>2, <2>4, <2>5, <2>6, PlacesKept DEF AuditInv
<1>5. CASE p \in db.signed
  <2>1. /\ made' = Append(made, Build(p))
        /\ db' = [db EXCEPT !.table = Append(db.table, n)]
        /\ signing' = [signing EXCEPT ![k] = n]
    BY <1>5 DEF CheckpointTick, InsertCheckpoint
  <2>2. Build(p) \in Checkpoint /\ n \in Id
    BY <1>2, <1>3, BuildType DEF AuditInv, Known, Id
  <2>3. /\ made' \in Seq(Checkpoint) /\ Len(made') = n
        /\ \A c \in Known : made'[c] = made[c]
        /\ made'[n] = Build(p)
    BY <1>2, <2>1, <2>2, Appended DEF Known
  <2>4. /\ Append(db.table, n) \in Seq(Id)
        /\ Len(Append(db.table, n)) = Len(db.table) + 1
        /\ \A i \in 1..Len(db.table) : Append(db.table, n)[i] = db.table[i]
        /\ Append(db.table, n)[Len(db.table) + 1] = n
    BY <1>2, <2>2, Appended
  <2>5. /\ db' \in Database /\ db'.table = Append(db.table, n)
        /\ db'.events = db.events /\ db'.votes = db.votes /\ db'.signed = db.signed
    BY <1>2, <2>1, <2>4 DEF Database
  <2>6. Known \subseteq Known' /\ n \in Known' /\ n \notin Known
        /\ \A c \in Known' : c \in Known \/ c = n
    BY <1>2, <2>3 DEF Known
  <2>7. TypeOK'
    <3>1. signing' \in [Workers -> Id \cup {NULL}]
      BY <1>2, <2>1, <2>2
    <3> QED BY <1>1, <2>3, <2>5, <3>1 DEF AuditInv, TypeOK
  <2>8. /\ Build(p).prev = p /\ Build(p).height = made[p].height + 1
        /\ Build(p).from = made[p].to + 1 /\ Build(p).to <= db.events
    <3>1. made[p].to \in Nat /\ BatchLimit \in Nat
      BY <1>2, <1>3, AuditAssumption, CheckpointFields DEF Known
    <3> QED BY <1>2, <3>1 DEF Build, Smaller
  <2>9. MadeInv'
    <3> HIDE DEF n
    <3> QED BY <1>1, <1>3, <2>3, <2>6, <2>8 DEF AuditInv, MadeInv
  <2>10. RowsInv(backup)'
    <3> HIDE DEF n
    <3>1. RowsInv(backup) /\ Len(backup.table) \in Nat
      BY DEF AuditInv, DatabaseInv, TypeOK, Database
    <3>2. \A i \in 1..Len(backup.table) :
            backup.table[i] \in Known /\ made'[backup.table[i]] = made[backup.table[i]]
      BY <2>3, <3>1 DEF RowsInv
    <3>3. \A i \in 2..Len(backup.table) : i \in 1..Len(backup.table)
                                          /\ i - 1 \in 1..Len(backup.table)
      BY <3>1
    <3> QED BY <1>1, <2>6, <3>1, <3>2, <3>3 DEF RowsInv
  <2>11. RowsInv(db)'
    <3>1. RowsInv(db) /\ Len(db.table) \in Nat /\ Len(db.table) >= 1
      BY <1>2 DEF AuditInv, DatabaseInv, RowsInv
    <3>2. \A i \in 1..Len(db.table) : db'.table[i] = db.table[i] /\ db.table[i] \in Known
      BY <2>4, <2>5, <3>1 DEF RowsInv
    <3>3. db'.table[Len(db.table) + 1] = n /\ Len(db'.table) = Len(db.table) + 1
      BY <2>4, <2>5
    <3>4. db.table[Len(db.table)] = p
      BY DEF LastRow
    <3> HIDE DEF n, p
    <3>5. ASSUME NEW i \in 1..Len(db'.table)
          PROVE  db'.table[i] \in Known' /\ made'[db'.table[i]].to <= db'.events
      <4>1. CASE i \in 1..Len(db.table)
        BY <2>3, <2>5, <2>6, <3>1, <3>2, <4>1 DEF RowsInv
      <4>2. CASE i = Len(db.table) + 1
        BY <2>3, <2>5, <2>6, <2>8, <3>3, <4>2
      <4> QED BY <3>1, <3>3, <3>5, <4>1, <4>2
    <3>6. ASSUME NEW i \in 2..Len(db'.table)
          PROVE  /\ made'[db'.table[i]].prev = db'.table[i - 1]
                 /\ made'[db'.table[i]].from = made'[db'.table[i - 1]].to + 1
                 /\ db'.table[i - 1] \in db'.signed
      <4>1. CASE i \in 2..Len(db.table)
        <5>1. i \in 1..Len(db.table) /\ i - 1 \in 1..Len(db.table)
          BY <3>1, <4>1
        <5> QED BY SMTT(40), <2>3, <2>5, <3>1, <3>2, <4>1, <5>1 DEF RowsInv
      <4>2. CASE i = Len(db.table) + 1
        <5>1. db'.table[i] = n /\ db'.table[i - 1] = p /\ p \in Known
          BY <1>3, <3>1, <3>2, <3>3, <3>4, <4>2
        <5> QED BY <1>5, <2>3, <2>5, <2>8, <5>1
      <4> QED BY <3>1, <3>3, <3>6, <4>1, <4>2
    <3> QED BY <3>1, <3>3, <3>5, <3>6 DEF RowsInv
  <2>12. DatabaseInv(db)' /\ DatabaseInv(backup)'
    BY <1>1, <2>5, <2>10, <2>11 DEF AuditInv, DatabaseInv, VotesInv
  <2>13. JournalInv'
    <3> HIDE DEF n
    <3> QED BY <1>1, <2>3, <2>6 DEF AuditInv, JournalInv, Sound
  <2>14. CertInv'
    BY <1>1 DEF AuditInv, CertInv, Backed
  <2> QED BY <2>7, <2>9, <2>12, <2>13, <2>14 DEF AuditInv
<1> QED BY <1>4, <1>5

-----------------------------------------------------------------------------
(* Witnesses *)

(* A step of one witness needs to keep that witness sound and to forget no    *)
(* released signature.                                                        *)
LEMMA WitnessStep ==
  ASSUME AuditInv, NEW w \in Witnesses, NEW r \in Witness, NEW out \in SUBSET Id,
         witness' = [witness EXCEPT ![w] = r],
         released' = [released EXCEPT ![w] = out],
         released[w] \subseteq out, Sound(r, out),
         cursor' \in [Witnesses -> Nat \cup {NULL}], faults' \in Nat,
         UNCHANGED <<platformVars, trustVars, restoreVars, certified>>
  PROVE  AuditInv'
<1>1. /\ witness \in [Witnesses -> Witness] /\ released \in [Witnesses -> SUBSET Id]
      /\ db.votes \subseteq Vote /\ backup.votes \subseteq Vote
      /\ certified \subseteq [cp : Id, members : SUBSET Witnesses]
  BY DEF AuditInv, TypeOK, Database
<1>2. UNCHANGED <<db, backup, made, published, certified, signing, appended, epoch,
                  trusted, restores>>
  BY DEF platformVars, trustVars, restoreVars
<1>3. TypeOK'
  BY <1>1, <1>2 DEF AuditInv, TypeOK
<1>4. MadeInv' /\ RowsInv(db)' /\ RowsInv(backup)'
  BY <1>2 DEF AuditInv, MadeInv, DatabaseInv, RowsInv, Known
<1>5. \A x \in Witnesses : released[x] \subseteq released'[x]
  BY <1>1
<1>6. VotesInv(db)' /\ VotesInv(backup)'
  BY <1>1, <1>2, <1>5 DEF AuditInv, DatabaseInv, VotesInv, Vote
<1>7. JournalInv'
  <2> Known' = Known
    BY <1>2 DEF Known
  <2>1. Sound(r, out)'
    BY <1>2 DEF Sound
  <2>2. ASSUME NEW x \in Witnesses, x # w PROVE Sound(witness[x], released[x])'
    <3>1. witness'[x] = witness[x] /\ released'[x] = released[x]
      BY <1>1, <2>2
    <3> QED BY <1>2, <3>1 DEF AuditInv, JournalInv, Sound, Known
  <2>3. witness'[w] = r /\ released'[w] = out
    BY <1>1
  <2>4. Sound(witness[w], released[w])'
    BY SMTT(40), <2>1, <2>3 DEF Sound, Known
  <2> QED BY <2>2, <2>4 DEF JournalInv
<1>8. CertInv'
  <2>1. ASSUME NEW q \in certified PROVE Backed(q)'
    <3>1. PICK V \in SUBSET q.members :
            Cardinality(V) >= 2 /\ \A x \in V : q.cp \in released[x]
      BY DEF AuditInv, CertInv, Backed
    <3>2. V \subseteq Witnesses
      BY <1>1, <2>1
    <3> QED BY <1>5, <3>1, <3>2 DEF Backed
  <2> QED BY <1>2, <2>1 DEF AuditInv, CertInv
<1> QED BY <1>3, <1>4, <1>6, <1>7, <1>8 DEF AuditInv, DatabaseInv

(* What AuditInv says about one witness *)
LEMMA OneWitness ==
  ASSUME AuditInv, NEW w \in Witnesses
  PROVE  /\ witness[w] \in Witness /\ released[w] \in SUBSET Id
         /\ released = [released EXCEPT ![w] = released[w]]
         /\ Sound(witness[w], released[w])
         /\ cursor \in [Witnesses -> Nat \cup {NULL}] /\ faults \in Nat
  BY DEF AuditInv, TypeOK, JournalInv

(* Signing and syncing the last record keeps a journal sound. *)
LEMMA SyncedSound ==
  ASSUME AuditInv, NEW w \in Witnesses, NEW h \in Epochs,
         NEW r, r = [witness[w] EXCEPT !.status = "up", !.synced = Len(witness[w].journal),
                                       !.last = Len(witness[w].journal), !.loaded = h]
  PROVE  LET out == released[w] \cup Signed(w, Len(witness[w].journal)) IN
         r \in Witness /\ out \in SUBSET Id /\ Sound(r, out)
<1> DEFINE s == witness[w]
           n == Len(s.journal)
           out == released[w] \cup Signed(w, n)
<1>1. s \in Witness /\ released[w] \in SUBSET Id /\ Sound(s, released[w])
  BY OneWitness
<1>2. s.journal \in Seq(Record) /\ n \in Nat /\ s.synced \in Nat
  BY <1>1 DEF Witness
<1>3. \A i \in 1..n : s.journal[i] \in Record
  BY <1>2
<1>4. Signed(w, n) \in SUBSET Id
  BY <1>2, <1>3 DEF Signed, Record
<1>5. r \in Witness /\ r.status = "up" /\ r.synced = n /\ r.last = n
      /\ r.journal = s.journal
  BY <1>1, <1>2 DEF Witness
<1>6. \A c \in out : \E i \in 1..n : s.journal[i].cp = c
  BY <1>1, <1>2 DEF Sound, Signed
<1>7. n > 0 /\ s.journal[n].signed => s.journal[n].cp \in out
  BY DEF Signed
<1>8. Sound(r, out)
  <2> HIDE DEF out
  <2> QED BY <1>1, <1>2, <1>5, <1>6, <1>7 DEF Sound
<1> QED BY <1>1, <1>4, <1>5, <1>8

(* openWitness *)
LEMMA OpenAudit ==
  ASSUME AuditInv, NEW w \in Witnesses, NEW h \in Epochs, OpenWitness(w, h)
  PROVE  AuditInv'
<1> DEFINE s == witness[w]
           n == Len(s.journal)
           r == [s EXCEPT !.status = "up", !.synced = n, !.last = n, !.loaded = h]
           out == released[w] \cup Signed(w, n)
<1>1. /\ witness' = [witness EXCEPT ![w] = r]
      /\ released' = [released EXCEPT ![w] = out]
      /\ UNCHANGED <<platformVars, trustVars, restoreVars, cursor, faults, certified>>
  BY DEF OpenWitness
<1>2. r \in Witness /\ out \in SUBSET Id /\ Sound(r, out)
  BY SyncedSound
<1>3. cursor' \in [Witnesses -> Nat \cup {NULL}] /\ faults' \in Nat
  BY <1>1, OneWitness
<1> HIDE DEF r, out
<1>4. released[w] \subseteq out
  BY DEF out
<1> QED BY <1>1, <1>2, <1>3, <1>4, WitnessStep

(* Observe, after its sync *)
LEMMA ReturnAudit ==
  ASSUME AuditInv, NEW w \in Witnesses, ObserveReturns(w)
  PROVE  AuditInv'
<1> DEFINE s == witness[w]
           n == Len(s.journal)
           r == [s EXCEPT !.status = "up", !.synced = n, !.last = n]
           out == released[w] \cup Signed(w, n)
<1>1. /\ witness' = [witness EXCEPT ![w] = r]
      /\ released' = [released EXCEPT ![w] = out]
      /\ UNCHANGED <<platformVars, trustVars, restoreVars, cursor, faults, certified>>
  BY DEF ObserveReturns
<1>2. s \in Witness
  BY OneWitness
<1>3. s.loaded \in Epochs
        /\ r = [s EXCEPT !.status = "up", !.synced = n, !.last = n, !.loaded = s.loaded]
  BY <1>2 DEF Witness
<1>4. r \in Witness /\ out \in SUBSET Id /\ Sound(r, out)
  BY <1>3, SyncedSound
<1>5. cursor' \in [Witnesses -> Nat \cup {NULL}] /\ faults' \in Nat
  BY <1>1, OneWitness
<1> HIDE DEF r, out
<1>6. released[w] \subseteq out
  BY DEF out
<1> QED BY <1>1, <1>4, <1>5, <1>6, WitnessStep

(* validate: an admitted checkpoint belongs one place above the last record. *)
LEMMA ValidHeight ==
  ASSUME AuditInv, NEW w \in Witnesses, NEW c \in Known, Observes(w, c)
  PROVE  made[c].height = Len(witness[w].journal) + 1
<1> DEFINE s == witness[w]
<1>1. s \in Witness /\ Sound(s, released[w]) /\ s.status = "up" /\ Valid(w, c)
  BY OneWitness DEF Observes
<1>2. s.last = Len(s.journal) /\ s.last \in Nat /\ MadeInv
  BY <1>1 DEF Sound, Witness, AuditInv
<1>3. CASE s.last = 0
  BY <1>1, <1>2, <1>3 DEF Valid, MadeInv
<1>4. CASE s.last # 0
  <2>1. s.last \in 1..Len(s.journal)
    BY <1>2, <1>4
  <2>2. Latest(w) \in Known /\ made[Latest(w)].height = s.last /\ made[c].prev = Latest(w)
    BY <1>1, <1>4, <2>1 DEF Sound, Latest, Valid
  <2>3. c # 1
    BY <1>2, <2>2 DEF MadeInv, Known
  <2> QED BY <1>2, <2>2, <2>3 DEF MadeInv
<1> QED BY <1>3, <1>4

(* Observe, up to its write *)
LEMMA WriteAudit ==
  ASSUME AuditInv, NEW w \in Witnesses, NEW c \in Known,
         Observes(w, c), Writes(w, c),
         cursor' \in [Witnesses -> Nat \cup {NULL}],
         UNCHANGED <<platformVars, trustVars, restoreVars, released, faults, certified>>
  PROVE  AuditInv'
<1> DEFINE s == witness[w]
           e == [cp |-> c, signed |-> w \in WitnessOperatorsAt(s.loaded, made[c].epoch)]
           r == [s EXCEPT !.status = "writing", !.journal = Append(s.journal, e)]
<1>1. /\ s \in Witness /\ released[w] \in SUBSET Id
      /\ released = [released EXCEPT ![w] = released[w]]
      /\ Sound(s, released[w]) /\ s.status = "up" /\ faults \in Nat
  BY OneWitness DEF Observes
<1>2. /\ s.journal \in Seq(Record) /\ Len(s.journal) \in Nat
      /\ s.last \in Nat /\ s.synced \in Nat
  BY <1>1 DEF Witness
<1>3. s.last = Len(s.journal) /\ s.synced = Len(s.journal)
  BY <1>1, <1>2 DEF Sound
<1>4. c \in Id
  BY DEF Known, Id, AuditInv, TypeOK
<1>5. e \in Record /\ e.cp = c
  BY <1>4 DEF Record
<1> HIDE DEF e
<1>6. /\ Append(s.journal, e) \in Seq(Record)
      /\ Len(Append(s.journal, e)) = Len(s.journal) + 1
      /\ \A i \in 1..Len(s.journal) : Append(s.journal, e)[i] = s.journal[i]
      /\ Append(s.journal, e)[Len(s.journal) + 1] = e
  BY <1>2, <1>5, Appended
<1>7. /\ r \in Witness /\ r.status = "writing" /\ r.journal = Append(s.journal, e)
      /\ r.last = s.last /\ r.synced = s.synced
  BY <1>1, <1>6 DEF Witness
<1>8. witness' = [witness EXCEPT ![w] = r]
  BY DEF Writes, e
<1> HIDE DEF r
<1>9. Sound(r, released[w])
  <2>1. \A i \in 1..Len(r.journal) : i \in 1..Len(s.journal) \/ i = Len(s.journal) + 1
    BY <1>2, <1>6, <1>7
  <2>2. \A i \in 1..Len(r.journal) :
          r.journal[i].cp \in Known /\ made[r.journal[i].cp].height = i
    BY <1>1, <1>5, <1>6, <1>7, <2>1, ValidHeight DEF Sound
  <2>3. \A x \in released[w] : \E i \in 1..r.synced : r.journal[i].cp = x
    BY <1>1, <1>2, <1>3, <1>6, <1>7 DEF Sound
  <2>4. r.last > 0 => r.journal[r.last] = s.journal[s.last]
    BY <1>2, <1>3, <1>6, <1>7
  <2> QED BY <1>1, <1>2, <1>3, <1>6, <1>7, <2>2, <2>3, <2>4 DEF Sound
<1> QED BY <1>1, <1>7, <1>8, <1>9, WitnessStep

LEMMA PushAudit ==
  ASSUME AuditInv, NEW w \in Witnesses, NEW c \in published, Push(w, c)
  PROVE  AuditInv'
<1>1. c \in Known
  BY DEF AuditInv, MadeInv
<1>2. cursor' \in [Witnesses -> Nat \cup {NULL}]
  BY OneWitness DEF Push
<1> QED BY <1>1, <1>2, WriteAudit DEF Push

LEMMA FetchAudit ==
  ASSUME AuditInv, NEW w \in Witnesses, Fetch(w)
  PROVE  AuditInv'
<1>1. cursor' \in [Witnesses -> Nat \cup {NULL}]
  BY OneWitness DEF Fetch
<1>2. UNCHANGED <<platformVars, trustVars, restoreVars, released, faults, certified>>
  BY DEF Fetch
<1>3. CASE \E c \in PageAfter(cursor[w]) : Observes(w, c) /\ Writes(w, c)
  <2>1. PICK c \in PageAfter(cursor[w]) : Observes(w, c) /\ Writes(w, c)
    BY <1>3
  <2>2. c \in Known
    BY DEF PageAfter, AuditInv, DatabaseInv, RowsInv
  <2> QED BY <1>1, <1>2, <2>1, <2>2, WriteAudit
<1>4. CASE UNCHANGED witness
  <2>1. witness' = [witness EXCEPT ![w] = witness[w]]
    BY <1>4 DEF AuditInv, TypeOK
  <2> QED BY <1>1, <1>2, <2>1, OneWitness, WitnessStep
<1> QED BY <1>3, <1>4 DEF Fetch

(* What remains of a journal after losing records that were not synced *)
LEMMA PrefixSound ==
  ASSUME NEW s \in Witness, NEW r \in Witness, NEW out, Sound(s, out),
         NEW n \in s.synced..Len(s.journal), Len(r.journal) = n,
         \A i \in 1..n : r.journal[i] = s.journal[i],
         r.status \in {"down", "poisoned"}, r.synced = s.synced, r.last \in {0, s.last}
  PROVE  Sound(r, out)
<1>1. /\ s.journal \in Seq(Record) /\ Len(s.journal) \in Nat
      /\ s.last \in Nat /\ s.synced \in Nat
  BY DEF Witness
<1>2. n \in Nat /\ s.last <= s.synced /\ s.synced <= n /\ n <= Len(s.journal)
  BY <1>1 DEF Sound
<1>3. \A c \in out : \E i \in 1..r.synced : r.journal[i].cp = c
  BY <1>1, <1>2 DEF Sound
<1>4. r.last > 0 => r.last = s.last /\ r.journal[r.last] = s.journal[s.last]
  BY <1>1, <1>2
<1>5. \A i \in 1..Len(r.journal) :
        r.journal[i].cp \in Known /\ made[r.journal[i].cp].height = i
  BY <1>1, <1>2 DEF Sound
<1>6. r.last <= r.synced /\ r.synced <= Len(r.journal)
  BY <1>1, <1>2
<1> QED BY <1>3, <1>4, <1>5, <1>6 DEF Sound

LEMMA CutSound ==
  ASSUME AuditInv, NEW w \in Witnesses, NEW n \in witness[w].synced..Len(witness[w].journal),
         NEW torn \in BOOLEAN, NEW last \in {0, witness[w].last},
         NEW status \in {"down", "poisoned"},
         NEW r, r = [witness[w] EXCEPT !.status = status, !.torn = torn, !.last = last,
                       !.journal = SubSeq(witness[w].journal, 1, n)]
  PROVE  r \in Witness /\ Sound(r, released[w])
<1> DEFINE s == witness[w]
           cut == SubSeq(s.journal, 1, n)
<1>1. s \in Witness /\ Sound(s, released[w])
  BY OneWitness
<1>2. /\ s.journal \in Seq(Record) /\ Len(s.journal) \in Nat
      /\ s.last \in Nat /\ s.synced \in Nat
  BY <1>1 DEF Witness
<1>3. n \in 0..Len(s.journal)
  BY <1>2
<1>4. cut \in Seq(Record) /\ Len(cut) = n /\ \A i \in 1..n : cut[i] = s.journal[i]
  BY <1>2, <1>3, Prefix
<1>5. r = [s EXCEPT !.status = status, !.torn = torn, !.last = last, !.journal = cut]
  OBVIOUS
<1> HIDE DEF cut
<1>6. last \in Nat
  BY <1>2
<1>7. r \in Witness
  BY <1>1, <1>4, <1>5, <1>6 DEF Witness
<1>8. r.status = status /\ r.last = last /\ r.synced = s.synced /\ r.journal = cut
  BY <1>1, <1>5 DEF Witness
<1>9. /\ Len(r.journal) = n /\ \A i \in 1..n : r.journal[i] = s.journal[i]
      /\ r.status \in {"down", "poisoned"} /\ r.synced = s.synced /\ r.last \in {0, s.last}
  BY <1>4, <1>8
<1>10. Sound(r, released[w])
  <2> HIDE DEF s
  <2>1. n \in s.synced..Len(s.journal)
    BY DEF s
  <2> QED BY ONLY <1>1, <1>7, <1>9, <2>1, PrefixSound
<1> QED BY <1>7, <1>10

LEMMA FailAudit ==
  ASSUME AuditInv, NEW w \in Witnesses, ObserveFails(w)
  PROVE  AuditInv'
<1> DEFINE s == witness[w]
<1>1. /\ s \in Witness /\ Sound(s, released[w]) /\ s.status = "writing"
      /\ released[w] \in SUBSET Id /\ released = [released EXCEPT ![w] = released[w]]
      /\ cursor' \in [Witnesses -> Nat \cup {NULL}] /\ faults' \in Nat
      /\ UNCHANGED <<platformVars, trustVars, restoreVars, released, certified>>
  BY OneWitness DEF ObserveFails
<1>2. /\ s.journal \in Seq(Record) /\ Len(s.journal) \in Nat
      /\ s.last \in Nat /\ s.synced \in Nat
  BY <1>1 DEF Witness
<1>3. CASE witness' = [witness EXCEPT ![w] =
             [s EXCEPT !.status = "poisoned", !.torn = TRUE,
                       !.journal = SubSeq(s.journal, 1, s.last)]]
  <2> DEFINE r == [s EXCEPT !.status = "poisoned", !.torn = TRUE,
                            !.journal = SubSeq(s.journal, 1, s.last)]
  <2>1. s.last \in s.synced..Len(s.journal)
    BY <1>1, <1>2 DEF Sound
  <2>2. r = [s EXCEPT !.status = "poisoned", !.torn = TRUE, !.last = s.last,
                      !.journal = SubSeq(s.journal, 1, s.last)]
    BY <1>1 DEF Witness
  <2>3. r \in Witness /\ Sound(r, released[w])
    BY <2>1, <2>2, CutSound
  <2> HIDE DEF r
  <2>4. witness' = [witness EXCEPT ![w] = r]
    BY <1>3 DEF r
  <2> QED BY <1>1, <2>3, <2>4, WitnessStep
<1>4. CASE witness' = [witness EXCEPT ![w].status = "poisoned"]
  <2> DEFINE r == [s EXCEPT !.status = "poisoned"]
  <2>1. /\ r \in Witness /\ r.status = "poisoned" /\ r.journal = s.journal
        /\ r.last = s.last /\ r.synced = s.synced
    BY <1>1 DEF Witness
  <2>2. witness' = [witness EXCEPT ![w] = r]
    BY <1>4
  <2> HIDE DEF r
  <2>3. Sound(r, released[w])
    BY <1>1, <2>1 DEF Sound
  <2> QED BY <1>1, <2>1, <2>2, <2>3, WitnessStep
<1> QED BY <1>3, <1>4 DEF ObserveFails

LEMMA CrashAudit ==
  ASSUME AuditInv, NEW w \in Witnesses, Crash(w)
  PROVE  AuditInv'
<1> DEFINE s == witness[w]
<1>1. /\ s \in Witness /\ released[w] \in SUBSET Id
      /\ released = [released EXCEPT ![w] = released[w]]
      /\ cursor' \in [Witnesses -> Nat \cup {NULL}] /\ faults' \in Nat
      /\ UNCHANGED <<platformVars, trustVars, restoreVars, released, certified>>
  BY OneWitness DEF Crash
<1>2. PICK n \in s.synced..Len(s.journal), torn \in BOOLEAN :
        witness' = [witness EXCEPT ![w] =
          [s EXCEPT !.status = "down", !.journal = SubSeq(s.journal, 1, n),
                    !.torn = torn, !.last = 0]]
  BY DEF Crash
<1> DEFINE r == [s EXCEPT !.status = "down", !.journal = SubSeq(s.journal, 1, n),
                          !.torn = torn, !.last = 0]
<1>3. r = [s EXCEPT !.status = "down", !.torn = torn, !.last = 0,
                    !.journal = SubSeq(s.journal, 1, n)]
  BY <1>1 DEF Witness
<1>4. r \in Witness /\ Sound(r, released[w])
  BY <1>3, CutSound
<1> HIDE DEF r
<1>5. witness' = [witness EXCEPT ![w] = r]
  BY <1>2 DEF r
<1> QED BY <1>1, <1>4, <1>5, WitnessStep

LEMMA RecoverAudit ==
  ASSUME AuditInv, NEW w \in Witnesses, RecoverPrefix(w)
  PROVE  AuditInv'
<1> DEFINE s == witness[w]
           r == [s EXCEPT !.torn = FALSE]
<1>1. /\ s \in Witness /\ Sound(s, released[w]) /\ released[w] \in SUBSET Id
      /\ released = [released EXCEPT ![w] = released[w]]
      /\ cursor' \in [Witnesses -> Nat \cup {NULL}] /\ faults' \in Nat
      /\ UNCHANGED <<platformVars, trustVars, restoreVars, released, certified>>
  BY OneWitness DEF RecoverPrefix
<1>2. /\ r \in Witness /\ r.status = s.status /\ r.journal = s.journal
      /\ r.last = s.last /\ r.synced = s.synced
  BY <1>1 DEF Witness
<1>3. witness' = [witness EXCEPT ![w] = r]
  BY DEF RecoverPrefix
<1> HIDE DEF r
<1>4. Sound(r, released[w])
  BY <1>1, <1>2 DEF Sound
<1> QED BY <1>1, <1>2, <1>3, <1>4, WitnessStep

-----------------------------------------------------------------------------
(* witnessReceipt, called by the observer with a released signature *)

LEMMA ReceiptAudit ==
  ASSUME AuditInv, NEW w \in Witnesses, Signed(w, witness[w].last) # {},
         WitnessReceipt(w, Latest(w)),
         cursor' \in [Witnesses -> Nat \cup {NULL}],
         UNCHANGED <<made, published, signing, appended, trustVars, restoreVars,
                     witness, released, faults>>
  PROVE  AuditInv'
<1> DEFINE c == Latest(w)
           members == WitnessOperatorsAt(trusted, made[c].epoch)
           voted == [db EXCEPT !.votes = @ \cup {[cp |-> c, by |-> w]}]
<1>1. c \in released[w]
  BY OneWitness DEF Signed, Latest, Sound, Witness
<1>2. db \in Database /\ c \in Id /\ made \in Seq(Checkpoint) /\ trusted \in Epochs
  BY <1>1, OneWitness DEF AuditInv, TypeOK
<1>3. c \in Known
  BY DEF WitnessReceipt, Stored, AuditInv, DatabaseInv, RowsInv
<1>4. \E h \in Epochs : members = Members[h]
  <2>1. made[c] \in Checkpoint
    BY <1>2, <1>3 DEF Known
  <2>2. made[c].epoch \in Epochs
    BY <2>1 DEF Checkpoint
  <2> QED BY <1>2, <2>2 DEF WitnessOperatorsAt, Smaller
<1>5. /\ voted \in Database /\ voted.table = db.table /\ voted.events = db.events
      /\ voted.signed = db.signed /\ voted.votes = db.votes \cup {[cp |-> c, by |-> w]}
  BY <1>2 DEF Database, Vote
<1>6. \/ db' = voted /\ certified' = certified
      \/ /\ VerifyQuorum(voted, c, members)
         /\ db' = [voted EXCEPT !.quorum = @ \cup {c}]
         /\ certified' = certified \cup {[cp |-> c, members |-> members]}
  BY DEF WitnessReceipt
<1> HIDE DEF c, members, voted
<1>7. /\ db' \in Database /\ db'.table = db.table /\ db'.events = db.events
      /\ db'.signed = db.signed /\ db'.votes = db.votes \cup {[cp |-> c, by |-> w]}
  BY <1>2, <1>5, <1>6 DEF Database
<1>8. UNCHANGED <<made, published, signing, appended, epoch, trusted, backup, restores,
                  witness, released, faults>>
  BY DEF trustVars, restoreVars
<1>9. certified' \subseteq [cp : Id, members : SUBSET Witnesses]
  BY <1>2, <1>4, <1>6, Members1 DEF AuditInv, TypeOK
<1>10. TypeOK'
  BY <1>7, <1>8, <1>9 DEF AuditInv, TypeOK
<1>11. MadeInv' /\ RowsInv(db)' /\ DatabaseInv(backup)'
  BY <1>7, <1>8 DEF AuditInv, MadeInv, DatabaseInv, RowsInv, VotesInv, Known
<1>12. VotesInv(db)'
  BY <1>1, <1>7, <1>8 DEF AuditInv, DatabaseInv, VotesInv
<1>13. JournalInv'
  BY <1>8 DEF AuditInv, JournalInv, Sound, Known
<1>14. CertInv'
  <2>1. \A q \in certified : (\E h \in Epochs : q.members = Members[h]) /\ Backed(q)'
    BY <1>8 DEF AuditInv, CertInv, Backed
  <2>2. CASE certified' = certified
    BY <2>1, <2>2 DEF CertInv
  <2>3. CASE VerifyQuorum(voted, c, members)
             /\ certified' = certified \cup {[cp |-> c, members |-> members]}
    <3>1. PICK q : q = [cp |-> c, members |-> members]
      OBVIOUS
    <3>2. PICK V : V = VotersOf(voted, c) \cap members
      OBVIOUS
    <3>3. Cardinality(V) >= 2 /\ V \in SUBSET q.members
      BY <2>3, <3>1, <3>2 DEF VerifyQuorum
    <3>4. \A x \in V : q.cp \in released'[x]
      BY <1>1, <1>5, <1>8, <3>1, <3>2 DEF VotersOf, AuditInv, DatabaseInv, VotesInv
    <3>5. Backed(q)'
      BY <3>3, <3>4 DEF Backed
    <3>6. \E h \in Epochs : q.members = Members[h]
      BY <1>4, <3>1
    <3>7. certified' = certified \cup {q}
      BY <2>3, <3>1
    <3> QED BY <2>1, <3>5, <3>6, <3>7 DEF CertInv
  <2> QED BY <1>6, <2>2, <2>3
<1> QED BY <1>10, <1>11, <1>12, <1>13, <1>14 DEF AuditInv, DatabaseInv

LEMMA ReplayAudit ==
  ASSUME AuditInv, NEW w \in Witnesses, ReplayLatest(w) \/ LostAnswer(w)
  PROVE  AuditInv'
<1>1. Latest(w) \in Nat
  BY OneWitness DEF Latest, Witness, Sound, Known, AuditInv, TypeOK
<1>2. cursor' \in [Witnesses -> Nat \cup {NULL}]
  BY <1>1, OneWitness DEF ReplayLatest, LostAnswer
<1>3. CASE Signed(w, witness[w].last) # {} /\ WitnessReceipt(w, Latest(w))
  BY <1>2, <1>3, ReceiptAudit DEF ReplayLatest, LostAnswer
<1>4. CASE UNCHANGED <<db, certified>> /\ ReplayLatest(w)
  <2>1. witness' = [witness EXCEPT ![w] = witness[w]] /\ UNCHANGED <<faults, released>>
    BY <1>4 DEF ReplayLatest, AuditInv, TypeOK
  <2>2. UNCHANGED <<platformVars, trustVars, restoreVars, certified>>
    BY <1>4 DEF ReplayLatest, platformVars
  <2> QED BY <1>2, <2>1, <2>2, OneWitness, WitnessStep
<1> QED BY <1>3, <1>4 DEF ReplayLatest, LostAnswer

-----------------------------------------------------------------------------
(* The invariant and what follows from it *)

LEMMA NextAudit == AuditInv /\ [Next]_vars => AuditInv'
<1> SUFFICES ASSUME AuditInv, [Next]_vars PROVE AuditInv'
  OBVIOUS
<1>1. CASE UNCHANGED vars
  BY <1>1 DEF AuditInv, TypeOK, MadeInv, DatabaseInv, RowsInv, VotesInv, JournalInv,
    Sound, CertInv, Backed, Known, vars, platformVars, trustVars, restoreVars, witnessVars
<1>2. CASE AppendEvent \/ Backup \/ Restore \/ RotateWitnesses \/ LoadTrust
  BY <1>2, AppendAudit, RestoreAudit, TrustAudit
<1>3. CASE \E k \in Workers : CheckpointTick(k) \/ SignCheckpoint(k) \/ TickFails(k)
  BY <1>3, TickAudit, SignAudit
<1>4. ASSUME NEW w \in Witnesses,
             \/ \E h \in Epochs : OpenWitness(w, h)
             \/ \E c \in published : Push(w, c)
             \/ ObserveReturns(w) \/ ObserveFails(w) \/ Crash(w) \/ RecoverPrefix(w)
             \/ ReplayLatest(w) \/ LostAnswer(w) \/ Fetch(w)
      PROVE  AuditInv'
  BY <1>4, OpenAudit, PushAudit, ReturnAudit, FailAudit, CrashAudit, RecoverAudit,
    ReplayAudit, FetchAudit
<1> QED BY <1>1, <1>2, <1>3, <1>4 DEF Next

LEMMA AuditAlways == Spec => []AuditInv
  BY InitAudit, NextAudit, PTL DEF Spec

(* The columns, journals and processes of AuditLog keep their types under     *)
(* every step of the control plane and of the witnesses.                      *)
THEOREM AuditTypeCorrect == Spec => []TypeOK
<1>1. AuditInv => TypeOK
  BY DEF AuditInv
<1> QED BY <1>1, AuditAlways, PTL

(* The stored checkpoints always form one gapless signed chain over the       *)
(* events, for any number of workers, failures and restores (checkpointTick). *)
THEOREM CheckpointsCoverTheLog == Spec => []ChainCovers
<1>1. AuditInv => ChainCovers
  BY DEF AuditInv, DatabaseInv, RowsInv, ChainCovers
<1> QED BY <1>1, AuditAlways, PTL

(* Released checkpoints of the same height are the same record of a journal. *)
LEMMA HeightsAreOnce == AuditInv => NoEquivocation
<1> SUFFICES ASSUME AuditInv, NEW w \in Witnesses,
                    NEW c \in released[w], NEW d \in released[w],
                    made[c].height = made[d].height
             PROVE  c = d
  BY DEF NoEquivocation
<1> DEFINE s == witness[w]
<1>1. s \in Witness /\ Sound(s, released[w])
  BY OneWitness
<1>2. s.synced \in Nat /\ Len(s.journal) \in Nat /\ s.synced <= Len(s.journal)
  BY <1>1 DEF Witness, Sound
<1>3. \A i \in 1..s.synced : i \in 1..Len(s.journal)
  BY <1>2
<1>4. PICK i \in 1..s.synced : s.journal[i].cp = c
  BY <1>1 DEF Sound
<1>5. PICK j \in 1..s.synced : s.journal[j].cp = d
  BY <1>1 DEF Sound
<1>6. made[c].height = i /\ made[d].height = j
  BY <1>1, <1>3, <1>4, <1>5 DEF Sound
<1> QED BY <1>4, <1>5, <1>6

(* No witness ever gives out signatures for two competing checkpoints, for    *)
(* any number of crashes, restores and membership changes (Observe).          *)
THEOREM WitnessesDoNotEquivocate == Spec => []NoEquivocation
  BY HeightsAreOnce, AuditAlways, PTL

(* Every checkpoint ever certified is durable at two of the witnesses counted *)
(* (VerifyQuorum, Observe).                                                   *)
THEOREM CertifiedAreRetained == Spec => []CertifiedIsRetained
<1>1. AuditInv => CertifiedIsRetained
  <2> SUFFICES ASSUME AuditInv, NEW q \in certified
               PROVE  Cardinality({w \in q.members : q.cp \in Durable(w)}) >= 2
    BY DEF CertifiedIsRetained
  <2> DEFINE D == {w \in q.members : q.cp \in Durable(w)}
  <2>1. PICK V \in SUBSET q.members : Cardinality(V) >= 2 /\ \A w \in V : q.cp \in released[w]
    BY DEF AuditInv, CertInv, Backed
  <2>2. IsFiniteSet(q.members) /\ q.members \subseteq Witnesses
    BY Members1 DEF AuditInv, CertInv
  <2>3. V \subseteq D
    <3> SUFFICES ASSUME NEW w \in V PROVE q.cp \in Durable(w)
      BY <2>1
    <3>1. w \in Witnesses /\ q.cp \in released[w]
      BY <2>1, <2>2
    <3>2. Sound(witness[w], released[w])
      BY <3>1, OneWitness
    <3> QED BY <3>1, <3>2 DEF Sound, Durable
  <2>4. D \subseteq q.members
    OBVIOUS
  <2> HIDE DEF D
  <2>5. IsFiniteSet(D) /\ IsFiniteSet(V)
    BY <2>2, <2>4, FS_Subset
  <2>6. Cardinality(V) <= Cardinality(D) /\ Cardinality(V) \in Nat /\ Cardinality(D) \in Nat
    BY <2>3, <2>5, FS_Subset, FS_CardinalityType
  <2>7. Cardinality(D) >= 2
    BY <2>1, <2>6
  <2> QED BY <2>7 DEF D
<1> QED BY <1>1, AuditAlways, PTL

(* Two of three and two of three have a witness in common. *)
LEMMA QuorumsMeet ==
  ASSUME NEW M, IsFiniteSet(M), Cardinality(M) = 3,
         NEW V \in SUBSET M, NEW W \in SUBSET M, Cardinality(V) >= 2, Cardinality(W) >= 2
  PROVE  V \cap W # {}
<1> SUFFICES ASSUME V \cap W = {} PROVE FALSE
  OBVIOUS
<1>1. IsFiniteSet(V) /\ IsFiniteSet(W)
  BY FS_Subset
<1>2. Cardinality(V) \in Nat /\ Cardinality(W) \in Nat
  BY <1>1, FS_CardinalityType
<1>3. Cardinality(V \cap W) = 0
  BY FS_EmptySet
<1>4. Cardinality(V \cup W) = Cardinality(V) + Cardinality(W)
  BY <1>1, <1>2, <1>3, FS_Union
<1>5. V \cup W \in SUBSET M
  OBVIOUS
<1>6. Cardinality(V \cup W) <= 3
  BY <1>5, FS_Subset
<1> QED BY <1>2, <1>4, <1>6

(* Two competing checkpoints are never certified by the same members, so a    *)
(* platform restored behind a certified checkpoint cannot have its new branch *)
(* certified in its place (witnessReceipt, VerifyQuorum, Observe).            *)
THEOREM QuorumsDoNotFork == Spec => []OneQuorum
<1>1. AuditInv => OneQuorum
  <2> SUFFICES ASSUME AuditInv, NEW q \in certified, NEW r \in certified,
                      q.members = r.members, made[q.cp].height = made[r.cp].height
               PROVE  q.cp = r.cp
    BY DEF OneQuorum
  <2>1. PICK V \in SUBSET q.members : Cardinality(V) >= 2 /\ \A w \in V : q.cp \in released[w]
    BY DEF AuditInv, CertInv, Backed
  <2>2. PICK W \in SUBSET q.members : Cardinality(W) >= 2 /\ \A w \in W : r.cp \in released[w]
    BY DEF AuditInv, CertInv, Backed
  <2>3. /\ IsFiniteSet(q.members) /\ Cardinality(q.members) = 3
        /\ q.members \subseteq Witnesses
    BY Members1 DEF AuditInv, CertInv
  <2>4. PICK w \in Witnesses : w \in V /\ w \in W
    BY <2>1, <2>2, <2>3, QuorumsMeet
  <2>5. q.cp \in released[w] /\ r.cp \in released[w]
    BY <2>1, <2>2, <2>4
  <2> QED BY <2>5, HeightsAreOnce DEF NoEquivocation
<1> QED BY <1>1, AuditAlways, PTL
-----------------------------------------------------------------------------
(* Old quorums *)

(* A row marked as certified keeps the two votes that were counted, in the    *)
(* database and in its backup.                                                *)
QuorumInv(d) ==
  \A c \in d.quorum :
    /\ c \in Known
    /\ \E q \in certified : \E V \in SUBSET q.members :
         /\ q.cp = c /\ Cardinality(V) >= 2
         /\ \A w \in V : [cp |-> c, by |-> w] \in d.votes

QuorumsInv == QuorumInv(db) /\ QuorumInv(backup)

LEMMA InitQuorums == Init => QuorumsInv
<1> SUFFICES ASSUME Init PROVE QuorumInv(Bootstrapped)
  BY DEF Init, QuorumsInv
<1>1. 1 \in Known
  BY DEF Init, Known
<1>2. PICK q \in certified : q = [cp |-> 1, members |-> Members[1]]
  BY DEF Init
<1>3. q.members \in SUBSET q.members /\ q.cp = 1 /\ Cardinality(q.members) >= 2
  BY <1>2, Members1
<1>4. \A w \in q.members : [cp |-> 1, by |-> w] \in Bootstrapped.votes
  BY <1>2 DEF Bootstrapped
<1> QED BY <1>1, <1>3, <1>4 DEF QuorumInv, Bootstrapped

(* Votes, certificates and checkpoints are only ever added. *)
LEMMA QuorumGrows ==
  ASSUME NEW d, NEW r, QuorumInv(d), r.quorum = d.quorum, d.votes \subseteq r.votes,
         Known \subseteq Known', certified \subseteq certified'
  PROVE  \A c \in r.quorum :
           /\ c \in Known'
           /\ \E q \in certified' : \E V \in SUBSET q.members :
                /\ q.cp = c /\ Cardinality(V) >= 2
                /\ \A w \in V : [cp |-> c, by |-> w] \in r.votes
<1> SUFFICES ASSUME NEW c \in r.quorum
             PROVE  /\ c \in Known'
                    /\ \E q \in certified' : \E V \in SUBSET q.members :
                         /\ q.cp = c /\ Cardinality(V) >= 2
                         /\ \A w \in V : [cp |-> c, by |-> w] \in r.votes
  OBVIOUS
<1>1. PICK q \in certified : \E V \in SUBSET q.members :
        /\ q.cp = c /\ Cardinality(V) >= 2
        /\ \A w \in V : [cp |-> c, by |-> w] \in d.votes
  BY DEF QuorumInv
<1>2. q \in certified' /\ c \in Known'
  BY DEF QuorumInv
<1> QED BY <1>1, <1>2

(* A step that counts no vote adds no quorum. *)
LEMMA UncountedSteps ==
  ASSUME AuditInv, [Next]_vars,
         ~ \E w \in Witnesses : ReplayLatest(w) \/ LostAnswer(w)
  PROVE  /\ Known \subseteq Known' /\ certified' = certified
         /\ backup' \in {db, backup}
         /\ \/ db' \in {db, backup}
            \/ db'.quorum = db.quorum /\ db'.votes = db.votes
<1>1. db \in Database
  BY DEF AuditInv, TypeOK
<1> USE DEF platformVars, trustVars, restoreVars, witnessVars, Known
<1>2. CASE UNCHANGED vars
  BY <1>2 DEF vars
<1>3. CASE AppendEvent \/ Backup \/ Restore \/ RotateWitnesses \/ LoadTrust
  BY <1>1, <1>3 DEF AppendEvent, Backup, Restore, RotateWitnesses, LoadTrust, Database
<1>4. ASSUME NEW k \in Workers, CheckpointTick(k) \/ SignCheckpoint(k) \/ TickFails(k)
      PROVE  /\ Known \subseteq Known' /\ certified' = certified /\ backup' = backup
             /\ \/ db' = db
                \/ db'.quorum = db.quorum /\ db'.votes = db.votes
  <2>1. CASE SignCheckpoint(k) \/ TickFails(k)
    BY <1>1, <2>1 DEF SignCheckpoint, TickFails, Database
  <2>2. CASE CheckpointTick(k)
    <3>1. \/ UNCHANGED <<db, made>>
          \/ /\ made' = Append(made, Build(LastRow))
             /\ db' = [db EXCEPT !.table = Append(db.table, Len(made) + 1)]
      BY <2>2 DEF CheckpointTick, InsertCheckpoint
    <3>2. made \in Seq(Checkpoint)
      BY DEF AuditInv, TypeOK
    <3>3. Known \subseteq Known'
      <4>1. CASE UNCHANGED made
        BY <4>1
      <4>2. CASE made' = Append(made, Build(LastRow))
        <5>1. Len(made') = Len(made) + 1 /\ Len(made) \in Nat
          BY <3>2, <4>2
        <5> QED BY <5>1
      <4> QED BY <3>1, <4>1, <4>2
    <3>4. certified' = certified /\ backup' = backup
      BY <2>2 DEF CheckpointTick
    <3>5. db' = db \/ (db'.quorum = db.quorum /\ db'.votes = db.votes)
      BY <1>1, <3>1 DEF Database
    <3> QED BY <3>3, <3>4, <3>5
  <2> QED BY <1>4, <2>1, <2>2
<1>5. ASSUME NEW w \in Witnesses,
             \/ \E h \in Epochs : OpenWitness(w, h)
             \/ \E c \in published : Push(w, c)
             \/ ObserveReturns(w) \/ ObserveFails(w) \/ Crash(w) \/ RecoverPrefix(w)
             \/ Fetch(w)
      PROVE  UNCHANGED <<made, db, backup, certified>>
  <2>1. CASE \E h \in Epochs : OpenWitness(w, h)
    BY <2>1, Zenon DEF OpenWitness
  <2>2. CASE (\E c \in published : Push(w, c)) \/ Fetch(w)
    BY <2>2, Zenon DEF Push, Fetch
  <2>3. CASE ObserveReturns(w) \/ ObserveFails(w) \/ Crash(w) \/ RecoverPrefix(w)
    BY <2>3, Zenon DEF ObserveReturns, ObserveFails, Crash, RecoverPrefix
  <2> QED BY <1>5, <2>1, <2>2, <2>3
<1> QED BY <1>2, <1>3, <1>4, <1>5 DEF Next

(* witnessReceipt marks the row together with the votes it counted. *)
LEMMA ReceiptQuorum ==
  ASSUME AuditInv, QuorumsInv, NEW w \in Witnesses, NEW c \in Id, WitnessReceipt(w, c),
         UNCHANGED <<made, backup>>
  PROVE  QuorumsInv'
<1> DEFINE members == WitnessOperatorsAt(trusted, made[c].epoch)
           voted == [db EXCEPT !.votes = @ \cup {[cp |-> c, by |-> w]}]
<1>1. db \in Database /\ c \in Known
  BY DEF AuditInv, TypeOK, WitnessReceipt, Stored, DatabaseInv, RowsInv
<1>2. voted \in Database /\ voted.quorum = db.quorum /\ db.votes \subseteq voted.votes
  BY <1>1 DEF Database, Vote
<1>3. \/ db' = voted /\ certified' = certified
      \/ /\ VerifyQuorum(voted, c, members)
         /\ db' = [voted EXCEPT !.quorum = @ \cup {c}]
         /\ certified' = certified \cup {[cp |-> c, members |-> members]}
  BY DEF WitnessReceipt
<1> HIDE DEF members, voted
<1>4. Known' = Known /\ certified \subseteq certified' /\ backup' = backup
  BY <1>3 DEF Known
<1>5. QuorumInv(backup)'
  BY <1>4, QuorumGrows DEF QuorumsInv, QuorumInv
<1>6. \A x \in voted.quorum :
        /\ x \in Known'
        /\ \E q \in certified' : \E V \in SUBSET q.members :
             /\ q.cp = x /\ Cardinality(V) >= 2
             /\ \A v \in V : [cp |-> x, by |-> v] \in voted.votes
  BY <1>2, <1>4, QuorumGrows DEF QuorumsInv
<1>7. CASE db' = voted
  BY <1>5, <1>6, <1>7 DEF QuorumsInv, QuorumInv
<1>8. CASE /\ VerifyQuorum(voted, c, members)
           /\ db' = [voted EXCEPT !.quorum = @ \cup {c}]
           /\ certified' = certified \cup {[cp |-> c, members |-> members]}
  <2>1. db'.votes = voted.votes /\ db'.quorum = voted.quorum \cup {c}
    BY <1>2, <1>8 DEF Database
  <2>2. PICK q \in certified' : q = [cp |-> c, members |-> members]
    BY <1>8
  <2>3. PICK V : V = VotersOf(voted, c) \cap members
    OBVIOUS
  <2>4. V \in SUBSET q.members /\ q.cp = c /\ Cardinality(V) >= 2
    BY <1>8, <2>2, <2>3 DEF VerifyQuorum
  <2>5. \A v \in V : [cp |-> c, by |-> v] \in db'.votes
    <3> SUFFICES ASSUME NEW v \in V PROVE [cp |-> c, by |-> v] \in db'.votes
      OBVIOUS
    <3>1. PICK u \in voted.votes : u.cp = c /\ u.by = v
      BY <2>3 DEF VotersOf
    <3>2. u \in Vote
      BY <1>2 DEF Database
    <3>3. u = [cp |-> c, by |-> v]
      BY <3>1, <3>2 DEF Vote
    <3> QED BY <2>1, <3>3
  <2>6. c \in Known'
    BY <1>1, <1>4
  <2>7. QuorumInv(db)'
    BY <1>6, <2>1, <2>2, <2>4, <2>5, <2>6 DEF QuorumInv
  <2> QED BY <1>5, <2>7 DEF QuorumsInv
<1> QED BY <1>3, <1>7, <1>8

LEMMA NextQuorums == AuditInv /\ QuorumsInv /\ [Next]_vars => QuorumsInv'
<1> SUFFICES ASSUME AuditInv, QuorumsInv, [Next]_vars PROVE QuorumsInv'
  OBVIOUS
<1>1. CASE ~ \E w \in Witnesses : ReplayLatest(w) \/ LostAnswer(w)
  <2>1. /\ Known \subseteq Known' /\ certified' = certified
        /\ backup' \in {db, backup}
        /\ \/ db' \in {db, backup}
           \/ db'.quorum = db.quorum /\ db'.votes = db.votes
    BY <1>1, UncountedSteps
  <2>2. QuorumInv(backup)'
    BY <2>1, QuorumGrows DEF QuorumsInv, QuorumInv
  <2>3. QuorumInv(db)'
    BY <2>1, QuorumGrows DEF QuorumsInv, QuorumInv
  <2> QED BY <2>2, <2>3 DEF QuorumsInv
<1>2. ASSUME NEW w \in Witnesses, ReplayLatest(w) \/ LostAnswer(w)
      PROVE  QuorumsInv'
  <2>1. UNCHANGED <<made, backup>>
    BY <1>2 DEF ReplayLatest, LostAnswer, restoreVars
  <2>2. CASE UNCHANGED <<db, certified>>
    BY <2>1, <2>2 DEF QuorumsInv, QuorumInv, Known
  <2>3. CASE Signed(w, witness[w].last) # {} /\ WitnessReceipt(w, Latest(w))
    <3>1. Latest(w) \in Id
      BY <2>3, OneWitness DEF Signed, Latest, Sound, Witness, AuditInv, TypeOK
    <3> QED BY <2>1, <2>3, <3>1, ReceiptQuorum
  <2> QED BY <1>2, <2>2, <2>3 DEF ReplayLatest, LostAnswer
<1> QED BY <1>1, <1>2

(* The votes counted under the membership of a checkpoint's epoch are a       *)
(* quorum of it for every history that knows that epoch.                      *)
LEMMA QuorumsVerify == AuditInv /\ QuorumsInv => OldQuorumsVerify
<1> SUFFICES ASSUME AuditInv, QuorumsInv, NEW c \in db.quorum,
                    NEW e, e = made[c].epoch,
                    \A q \in certified : q.cp = c => q.members = Members[e],
                    NEW h \in e..Len(Members)
             PROVE  VerifyQuorum(db, c, WitnessOperatorsAt(h, e))
  BY DEF OldQuorumsVerify
<1>1. c \in Known /\ made \in Seq(Checkpoint)
  BY DEF QuorumsInv, QuorumInv, AuditInv, TypeOK
<1>2. made[c] \in Checkpoint
  BY <1>1 DEF Known
<1>3. e \in Epochs
  BY <1>2 DEF Checkpoint
<1>4. WitnessOperatorsAt(h, e) = Members[e]
  BY <1>3, AuditAssumption DEF WitnessOperatorsAt, Smaller, Epochs
<1>5. PICK q \in certified : \E V \in SUBSET q.members :
        /\ q.cp = c /\ Cardinality(V) >= 2
        /\ \A w \in V : [cp |-> c, by |-> w] \in db.votes
  BY DEF QuorumsInv, QuorumInv
<1>6. PICK V \in SUBSET Members[e] :
        /\ Cardinality(V) >= 2
        /\ \A w \in V : [cp |-> c, by |-> w] \in db.votes
  BY <1>5
<1> DEFINE W == VotersOf(db, c) \cap Members[e]
<1>7. \A w \in V : w \in VotersOf(db, c)
  <2> SUFFICES ASSUME NEW w \in V PROVE w \in VotersOf(db, c)
    OBVIOUS
  <2>1. PICK u \in db.votes : u = [cp |-> c, by |-> w]
    BY <1>6
  <2> QED BY <2>1 DEF VotersOf
<1>8. V \subseteq W /\ W \subseteq Members[e] /\ IsFiniteSet(Members[e])
  BY <1>3, <1>7, Members1
<1> HIDE DEF W
<1>9. IsFiniteSet(W) /\ IsFiniteSet(V)
  BY <1>8, FS_Subset
<1>10. Cardinality(V) <= Cardinality(W) /\ Cardinality(V) \in Nat /\ Cardinality(W) \in Nat
  BY <1>8, <1>9, FS_Subset, FS_CardinalityType
<1>11. Cardinality(W) >= 2
  BY <1>6, <1>10
<1> QED BY <1>4, <1>11 DEF VerifyQuorum, W

(* A checkpoint certified by the members of its epoch keeps a quorum of them  *)
(* under every later history, through rotations, backups and restores, for    *)
(* any memberships (WitnessOperatorsAt, witnessReceipt).                      *)
THEOREM OldQuorumsStillVerify == Spec => []OldQuorumsVerify
<1>1. Spec => []QuorumsInv
  BY InitQuorums, NextQuorums, AuditAlways, PTL DEF Spec
<1> QED BY <1>1, QuorumsVerify, AuditAlways, PTL
=============================================================================
