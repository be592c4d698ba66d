------------------------- MODULE EntryFiltersProofs -------------------------
(***************************************************************************)
(* Proofs about EntryFilters, for any creators, mints, tasks and crashes:  *)
(* types; of the local index, that no creation is counted, that migrations *)
(* are counted at most once too often per crash, that a backfill that      *)
(* counts as done is whole, and that mints are linked once; of the         *)
(* service, that a mint is fetched once at a time, by a task that ends,    *)
(* gives its permit back and leaves an answer.                             *)
(***************************************************************************)
EXTENDS EntryFilters, FiniteSetTheorems, TLAPS

(***************************************************************************)
(* The index                                                               *)
(***************************************************************************)

Sharing(h) == {m \in Mints : Handle[m] = h}

\* A list of different mints of one Twitter account.
OwnList(s, h) ==
  /\ s \in Seq(Mints)
  /\ \A i, j \in 1..Len(s) : s[i] = s[j] => i = j
  /\ \A i \in 1..Len(s) : Handle[s[i]] = h

\* Such a list is as long as it has mints, and not longer than there are.
LEMMA ListLength ==
  ASSUME NEW h, NEW s, OwnList(s, h)
  PROVE  /\ Cardinality(Elements(s)) = Len(s)
         /\ Len(s) <= Cardinality(Sharing(h))
<1>1. s \in [1..Len(s) -> Mints] /\ Len(s) \in Nat /\ DOMAIN s = 1..Len(s)
  BY DEF OwnList
<1>2. Elements(s) \subseteq Sharing(h)
  BY <1>1 DEF Elements, OwnList, Sharing
<1>3. s \in Bijection(1..Len(s), Elements(s))
  <2> DEFINE n == Len(s)
             E == Elements(s)
  <2>1. \A i, j \in 1..n : s[i] = s[j] => i = j
    BY DEF OwnList
  <2>2. E = {s[i] : i \in 1..n}
    BY <1>1 DEF Elements
  <2>3. s \in [1..n -> E]
    BY <1>1, <2>2
  <2>4. \A e \in E : \E i \in 1..n : s[i] = e
    BY <2>2
  <2> HIDE DEF n, E
  <2>5. DOMAIN s = 1..n
    BY <2>3
  <2>6. s \in Injection(1..n, E)
    BY <2>1, <2>3, <2>5 DEF Injection, IsInjective
  <2>7. s \in Surjection(1..n, E)
    BY <2>3, <2>4 DEF Surjection
  <2>8. s \in Bijection(1..n, E)
    BY <2>6, <2>7, Zenon DEF Bijection
  <2> QED BY <2>8 DEF n, E
<1>4. IsFiniteSet(1..Len(s)) /\ Cardinality(1..Len(s)) = Len(s)
  <2>1. \A n \in Nat : IsFiniteSet(1..n) /\ Cardinality(1..n) = n
    <3> TAKE n \in Nat
    <3>1. n \in Int /\ 1 \in Int /\ (IF 1 > n THEN 0 ELSE n - 1 + 1) = n
      OBVIOUS
    <3>2. IsFiniteSet(1..n) /\ Cardinality(1..n) = IF 1 > n THEN 0 ELSE n - 1 + 1
      BY <3>1, FS_Interval, Zenon
    <3> QED BY <3>1, <3>2
  <2> QED BY <1>1, <2>1, Zenon
<1>5. Cardinality(Elements(s)) = Len(s)
  <2>1. ExistsBijection(1..Len(s), Elements(s))
    BY <1>3 DEF ExistsBijection
  <2> QED BY <1>4, <2>1, FS_Bijection
<1>6. IsFiniteSet(Sharing(h))
  BY DevIndexAssumption, FS_Subset DEF Sharing
<1>7. Cardinality(Elements(s)) <= Cardinality(Sharing(h))
  BY <1>2, <1>6, FS_Subset
<1> QED BY <1>5, <1>7

\* Adding a mint of the account keeps it one.
LEMMA WithMintIsList ==
  ASSUME NEW h, NEW s, OwnList(s, h), NEW m \in Mints, Handle[m] = h
  PROVE  OwnList(WithMint(s, m), h)
<1>1. CASE m \in Elements(s)
  BY <1>1 DEF WithMint
<1>2. CASE m \notin Elements(s)
  <2>1. s \in Seq(Mints) /\ Len(s) \in Nat /\ \A i \in 1..Len(s) : s[i] # m
    BY <1>2 DEF Elements, OwnList
  <2>2. WithMint(s, m) = Append(s, m)
    BY <1>2 DEF WithMint
  <2>3. /\ Append(s, m) \in Seq(Mints) /\ Len(Append(s, m)) = Len(s) + 1
        /\ \A i \in 1..Len(s) : Append(s, m)[i] = s[i]
        /\ Append(s, m)[Len(s) + 1] = m
    BY <2>1
  <2> DEFINE t == Append(s, m)
  <2> HIDE DEF t
  <2>4. \A i \in 1..Len(t) : i \in 1..Len(s) \/ i = Len(s) + 1
    BY <2>1, <2>3 DEF t
  <2>5. \A i, j \in 1..Len(t) : t[i] = t[j] => i = j
    BY <2>1, <2>3, <2>4 DEF t, OwnList
  <2>6. \A i \in 1..Len(t) : Handle[t[i]] = h
    BY <2>1, <2>3, <2>4 DEF t, OwnList
  <2> QED BY <2>2, <2>3, <2>5, <2>6 DEF t, OwnList
<1> QED BY <1>1, <1>2

\* What is always true of the database and of what a crash would leave of it,
\* when the creations s were passed over.
GoodDb(b, s) ==
  /\ b \in Db
  /\ b.created = [d \in Devs |-> 0]
  /\ b.done => \A m \in History \ s : b.creator[m] # NoDev
  /\ \A h \in Handles : OwnList(b.mintsOf[h], h)
  /\ \A d \in Devs : b.bound[d] > 0 =>
       \E h \in Handles : b.bound[d] <= Cardinality(Sharing(h))

\* What the tasks that write it have in hand.
WritersInv ==
  /\ monitor \in [at: {"wait", "look", "bump", "mark"}, mint: Mints, dev: Devs \cup {NoDev}]
  /\ monitor.at \in {"bump", "mark"} => monitor.dev \in Devs
  /\ backfill \in [at: {"scan", "flush", "off"}, left: SUBSET History]
  /\ link \in [Mints -> [at: {"none", "fetch", "write", "bound"}, mints: Seq(Mints)]]
  /\ \A m \in Mints : link[m].at \in {"write", "bound"} =>
       Handle[m] \in Handles /\ OwnList(link[m].mints, Handle[m])
  /\ skipped \subseteq History /\ crashes \in 0..MaxCrashes

\* A creation the backfill has looked at is in the database or was passed over.
BackfillIsWholeSoFar ==
  backfill.at = "scan" =>
    \A m \in History \ skipped : m \in backfill.left \/ db.creator[m] # NoDev

IndexInv ==
  GoodDb(db, skipped) /\ GoodDb(disk, skipped) /\ WritersInv /\ BackfillIsWholeSoFar

\* A database before anything was written is good.
LEMMA EmptyIsGood == GoodDb(EmptyDb, {})
<1>1. EmptyDb \in Db
  BY DEF EmptyDb, Db
<1>2. \A h \in Handles : OwnList(EmptyDb.mintsOf[h], h)
  BY DEF EmptyDb, OwnList
<1> QED BY <1>1, <1>2 DEF EmptyDb, GoodDb

\* Recording a creation names the mint's creator and counts nothing.
LEMMA RecordIsGood ==
  ASSUME NEW b, NEW s, GoodDb(b, s), NEW d \in Devs, NEW m \in Mints
  PROVE  /\ GoodDb(RecordCreation(b, d, m), s)
         /\ RecordCreation(b, d, m).creator[m] # NoDev
         /\ \A n \in Mints : b.creator[n] # NoDev => RecordCreation(b, d, m).creator[n] # NoDev
<1> DEFINE r == RecordCreation(b, d, m)
           c == [b.creator EXCEPT ![m] = d]
<1>1. d # NoDev /\ b \in Db /\ c \in [Mints -> Devs \cup {NoDev}] /\ c[m] = d
      /\ b.created \in [Devs -> Nat] /\ History \subseteq Mints
  BY DevIndexAssumption DEF GoodDb, Db
<1>2. [b EXCEPT !.creator[m] = d] = [b EXCEPT !.creator = c]
  BY <1>1
<1>3. [b EXCEPT !.creator = c].creator[m] # NoDev
  BY <1>1 DEF Db
<1>4. r = [[b EXCEPT !.creator = c] EXCEPT !.created[d] = @]
  BY <1>2, <1>3 DEF RecordCreation
<1> HIDE DEF c
<1>5. [b EXCEPT !.creator = c] \in Db
  BY <1>1 DEF Db
<1>6. r = [b EXCEPT !.creator = c]
  BY <1>4, <1>5 DEF Db
<1> HIDE DEF r
<1>7. /\ r \in Db /\ r.creator = c /\ r.created = b.created /\ r.done = b.done
      /\ r.mintsOf = b.mintsOf /\ r.bound = b.bound
  BY <1>1, <1>5, <1>6 DEF Db
<1>8. \A n \in Mints : b.creator[n] # NoDev => c[n] # NoDev
  BY <1>1 DEF c, Db
<1>9. GoodDb(r, s)
  BY <1>1, <1>7, <1>8 DEF GoodDb
<1> QED BY <1>1, <1>7, <1>8, <1>9 DEF r

\* More creations passed over leave a database good.
LEMMA SkippedIsGood ==
  ASSUME NEW b, NEW s, NEW t, GoodDb(b, s), s \subseteq t
  PROVE  GoodDb(b, t)
  BY DEF GoodDb

\* The invariant holds when the bot first starts.
LEMMA IndexStarts == IndexInit => IndexInv
<1> SUFFICES ASSUME IndexInit PROVE IndexInv
  OBVIOUS
<1>1. GoodDb(db, skipped) /\ GoodDb(disk, skipped)
  BY EmptyIsGood DEF IndexInit
<1>2. backfill = [at |-> "scan", left |-> History]
  BY DEF IndexInit, StartBackfill, EmptyDb
<1>3. monitor.at = "wait" /\ monitor.dev = NoDev /\ monitor.mint = (CHOOSE m \in Mints : TRUE)
      /\ monitor = [at |-> "wait", mint |-> CHOOSE m \in Mints : TRUE, dev |-> NoDev]
  BY DEF IndexInit, Waiting
<1>4. link = [m \in Mints |-> [at |-> "none", mints |-> <<>>]]
  BY DEF IndexInit, NoLink
<1>5. crashes \in 0..MaxCrashes
  BY DevIndexAssumption DEF IndexInit
<1>6. WritersInv
  <2>1. (CHOOSE m \in Mints : TRUE) \in Mints
    BY DevIndexAssumption
  <2>2. monitor \in [at: {"wait", "look", "bump", "mark"}, mint: Mints, dev: Devs \cup {NoDev}]
    BY <1>3, <2>1
  <2>3. \A m \in Mints : link[m].at = "none" /\ link[m].mints = <<>>
    BY <1>4
  <2>4. link \in [Mints -> [at: {"none", "fetch", "write", "bound"}, mints: Seq(Mints)]]
    BY <1>4
  <2> QED BY <1>2, <1>3, <1>5, <2>2, <2>3, <2>4 DEF WritersInv, IndexInit
<1> QED BY <1>1, <1>2, <1>6 DEF IndexInv, BackfillIsWholeSoFar

\* The monitor keeps the invariant.
LEMMA MonitorKeeps ==
  ASSUME IndexInv, MonitorNext
  PROVE  IndexInv'
<1> USE DEF IndexInv
<1>0. db \in Db /\ Mints # {} /\ Watched \subseteq Mints /\ History \subseteq Mints
  BY DevIndexAssumption DEF GoodDb
<1>w. Waiting \in [at: {"wait"}, mint: Mints, dev: {NoDev}]
  <2>1. (CHOOSE m \in Mints : TRUE) \in Mints
    BY <1>0
  <2> QED BY <2>1 DEF Waiting
<1>1. ASSUME NEW m \in Watched, NEW complete \in BOOLEAN, CurveUpdate(m, complete)
      PROVE  IndexInv'
  <2>1. m \in Mints
    BY <1>0
  <2>2. UNCHANGED <<disk, backfill, link, skipped, crashes>>
    BY <1>1 DEF CurveUpdate
  <2>3. monitor' = monitor \/ monitor' = [at |-> "look", mint |-> m, dev |-> NoDev]
    BY <1>1 DEF CurveUpdate
  <2>4. WritersInv'
    BY <2>1, <2>2, <2>3 DEF WritersInv
  <2>5. db' = db \/ (Creator[m] \in Devs /\ db' = RecordCreation(db, Creator[m], m))
    BY <1>1, <2>1, DevIndexAssumption DEF CurveUpdate
  <2>6. GoodDb(db', skipped) /\ \A n \in Mints : db.creator[n] # NoDev => db'.creator[n] # NoDev
    BY <2>1, <2>5, RecordIsGood
  <2> QED BY <1>0, <2>2, <2>4, <2>6 DEF BackfillIsWholeSoFar
<1>2. CASE LookUp
  <2>1. monitor.mint \in Mints /\ db.creator[monitor.mint] \in Devs \cup {NoDev}
    BY <1>0 DEF WritersInv, Db
  <2>2. UNCHANGED <<db, disk, backfill, link, skipped, crashes>>
    BY <1>2 DEF LookUp
  <2>3. \/ monitor' = Waiting
        \/ monitor' = [monitor EXCEPT !.at = "bump", !.dev = db.creator[monitor.mint]]
           /\ db.creator[monitor.mint] \in Devs
    BY <1>2, <2>1 DEF LookUp
  <2>4. WritersInv'
    BY <1>w, <2>2, <2>3 DEF WritersInv
  <2> QED BY <2>2, <2>4 DEF BackfillIsWholeSoFar
<1>3. CASE Bump
  <2> DEFINE f == [db.open EXCEPT ![monitor.dev] = @ + 1]
  <2>1. UNCHANGED <<disk, backfill, link, skipped, crashes>>
        /\ monitor' = [monitor EXCEPT !.at = "mark"] /\ monitor.dev \in Devs
    BY <1>3 DEF Bump, WritersInv
  <2>2. db' = [db EXCEPT !.open = f]
    BY <1>0, <1>3 DEF Bump
  <2>3. f \in [Devs -> Nat]
    <3>1. db.open \in [Devs -> Nat]
      BY <1>0 DEF Db
    <3> QED BY <2>1, <3>1
  <2>4. WritersInv'
    BY <2>1 DEF WritersInv
  <2> HIDE DEF f
  <2>5. /\ db' \in Db /\ db'.creator = db.creator /\ db'.created = db.created /\ db'.done = db.done
        /\ db'.mintsOf = db.mintsOf /\ db'.bound = db.bound
    BY <1>0, <2>2, <2>3 DEF Db
  <2>6. GoodDb(db', skipped)
    BY <2>5 DEF GoodDb
  <2> QED BY <2>1, <2>4, <2>5, <2>6 DEF BackfillIsWholeSoFar
<1>4. CASE Mark
  <2>1. UNCHANGED <<disk, backfill, link, skipped, crashes>> /\ monitor' = Waiting
        /\ db' = [db EXCEPT !.marked = db.marked \cup {monitor.mint}] /\ monitor.mint \in Mints
    BY <1>4 DEF Mark, WritersInv
  <2>2. /\ db' \in Db /\ db'.creator = db.creator /\ db'.created = db.created /\ db'.done = db.done
        /\ db'.mintsOf = db.mintsOf /\ db'.bound = db.bound
    BY <1>0, <2>1 DEF Db
  <2>3. GoodDb(db', skipped)
    BY <2>2 DEF GoodDb
  <2>4. WritersInv'
    BY <1>w, <2>1 DEF WritersInv
  <2> QED BY <2>1, <2>2, <2>3, <2>4 DEF BackfillIsWholeSoFar
<1> QED BY <1>1, <1>2, <1>3, <1>4 DEF MonitorNext

\* The backfill keeps the invariant.
LEMMA BackfillKeeps ==
  ASSUME IndexInv, BackfillNext
  PROVE  IndexInv'
<1> USE DEF IndexInv
<1>0. db \in Db /\ History \subseteq Mints /\ backfill \in [at: {"scan", "flush", "off"}, left: SUBSET History]
  BY DevIndexAssumption DEF GoodDb, WritersInv
<1>1. ASSUME NEW m \in Mints, SkipCreation(m)
      PROVE  IndexInv'
  <2>1. UNCHANGED <<db, disk, monitor, link, crashes>> /\ skipped' = skipped \cup {m} /\ m \in History
        /\ backfill' = [backfill EXCEPT !.left = backfill.left \ {m}]
    BY <1>0, <1>1 DEF SkipCreation
  <2>2. GoodDb(db, skipped') /\ GoodDb(disk, skipped')
    BY <2>1, SkippedIsGood
  <2>3. WritersInv'
    BY <1>0, <2>1 DEF WritersInv
  <2>4. BackfillIsWholeSoFar'
    BY <1>0, <2>1 DEF BackfillIsWholeSoFar
  <2> QED BY <2>1, <2>2, <2>3, <2>4
<1>2. ASSUME NEW m \in Mints, FindCreation(m)
      PROVE  IndexInv'
  <2>1. UNCHANGED <<disk, monitor, skipped, crashes>> /\ Payer[m] \in Devs
        /\ db' = RecordCreation(db, Payer[m], m)
        /\ backfill' = [backfill EXCEPT !.left = backfill.left \ {m}]
        /\ link' = [link EXCEPT ![m].at = "fetch"] /\ backfill.at = "scan"
    BY <1>2, DevIndexAssumption DEF FindCreation
  <2>2. /\ GoodDb(db', skipped) /\ db'.creator[m] # NoDev
        /\ \A n \in Mints : db.creator[n] # NoDev => db'.creator[n] # NoDev
    BY <2>1, RecordIsGood
  <2>3. WritersInv'
    BY <1>0, <2>1 DEF WritersInv
  <2>4. BackfillIsWholeSoFar'
    BY <1>0, <2>1, <2>2 DEF BackfillIsWholeSoFar
  <2> QED BY <2>1, <2>2, <2>3, <2>4
<1>3. CASE PageFails
  <2>1. UNCHANGED <<db, disk, monitor, link, skipped, crashes>> /\ backfill' = [backfill EXCEPT !.at = "off"]
    BY <1>3 DEF PageFails
  <2>2. WritersInv' /\ backfill'.at = "off"
    BY <1>0, <2>1 DEF WritersInv
  <2> QED BY <2>1, <2>2 DEF BackfillIsWholeSoFar
<1>4. CASE MarkDone
  <2>1. UNCHANGED <<disk, monitor, link, skipped, crashes>> /\ backfill' = [backfill EXCEPT !.at = "flush"]
        /\ db' = [db EXCEPT !.done = TRUE] /\ backfill.at = "scan" /\ backfill.left = {}
    BY <1>4 DEF MarkDone
  <2>2. WritersInv' /\ backfill'.at = "flush"
    BY <1>0, <2>1 DEF WritersInv
  <2>3. /\ db' \in Db /\ db'.creator = db.creator /\ db'.created = db.created
        /\ db'.mintsOf = db.mintsOf /\ db'.bound = db.bound
    BY <1>0, <2>1 DEF Db
  <2>4. GoodDb(db', skipped)
    BY <2>1, <2>3 DEF GoodDb, BackfillIsWholeSoFar
  <2> QED BY <2>1, <2>2, <2>4 DEF BackfillIsWholeSoFar
<1>5. CASE FlushDone
  <2>1. UNCHANGED <<db, monitor, link, skipped, crashes>> /\ backfill' = [backfill EXCEPT !.at = "off"]
        /\ disk' = db
    BY <1>5 DEF FlushDone
  <2>2. WritersInv' /\ backfill'.at = "off"
    BY <1>0, <2>1 DEF WritersInv
  <2> QED BY <2>1, <2>2 DEF BackfillIsWholeSoFar
<1> QED BY <1>1, <1>2, <1>3, <1>4, <1>5 DEF BackfillNext

\* The metadata tasks keep the invariant.
LEMMA LinkKeeps ==
  ASSUME IndexInv, NEW m \in Mints, LinkNext(m)
  PROVE  IndexInv'
<1> USE DEF IndexInv
<1>0. /\ db \in Db /\ Payer[m] \in Devs /\ Handle[m] \in Handles \cup {NoHandle}
      /\ link \in [Mints -> [at: {"none", "fetch", "write", "bound"}, mints: Seq(Mints)]]
  BY DevIndexAssumption DEF GoodDb, WritersInv
<1>1. CASE NothingToLink(m)
  <2>1. UNCHANGED <<db, disk, monitor, backfill, skipped, crashes>> /\ link' = [link EXCEPT ![m] = NoLink]
    BY <1>1 DEF NothingToLink
  <2>2. NoLink \in [at: {"none"}, mints: Seq(Mints)]
    BY DEF NoLink
  <2>3. WritersInv'
    BY <1>0, <2>1, <2>2 DEF WritersInv
  <2> QED BY <2>1, <2>3 DEF BackfillIsWholeSoFar
<1>2. CASE ReadMints(m)
  <2> DEFINE new == WithMint(db.mintsOf[Handle[m]], m)
  <2>1. UNCHANGED <<db, disk, monitor, backfill, skipped, crashes>> /\ Handle[m] \in Handles
    BY <1>0, <1>2 DEF ReadMints
  <2>2. PICK at \in {"write", "bound"} : link' = [link EXCEPT ![m] = [at |-> at, mints |-> new]]
    BY <1>2 DEF ReadMints
  <2>3. OwnList(new, Handle[m])
    BY <2>1, WithMintIsList DEF GoodDb
  <2>4. new \in Seq(Mints)
    BY <2>3 DEF OwnList
  <2> HIDE DEF new
  <2>5. WritersInv'
    BY <1>0, <2>1, <2>2, <2>3, <2>4 DEF WritersInv
  <2> QED BY <2>1, <2>5 DEF BackfillIsWholeSoFar
<1>3. CASE WriteMints(m)
  <2> DEFINE f == [db.mintsOf EXCEPT ![Handle[m]] = link[m].mints]
  <2>1. UNCHANGED <<disk, monitor, backfill, skipped, crashes>>
        /\ Handle[m] \in Handles /\ OwnList(link[m].mints, Handle[m])
        /\ link' = [link EXCEPT ![m].at = "bound"]
    BY <1>3 DEF WriteMints, WritersInv
  <2>2. db' = [db EXCEPT !.mintsOf = f] /\ db.mintsOf \in [Handles -> Seq(Mints)]
    BY <1>0, <1>3 DEF WriteMints, Db
  <2>3. f \in [Handles -> Seq(Mints)]
    BY <1>0, <2>2
  <2>4. \A h \in Handles : OwnList(f[h], h)
    BY <2>1, <2>2 DEF GoodDb
  <2> HIDE DEF f
  <2>5. /\ db' \in Db /\ db'.creator = db.creator /\ db'.created = db.created /\ db'.done = db.done
        /\ db'.mintsOf = f /\ db'.bound = db.bound
    BY <1>0, <2>2, <2>3 DEF Db
  <2>6. GoodDb(db', skipped)
    BY <2>4, <2>5 DEF GoodDb
  <2>7. WritersInv'
    BY <1>0, <2>1 DEF WritersInv
  <2> QED BY <2>1, <2>5, <2>6, <2>7 DEF BackfillIsWholeSoFar
<1>4. CASE WriteBound(m)
  <2> DEFINE f == [db.bound EXCEPT ![Payer[m]] = Len(link[m].mints)]
  <2>1. UNCHANGED <<disk, monitor, backfill, skipped, crashes>>
        /\ Handle[m] \in Handles /\ OwnList(link[m].mints, Handle[m])
        /\ link' = [link EXCEPT ![m] = NoLink]
    BY <1>4 DEF WriteBound, WritersInv
  <2>2. db' = [db EXCEPT !.bound = f] /\ db.bound \in [Devs -> Nat]
    BY <1>0, <1>4 DEF WriteBound, Db
  <2>3. f \in [Devs -> Nat]
    BY <1>0, <2>2
  <2>4. Len(link[m].mints) <= Cardinality(Sharing(Handle[m]))
    BY <2>1, ListLength
  <2>5. \A d \in Devs : f[d] > 0 => \E h \in Handles : f[d] <= Cardinality(Sharing(h))
    BY <2>1, <2>2, <2>4 DEF GoodDb
  <2> HIDE DEF f
  <2>6. /\ db' \in Db /\ db'.creator = db.creator /\ db'.created = db.created /\ db'.done = db.done
        /\ db'.mintsOf = db.mintsOf /\ db'.bound = f
    BY <1>0, <2>2, <2>3 DEF Db
  <2>7. GoodDb(db', skipped)
    BY <2>5, <2>6 DEF GoodDb
  <2>8. NoLink \in [at: {"none"}, mints: Seq(Mints)]
    BY DEF NoLink
  <2>9. WritersInv'
    BY <1>0, <2>1, <2>8 DEF WritersInv
  <2> QED BY <2>1, <2>6, <2>7, <2>9 DEF BackfillIsWholeSoFar
<1> QED BY <1>1, <1>2, <1>3, <1>4 DEF LinkNext

\* Every step of the index keeps the invariant.
LEMMA IndexKeeps ==
  ASSUME IndexInv, IndexNext
  PROVE  IndexInv'
<1>1. CASE Flush
  <2>1. UNCHANGED <<db, monitor, backfill, link, skipped, crashes>> /\ disk' = db
    BY <1>1 DEF Flush
  <2>2. WritersInv'
    BY <2>1 DEF WritersInv, IndexInv
  <2> QED BY <2>1, <2>2 DEF IndexInv, BackfillIsWholeSoFar
<1>2. CASE Crash
  <2>1. /\ crashes < MaxCrashes /\ crashes' = crashes + 1 /\ db' = disk /\ monitor' = Waiting
        /\ backfill' = StartBackfill(disk) /\ link' = [m \in Mints |-> NoLink]
        /\ UNCHANGED <<disk, skipped>>
    BY <1>2 DEF Crash
  <2>2. (CHOOSE m \in Mints : TRUE) \in Mints
    BY DevIndexAssumption
  <2>3. Waiting \in [at: {"wait"}, mint: Mints, dev: {NoDev}]
    BY <2>2 DEF Waiting
  <2>4. NoLink \in [at: {"none"}, mints: Seq(Mints)]
    BY DEF NoLink
  <2>5. /\ backfill' \in [at: {"scan", "off"}, left: SUBSET History]
        /\ backfill'.at = "scan" => backfill'.left = History
    BY <2>1 DEF StartBackfill
  <2>6. crashes' \in 0..MaxCrashes /\ skipped' \subseteq History
    BY <2>1, DevIndexAssumption DEF IndexInv, WritersInv
  <2>7. WritersInv'
    BY <2>1, <2>3, <2>4, <2>5, <2>6 DEF WritersInv
  <2> QED BY <2>1, <2>5, <2>7 DEF IndexInv, BackfillIsWholeSoFar
<1> QED BY <1>1, <1>2, MonitorKeeps, BackfillKeeps, LinkKeeps DEF IndexNext

(***************************************************************************)
(* The migrations counted.  They are the elements of a set, one per count, *)
(* which grows by one element with each count.                             *)
(***************************************************************************)

\* The migration that is counted and not marked yet.
UnderWay == IF monitor.at = "mark" THEN 1 ELSE 0

\* A database whose counts cover its marks, and exceed them by n at most.
Covers(b, n) ==
  /\ IsFiniteSet(Counted(b)) /\ IsFiniteSet(b.marked)
  /\ Migrations(b) >= Cardinality(b.marked)
  /\ Migrations(b) <= Cardinality(b.marked) + n

\* What MigrationsCounted needs: a migration under way is of a mint that is not
\* marked and, between its two operations, counted already; what a crash would
\* bring back may be the moment between them.
CountInv ==
  /\ monitor.at \in {"bump", "mark"} => monitor.mint \notin db.marked
  /\ Covers(db, crashes + UnderWay) /\ Migrations(db) >= Cardinality(db.marked) + UnderWay
  /\ Covers(disk, crashes + 1)

\* Databases with the same counts have the same migrations.
LEMMA SameCounts ==
  ASSUME NEW b, NEW c, b.open = c.open
  PROVE  Counted(b) = Counted(c) /\ Migrations(b) = Migrations(c)
  BY DEF Counted, Migrations

\* A creator's count raised by one is one migration more.
LEMMA OneMore ==
  ASSUME NEW b, NEW c, NEW d \in Devs, b.open \in [Devs -> Nat], IsFiniteSet(Counted(b)),
         c.open = [b.open EXCEPT ![d] = @ + 1]
  PROVE  IsFiniteSet(Counted(c)) /\ Migrations(c) = Migrations(b) + 1
<1> DEFINE x == <<d, b.open[d] + 1>>
<1>1. b.open[d] \in Nat /\ c.open[d] = b.open[d] + 1
      /\ \A e \in Devs \ {d} : c.open[e] = b.open[e]
  OBVIOUS
<1>2. 1..(b.open[d] + 1) = (1..b.open[d]) \cup {b.open[d] + 1}
  BY <1>1
<1>3. {d} \X (1..c.open[d]) = ({d} \X (1..b.open[d])) \cup {x}
  BY <1>1, <1>2
<1>4. \A y : y \in Counted(c) <=> \E e \in Devs : y \in {e} \X (1..c.open[e])
  BY DEF Counted
<1>5. \A y : y \in Counted(b) <=> \E e \in Devs : y \in {e} \X (1..b.open[e])
  BY DEF Counted
<1>6. Counted(c) = Counted(b) \cup {x}
  <2>1. ASSUME NEW y, y \in Counted(c) PROVE y \in Counted(b) \cup {x}
    <3>1. PICK e \in Devs : y \in {e} \X (1..c.open[e])
      BY <1>4, <2>1
    <3>2. CASE e = d
      BY <1>3, <1>5, <3>1, <3>2
    <3>3. CASE e # d
      BY <1>1, <1>5, <3>1, <3>3
    <3> QED BY <3>2, <3>3
  <2>2. ASSUME NEW y, y \in Counted(b) \cup {x} PROVE y \in Counted(c)
    <3>1. CASE y = x
      BY <1>3, <1>4, <3>1
    <3>2. CASE y \in Counted(b)
      <4>1. PICK e \in Devs : y \in {e} \X (1..b.open[e])
        BY <1>5, <3>2
      <4>2. CASE e = d
        BY <1>3, <1>4, <4>1, <4>2
      <4>3. CASE e # d
        BY <1>1, <1>4, <4>1, <4>3
      <4> QED BY <4>2, <4>3
    <3> QED BY <2>2, <3>1, <3>2
  <2> QED BY <2>1, <2>2
<1>7. x \notin Counted(b)
  BY <1>1, <1>5
<1> HIDE DEF x
<1>8. IsFiniteSet(Counted(c)) /\ Cardinality(Counted(c)) = Cardinality(Counted(b)) + 1
  BY <1>6, <1>7, FS_AddElement
<1> QED BY <1>8 DEF Migrations

\* Counts and marks are numbers.
LEMMA CoverNumbers ==
  ASSUME NEW b, NEW n, Covers(b, n)
  PROVE  Migrations(b) \in Nat /\ Cardinality(b.marked) \in Nat
  BY FS_CardinalityType DEF Covers, Migrations

\* What changes neither counts nor marks, and is no crash, keeps CountInv.
LEMMA CountStands ==
  ASSUME CountInv, IndexInv,
         db'.open = db.open, db'.marked = db.marked, crashes' = crashes,
         disk' = disk \/ disk' = db,
         monitor' = monitor \/ {monitor.at, monitor'.at} \subseteq {"wait", "look"}
  PROVE  CountInv'
<1>1. /\ UnderWay' = UnderWay /\ UnderWay \in 0..1 /\ crashes \in Nat
      /\ monitor'.at \in {"bump", "mark"} => monitor.at \in {"bump", "mark"} /\ monitor'.mint = monitor.mint
  BY DEF UnderWay, IndexInv, WritersInv
<1>2. Counted(db') = Counted(db) /\ Migrations(db') = Migrations(db)
  BY SameCounts
<1>3. Covers(db, crashes + 1)
  BY <1>1, CoverNumbers DEF CountInv, Covers
<1> QED BY <1>1, <1>2, <1>3 DEF CountInv, Covers, Counted, Migrations

\* Recording a creation touches neither.
LEMMA RecordCountsNot ==
  ASSUME NEW b \in Db, NEW d \in Devs, NEW m \in Mints
  PROVE  RecordCreation(b, d, m).open = b.open /\ RecordCreation(b, d, m).marked = b.marked
  BY DEF Db, RecordCreation

\* CountInv holds at the start.
LEMMA CountStarts == IndexInit => CountInv
<1> SUFFICES ASSUME IndexInit PROVE CountInv
  OBVIOUS
<1>1. /\ db = EmptyDb /\ disk = EmptyDb /\ crashes = 0 /\ monitor.at = "wait"
  BY DEF IndexInit, Waiting
<1>2. Counted(EmptyDb) = {} /\ EmptyDb.marked = {}
  BY DEF Counted, EmptyDb
<1>3. IsFiniteSet({}) /\ Cardinality({}) = 0
  BY FS_EmptySet
<1> QED BY <1>1, <1>2, <1>3 DEF CountInv, Covers, Migrations, UnderWay

\* Every step of the index keeps it.
LEMMA CountKeeps ==
  ASSUME IndexInv, CountInv, IndexNext
  PROVE  CountInv'
<1>0. /\ db \in Db /\ disk \in Db /\ crashes \in Nat /\ monitor.mint \in Mints
      /\ Watched \subseteq Mints
  BY DevIndexAssumption DEF IndexInv, GoodDb, WritersInv
<1>1. CASE \E m \in Watched, complete \in BOOLEAN : CurveUpdate(m, complete)
  <2>1. PICK m \in Watched, complete \in BOOLEAN : CurveUpdate(m, complete)
    BY <1>1
  <2>2. Creator[m] # NoDev => Creator[m] \in Devs /\ m \in Mints
    BY <1>0, DevIndexAssumption
  <2>3. db'.open = db.open /\ db'.marked = db.marked
    BY <1>0, <2>1, <2>2, RecordCountsNot DEF CurveUpdate
  <2>4. UNCHANGED <<disk, crashes>> /\ {monitor.at, monitor'.at} \subseteq {"wait", "look"}
    BY <2>1 DEF CurveUpdate
  <2> QED BY <2>3, <2>4, CountStands
<1>2. CASE LookUp
  <2>1. UNCHANGED <<db, disk, crashes>> /\ monitor.at = "look"
    BY <1>2 DEF LookUp
  <2>2. CASE monitor' = Waiting
    BY <2>1, <2>2, CountStands DEF Waiting
  <2>3. CASE monitor' # Waiting
    <3>1. monitor'.at = "bump" /\ monitor'.mint = monitor.mint /\ monitor.mint \notin db.marked
      BY <1>2, <2>3 DEF LookUp, IndexInv, WritersInv
    <3>2. UnderWay' = UnderWay
      BY <2>1, <3>1 DEF UnderWay
    <3> QED BY <2>1, <3>1, <3>2 DEF CountInv, Covers, Counted, Migrations
  <2> QED BY <2>2, <2>3
<1>3. CASE Bump
  <2>1. /\ UNCHANGED <<disk, crashes>> /\ monitor'.at = "mark" /\ monitor'.mint = monitor.mint
        /\ monitor.dev \in Devs /\ monitor.at = "bump"
    BY <1>3 DEF Bump, IndexInv, WritersInv
  <2>2. db'.open = [db.open EXCEPT ![monitor.dev] = @ + 1] /\ db'.marked = db.marked
    BY <1>0, <1>3 DEF Bump, Db
  <2>3. IsFiniteSet(Counted(db)) /\ db.open \in [Devs -> Nat]
    BY <1>0 DEF CountInv, Covers, Db
  <2>4. IsFiniteSet(Counted(db')) /\ Migrations(db') = Migrations(db) + 1
    BY <2>1, <2>2, <2>3, OneMore
  <2>5. UnderWay = 0 /\ UnderWay' = 1
    BY <2>1 DEF UnderWay
  <2>6. Migrations(db) \in Nat /\ Cardinality(db.marked) \in Nat
    BY CoverNumbers DEF CountInv
  <2>7. Covers(db', crashes' + UnderWay') /\ Migrations(db') >= Cardinality(db'.marked) + UnderWay'
    BY <1>0, <2>1, <2>2, <2>4, <2>5, <2>6 DEF CountInv, Covers
  <2>8. Covers(disk', crashes' + 1)
    BY <2>1 DEF CountInv
  <2>9. monitor'.mint \notin db'.marked
    BY <2>1, <2>2 DEF CountInv
  <2> QED BY <2>7, <2>8, <2>9 DEF CountInv
<1>4. CASE Mark
  <2>1. /\ UNCHANGED <<disk, crashes>> /\ monitor'.at = "wait" /\ monitor.at = "mark"
        /\ db'.open = db.open /\ db'.marked = db.marked \cup {monitor.mint}
    BY <1>0, <1>4 DEF Mark, Waiting, Db
  <2>2. Counted(db') = Counted(db) /\ Migrations(db') = Migrations(db)
    BY <2>1, SameCounts
  <2>3. monitor.mint \notin db.marked /\ IsFiniteSet(db.marked)
    BY <2>1 DEF CountInv, Covers
  <2>4. IsFiniteSet(db'.marked) /\ Cardinality(db'.marked) = Cardinality(db.marked) + 1
    BY <2>1, <2>3, FS_AddElement
  <2>5. UnderWay = 1 /\ UnderWay' = 0
    BY <2>1 DEF UnderWay
  <2>6. Migrations(db) \in Nat /\ Cardinality(db.marked) \in Nat
    BY CoverNumbers DEF CountInv
  <2>7. Covers(db', crashes' + UnderWay') /\ Migrations(db') >= Cardinality(db'.marked) + UnderWay'
    BY <1>0, <2>1, <2>2, <2>4, <2>5, <2>6 DEF CountInv, Covers
  <2>8. Covers(disk', crashes' + 1)
    BY <2>1 DEF CountInv
  <2> QED BY <2>1, <2>7, <2>8 DEF CountInv
<1>5. CASE BackfillNext
  <2>1. /\ UNCHANGED <<monitor, crashes>> /\ db'.open = db.open /\ db'.marked = db.marked
        /\ disk' = disk \/ disk' = db
    <3>1. CASE \E m \in Mints : FindCreation(m)
      BY <1>0, <3>1, RecordCountsNot, DevIndexAssumption DEF FindCreation
    <3>2. CASE MarkDone
      BY <1>0, <3>2 DEF MarkDone, Db
    <3> QED BY <1>5, <3>1, <3>2 DEF BackfillNext, SkipCreation, PageFails, FlushDone
  <2> QED BY <2>1, CountStands
<1>6. CASE \E m \in Mints : LinkNext(m)
  <2>1. PICK m \in Mints : LinkNext(m)
    BY <1>6
  <2>2. UNCHANGED <<disk, monitor, crashes>> /\ db'.open = db.open /\ db'.marked = db.marked
    BY <1>0, <2>1 DEF LinkNext, NothingToLink, ReadMints, WriteMints, WriteBound, Db
  <2> QED BY <2>2, CountStands
<1>7. CASE Flush
  BY <1>7, CountStands DEF Flush
<1>8. CASE Crash
  <2>1. db' = disk /\ disk' = disk /\ crashes' = crashes + 1 /\ monitor'.at = "wait"
    BY <1>8 DEF Crash, Waiting
  <2>2. Covers(disk, crashes + 1) /\ Migrations(disk) \in Nat /\ Cardinality(disk.marked) \in Nat
    BY CoverNumbers DEF CountInv
  <2>3. UnderWay' = 0
    BY <2>1 DEF UnderWay
  <2> QED BY <1>0, <2>1, <2>2, <2>3 DEF CountInv, Covers
<1> QED BY <1>1, <1>2, <1>3, <1>4, <1>5, <1>6, <1>7, <1>8 DEF IndexNext, MonitorNext

(***************************************************************************)
(* The service                                                             *)
(***************************************************************************)

ServiceTypes ==
  /\ mintCache \in [Mints -> Gmgn!Cached] /\ devCache \in [Devs -> BOOLEAN]
  /\ inFlight \subseteq Mints /\ fetch \in [Tasks -> Gmgn!Fetch] /\ permit \in Tasks \cup {NoTask}

\* A task at work is for a mint in flight, and no other is for the same one.
FetchesAreInFlight ==
  \A t \in Tasks :
    IF fetch[t].at = "none" THEN fetch[t].mint = NoMint
    ELSE /\ fetch[t].mint \in inFlight
         /\ \A u \in Tasks : fetch[u].mint = fetch[t].mint => u = t

ServiceInv == ServiceTypes /\ FetchesAreInFlight /\ OneFetchPerMint

\* Nobody works at the start.
LEMMA ServiceStarts == Gmgn!ProfileInit => ServiceInv
<1> SUFFICES ASSUME Gmgn!ProfileInit PROVE ServiceInv
  OBVIOUS
<1> USE DEF Gmgn!ProfileInit
<1>1. Gmgn!NoEntry \in Gmgn!Cached
  BY DEF Gmgn!NoEntry, Gmgn!Cached, Gmgn!Stats, Gmgn!Social
<1>2. /\ Gmgn!NoFetch \in Gmgn!Fetch
      /\ Gmgn!NoFetch.at = "none" /\ Gmgn!NoFetch.mint = NoMint
  BY DEF Gmgn!NoFetch, Gmgn!Fetch, Gmgn!Stats, Gmgn!Social
<1>3. ServiceTypes
  BY <1>1, <1>2 DEF ServiceTypes
<1> QED BY <1>2, <1>3 DEF ServiceInv, FetchesAreInFlight, OneFetchPerMint

\* A step that leaves a task's mint and the mints in flight alone, and does not
\* start or end it, keeps the tasks apart.
LEMMA TaskGoesOn ==
  ASSUME ServiceInv, NEW t \in Tasks, NEW f \in Gmgn!Fetch,
         fetch[t].at # "none", f.at # "none", f.mint = fetch[t].mint,
         fetch' = [fetch EXCEPT ![t] = f], inFlight' = inFlight
  PROVE  FetchesAreInFlight' /\ OneFetchPerMint' /\ fetch' \in [Tasks -> Gmgn!Fetch]
<1>1. \A u \in Tasks : fetch'[u].mint = fetch[u].mint /\ (fetch'[u].at = "none" <=> fetch[u].at = "none")
  BY DEF ServiceInv, ServiceTypes
<1>2. FetchesAreInFlight'
  BY <1>1 DEF ServiceInv, FetchesAreInFlight
<1>3. OneFetchPerMint'
  BY <1>1 DEF ServiceInv, OneFetchPerMint
<1> QED BY <1>2, <1>3 DEF ServiceInv, ServiceTypes

\* A lookup may start a task, for a mint nobody works for.
LEMMA SpawnKeeps ==
  ASSUME ServiceInv, NEW m \in Mints, Gmgn!SpawnFetch(m)
  PROVE  ServiceInv' /\ mintCache' = mintCache
<1>1. CASE m \in inFlight
  BY <1>1 DEF Gmgn!SpawnFetch, Gmgn!pvars, ServiceInv, ServiceTypes, FetchesAreInFlight, OneFetchPerMint
<1>2. CASE m \notin inFlight
  <2> DEFINE f == [Gmgn!NoFetch EXCEPT !.at = "ask1", !.mint = m]
  <2>1. PICK t \in Tasks : fetch[t].at = "none" /\ fetch' = [fetch EXCEPT ![t] = f]
    BY <1>2 DEF Gmgn!SpawnFetch
  <2>2. inFlight' = inFlight \cup {m} /\ UNCHANGED <<mintCache, devCache, permit>>
    BY <1>2 DEF Gmgn!SpawnFetch
  <2>3. f \in Gmgn!Fetch /\ f.at = "ask1" /\ f.mint = m
    BY DEF Gmgn!NoFetch, Gmgn!Fetch, Gmgn!Stats, Gmgn!Social
  <2> HIDE DEF f
  <2>4. ServiceTypes'
    BY <2>1, <2>2, <2>3 DEF ServiceInv, ServiceTypes
  <2>5. \A u \in Tasks : fetch'[u] = IF u = t THEN f ELSE fetch[u]
    BY <2>1 DEF ServiceInv, ServiceTypes
  <2>6. \A u \in Tasks : fetch[u].mint # m
    BY <1>2, EntryFiltersAssumption DEF ServiceInv, FetchesAreInFlight
  <2>7. FetchesAreInFlight'
    BY <2>1, <2>2, <2>3, <2>5, <2>6, EntryFiltersAssumption DEF ServiceInv, FetchesAreInFlight
  <2>8. OneFetchPerMint'
    BY <2>1, <2>2, <2>3, <2>5, <2>6 DEF ServiceInv, OneFetchPerMint
  <2> QED BY <2>2, <2>4, <2>7, <2>8 DEF ServiceInv
<1> QED BY <1>1, <1>2

\* The tasks of the service keep the invariant.
LEMMA FetchKeeps ==
  ASSUME ServiceInv, NEW t \in Tasks, Gmgn!FetchStep(t)
  PROVE  ServiceInv'
<1> USE DEF ServiceInv
<1>0. "none" \in Gmgn!Stats /\ "known" \in Gmgn!Stats /\ "none" \in Gmgn!Social
  BY DEF Gmgn!Stats, Gmgn!Social
<1>f. fetch[t] \in Gmgn!Fetch
  BY DEF ServiceTypes
<1>m. fetch[t].at # "none" => fetch[t].mint \in Mints
  BY DEF ServiceTypes, FetchesAreInFlight
<1>1. CASE Gmgn!Acquire(t)
  <2> DEFINE f == [fetch[t] EXCEPT !.at = IF fetch[t].at = "ask1" THEN "info" ELSE "created"]
  <2>1. /\ fetch[t].at # "none" /\ permit' = t /\ fetch' = [fetch EXCEPT ![t] = f]
        /\ UNCHANGED <<mintCache, devCache, inFlight>>
    BY <1>1 DEF Gmgn!Acquire, ServiceTypes
  <2>2. f \in Gmgn!Fetch /\ f.at # "none" /\ f.mint = fetch[t].mint
    BY <1>f DEF Gmgn!Fetch
  <2> HIDE DEF f
  <2> QED BY <2>1, <2>2, TaskGoesOn DEF ServiceTypes
<1>2. CASE Gmgn!InfoAnswer(t)
  <2>1. PICK at \in {"store", "dev"}, social \in Gmgn!Social : Gmgn!Answered(t, at, "none", social)
    BY <1>0, <1>2 DEF Gmgn!InfoAnswer
  <2> DEFINE f == [fetch[t] EXCEPT !.at = at, !.stats = "none", !.social = social]
  <2>2. /\ fetch[t].at # "none" /\ permit' = NoTask /\ fetch' = [fetch EXCEPT ![t] = f]
        /\ UNCHANGED <<mintCache, devCache, inFlight>>
    BY <1>2, <2>1 DEF Gmgn!InfoAnswer, Gmgn!Answered, ServiceTypes
  <2>3. f \in Gmgn!Fetch /\ f.at # "none" /\ f.mint = fetch[t].mint
    BY <1>0, <1>f DEF Gmgn!Fetch
  <2> HIDE DEF f
  <2> QED BY <2>2, <2>3, TaskGoesOn DEF ServiceTypes
<1>3. CASE Gmgn!CheckDevCache(t)
  <2> DEFINE f == IF devCache[Payer[fetch[t].mint]] THEN [fetch[t] EXCEPT !.at = "store", !.stats = "known"]
                  ELSE [fetch[t] EXCEPT !.at = "ask2"]
  <2>1. /\ fetch[t].at # "none" /\ fetch' = [fetch EXCEPT ![t] = f]
        /\ UNCHANGED <<mintCache, devCache, inFlight, permit>>
    BY <1>3 DEF Gmgn!CheckDevCache, ServiceTypes
  <2>2. f \in Gmgn!Fetch /\ f.at # "none" /\ f.mint = fetch[t].mint
    BY <1>0, <1>f DEF Gmgn!Fetch
  <2> HIDE DEF f
  <2> QED BY <2>1, <2>2, TaskGoesOn DEF ServiceTypes
<1>4. CASE Gmgn!CreatedAnswer(t)
  <2> DEFINE f == [fetch[t] EXCEPT !.at = "store", !.stats = "known", !.social = fetch[t].social]
  <2>1. /\ fetch[t].at # "none" /\ permit' = NoTask /\ fetch' = [fetch EXCEPT ![t] = f]
        /\ UNCHANGED <<mintCache, inFlight>> /\ devCache' = [devCache EXCEPT ![Payer[fetch[t].mint]] = TRUE]
    BY <1>4 DEF Gmgn!CreatedAnswer, Gmgn!Answered, ServiceTypes
  <2>2. f \in Gmgn!Fetch /\ f.at # "none" /\ f.mint = fetch[t].mint
    BY <1>0, <1>f DEF Gmgn!Fetch
  <2>3. devCache' \in [Devs -> BOOLEAN]
    BY <2>1 DEF ServiceTypes
  <2> HIDE DEF f
  <2> QED BY <2>1, <2>2, <2>3, TaskGoesOn DEF ServiceTypes
<1>5. CASE Gmgn!Store(t)
  <2> DEFINE f == [fetch[t] EXCEPT !.at = "clear"]
             e == [stats |-> fetch[t].stats, social |-> fetch[t].social, current |-> TRUE]
  <2>1. /\ fetch[t].at # "none" /\ fetch' = [fetch EXCEPT ![t] = f]
        /\ UNCHANGED <<devCache, inFlight, permit>> /\ mintCache' = [mintCache EXCEPT ![fetch[t].mint] = e]
    BY <1>5 DEF Gmgn!Store, ServiceTypes
  <2>2. f \in Gmgn!Fetch /\ f.at # "none" /\ f.mint = fetch[t].mint
    BY <1>f DEF Gmgn!Fetch
  <2>3. e \in Gmgn!Cached
    BY <1>f DEF Gmgn!Fetch, Gmgn!Cached
  <2> HIDE DEF f, e
  <2>4. mintCache' \in [Mints -> Gmgn!Cached]
    BY <2>1, <2>3 DEF ServiceTypes
  <2> QED BY <2>1, <2>2, <2>4, TaskGoesOn DEF ServiceTypes
<1>6. CASE Gmgn!Clear(t)
  <2>1. /\ fetch[t].at # "none" /\ fetch' = [fetch EXCEPT ![t] = Gmgn!NoFetch]
        /\ inFlight' = inFlight \ {fetch[t].mint} /\ UNCHANGED <<mintCache, devCache, permit>>
    BY <1>6 DEF Gmgn!Clear
  <2>2. /\ Gmgn!NoFetch \in Gmgn!Fetch
        /\ Gmgn!NoFetch.at = "none" /\ Gmgn!NoFetch.mint = NoMint
    BY DEF Gmgn!NoFetch, Gmgn!Fetch, Gmgn!Stats, Gmgn!Social
  <2>3. ServiceTypes'
    BY <2>1, <2>2 DEF ServiceTypes
  <2>4. \A u \in Tasks : fetch'[u] = IF u = t THEN Gmgn!NoFetch ELSE fetch[u]
    BY <2>1 DEF ServiceTypes
  <2>5. FetchesAreInFlight'
    BY <1>m, <2>1, <2>2, <2>4, EntryFiltersAssumption DEF FetchesAreInFlight, ServiceTypes
  <2>6. \A u, v \in Tasks : fetch'[u].at # "none" /\ fetch'[u].mint = fetch'[v].mint => u = v
    BY <2>5 DEF FetchesAreInFlight
  <2>7. ASSUME NEW m \in inFlight'
        PROVE  \E u \in Tasks : fetch'[u].at # "none" /\ fetch'[u].mint = m
    <3>1. m \in inFlight /\ m # fetch[t].mint
      BY <2>1
    <3>2. PICK u \in Tasks : fetch[u].at # "none" /\ fetch[u].mint = m
      BY <3>1 DEF OneFetchPerMint
    <3>3. fetch'[u] = fetch[u]
      BY <2>4, <3>1, <3>2
    <3> QED BY <3>2, <3>3
  <2>8. OneFetchPerMint'
    BY <2>6, <2>7 DEF OneFetchPerMint
  <2> QED BY <2>3, <2>5, <2>8
<1> QED BY <1>1, <1>2, <1>3, <1>4, <1>5, <1>6 DEF Gmgn!FetchStep

\* So do expiring answers.
LEMMA ServiceKeeps ==
  ASSUME ServiceInv, Gmgn!ProfileNext
  PROVE  ServiceInv'
<1> USE DEF ServiceInv
<1>1. ASSUME NEW m \in Mints, Gmgn!Expire(m)
      PROVE  ServiceInv'
  <2>1. UNCHANGED <<devCache, inFlight, fetch, permit>>
        /\ mintCache' = [mintCache EXCEPT ![m].current = FALSE]
    BY <1>1 DEF Gmgn!Expire
  <2>2. mintCache' \in [Mints -> Gmgn!Cached]
    BY <2>1 DEF ServiceTypes, Gmgn!Cached
  <2> QED BY <2>1, <2>2 DEF ServiceTypes, FetchesAreInFlight, OneFetchPerMint
<1>2. ASSUME NEW d \in Devs, Gmgn!ExpireDev(d)
      PROVE  ServiceInv'
  <2>1. UNCHANGED <<mintCache, inFlight, fetch, permit>> /\ devCache' = [devCache EXCEPT ![d] = FALSE]
    BY <1>2 DEF Gmgn!ExpireDev
  <2> QED BY <2>1 DEF ServiceTypes, FetchesAreInFlight, OneFetchPerMint
<1> QED BY <1>1, <1>2, FetchKeeps DEF Gmgn!ProfileNext

(***************************************************************************)
(* The filters                                                             *)
(***************************************************************************)

Place == [at: {"idle", "social", "askSocial", "metadata", "dev", "askDev"},
          mint: Traded \cup {NoMint}]

FilterTypes ==
  /\ eval \in Place
  /\ links \in [Traded -> [known: {"none", "no", "yes"}, out: 0..MaxPrefetches]]
  /\ eval.at # "idle" => eval.mint \in Traded

EntryInv == IndexInv /\ ServiceInv /\ FilterTypes

LEMMA EntryStarts == Init => EntryInv
<1> SUFFICES ASSUME Init PROVE EntryInv
  OBVIOUS
<1> USE DEF Init
<1>1. IndexInv /\ ServiceInv
  BY IndexStarts, ServiceStarts
<1>2. FilterTypes
  BY EntryFiltersAssumption DEF FilterTypes, Idle, Place
<1> QED BY <1>1, <1>2 DEF EntryInv

\* A step of the filters alone.
LEMMA EvalKeeps ==
  ASSUME EntryInv, UNCHANGED ivars, ServiceInv', FilterTypes'
  PROVE  EntryInv'
<1>1. IndexInv'
  BY DEF EntryInv, IndexInv, ivars, GoodDb, WritersInv, BackfillIsWholeSoFar
<1> QED BY <1>1 DEF EntryInv

\* The service's invariant is about its own variables.
LEMMA ServiceStands ==
  ASSUME ServiceInv, UNCHANGED pvars
  PROVE  ServiceInv'
  BY DEF ServiceInv, ServiceTypes, FetchesAreInFlight, OneFetchPerMint, pvars

\* Every step keeps the invariant.
LEMMA EntryKeeps == EntryInv /\ [Next]_vars => EntryInv'
<1> SUFFICES ASSUME EntryInv, [Next]_vars
             PROVE  EntryInv'
  OBVIOUS
<1> USE DEF EntryInv
<1>t. Traded \subseteq Mints
  BY EntryFiltersAssumption
<1>1. CASE UNCHANGED vars
  <2>1. UNCHANGED ivars /\ UNCHANGED pvars /\ UNCHANGED fvars
    BY <1>1 DEF vars
  <2>2. FilterTypes'
    BY <2>1 DEF fvars, FilterTypes
  <2> QED BY <2>1, <2>2, ServiceStands, EvalKeeps
<1>2. ASSUME NEW m \in Traded, Evaluate(m)
      PROVE  EntryInv'
  <2>1. UNCHANGED ivars /\ UNCHANGED pvars /\ UNCHANGED links
        /\ eval' \in Place /\ eval'.mint = m
    BY <1>2 DEF Evaluate, Place
  <2>2. FilterTypes'
    BY <2>1 DEF FilterTypes
  <2> QED BY <2>1, <2>2, ServiceStands, EvalKeeps
<1>3. ASSUME NEW m \in Traded, MetadataAnswer(m)
      PROVE  EntryInv'
  <2>1. PICK known \in {"yes", "no", links[m].known} :
          links' = [links EXCEPT ![m] = [known |-> known, out |-> links[m].out - 1]]
    BY <1>3 DEF MetadataAnswer
  <2>2. UNCHANGED ivars /\ UNCHANGED pvars /\ UNCHANGED eval /\ links[m].out > 0
    BY <1>3 DEF MetadataAnswer
  <2>3. /\ known \in {"none", "no", "yes"} /\ links[m].out - 1 \in 0..MaxPrefetches
        /\ links \in [Traded -> [known: {"none", "no", "yes"}, out: 0..MaxPrefetches]]
    BY <2>2, EntryFiltersAssumption DEF FilterTypes
  <2>4. links' \in [Traded -> [known: {"none", "no", "yes"}, out: 0..MaxPrefetches]]
    BY <2>1, <2>3
  <2>5. FilterTypes'
    BY <2>2, <2>4 DEF FilterTypes
  <2> QED BY <2>2, <2>5, ServiceStands, EvalKeeps
<1>4. ASSUME NEW m \in Traded, MetadataExpires(m)
      PROVE  EntryInv'
  <2>1. UNCHANGED ivars /\ UNCHANGED pvars /\ UNCHANGED eval
        /\ links' = [links EXCEPT ![m].known = "none"]
    BY <1>4 DEF MetadataExpires
  <2>2. FilterTypes'
    BY <2>1 DEF FilterTypes
  <2> QED BY <2>1, <2>2, ServiceStands, EvalKeeps
<1>5. CASE LookSocial
  <2>1. UNCHANGED ivars /\ UNCHANGED pvars /\ UNCHANGED links /\ eval.mint \in Traded
    BY <1>5 DEF LookSocial, FilterTypes
  <2>2. \/ eval' = Idle
        \/ \E step \in {"askSocial", "metadata", "dev"} : eval' = [eval EXCEPT !.at = step]
    BY <1>5 DEF LookSocial, TurnAway, EvalGoto
  <2>3. FilterTypes'
    BY <2>1, <2>2 DEF Idle, FilterTypes, Place
  <2> QED BY <2>1, <2>3, ServiceStands, EvalKeeps
<1>6. CASE LookMetadata
  <2> DEFINE m == eval.mint
  <2>1. UNCHANGED ivars /\ UNCHANGED pvars /\ m \in Traded
    BY <1>6 DEF LookMetadata, FilterTypes
  <2>2. links' = links \/ links' = [links EXCEPT ![m].out = IF links[m].out < MaxPrefetches
                                                         THEN links[m].out + 1 ELSE links[m].out]
    BY <1>6 DEF LookMetadata
  <2>3. eval' = Idle \/ eval' = [eval EXCEPT !.at = "dev"]
    BY <1>6 DEF LookMetadata, TurnAway, EvalGoto
  <2>4. /\ eval' \in Place
        /\ eval'.at # "idle" => eval'.mint \in Traded
    BY <2>1, <2>3 DEF Idle, FilterTypes, Place
  <2> HIDE DEF m
  <2>5. links \in [Traded -> [known: {"none", "no", "yes"}, out: 0..MaxPrefetches]]
    BY DEF FilterTypes
  <2>6. links' \in [Traded -> [known: {"none", "no", "yes"}, out: 0..MaxPrefetches]]
    BY <2>1, <2>2, <2>5, EntryFiltersAssumption
  <2>7. FilterTypes'
    BY <2>4, <2>6 DEF FilterTypes
  <2> QED BY <2>1, <2>7, ServiceStands, EvalKeeps
<1>7. CASE LookDev
  <2>1. UNCHANGED ivars /\ UNCHANGED pvars /\ UNCHANGED links /\ eval.mint \in Traded
    BY <1>7 DEF LookDev, FilterTypes
  <2>2. eval' = Idle \/ eval' = [eval EXCEPT !.at = "askDev"]
    BY <1>7 DEF LookDev, TurnAway, EvalGoto
  <2>3. FilterTypes'
    BY <2>1, <2>2 DEF Idle, FilterTypes, Place
  <2> QED BY <2>1, <2>3, ServiceStands, EvalKeeps
<1>8. CASE AskSocial \/ AskDev
  <2>1. UNCHANGED ivars /\ UNCHANGED links /\ Gmgn!SpawnFetch(eval.mint) /\ eval.mint \in Traded
    BY <1>8 DEF AskSocial, AskDev, FilterTypes
  <2>2. eval' = Idle \/ eval' = [eval EXCEPT !.at = "metadata"]
    BY <1>8 DEF AskSocial, AskDev, EvalGoto
  <2>3. FilterTypes'
    BY <2>1, <2>2 DEF Idle, FilterTypes, Place
  <2> QED BY <1>t, <2>1, <2>3, SpawnKeeps, EvalKeeps
<1>9. CASE ServiceStep
  <2>1. UNCHANGED ivars /\ UNCHANGED <<links, eval>> /\ Gmgn!ProfileNext
    BY <1>9 DEF ServiceStep
  <2>2. FilterTypes'
    BY <2>1 DEF FilterTypes
  <2> QED BY <2>1, <2>2, ServiceKeeps, EvalKeeps
<1>10. CASE IndexStep
  <2>1. IndexNext /\ UNCHANGED pvars /\ UNCHANGED fvars
    BY <1>10 DEF IndexStep
  <2>2. IndexInv'
    BY <2>1, IndexKeeps
  <2>3. FilterTypes'
    BY <2>1 DEF fvars, FilterTypes
  <2> QED BY <2>1, <2>2, <2>3, ServiceStands
<1> QED BY <1>1, <1>2, <1>3, <1>4, <1>5, <1>6, <1>7, <1>8, <1>9, <1>10 DEF Next, EvalStep

\* The invariant holds in every state.
THEOREM EntryInvariant == Spec => []EntryInv
  BY EntryStarts, EntryKeeps, PTL DEF Spec

(***************************************************************************)
(* What it implies                                                         *)
(***************************************************************************)

\* Types of the index, the service and the metadata cache.
THEOREM FilterTypesCorrect == Spec => []TypeOK
<1>1. EntryInv => TypeOK
  BY DEF EntryInv, IndexInv, GoodDb, WritersInv, ServiceInv, ServiceTypes, FilterTypes, TypeOK
<1> QED BY <1>1, EntryInvariant, PTL

\* The local index counts no created token, whoever records what, in any order
\* and after any crash.
THEOREM NothingCounted == Spec => []NoCreationCounted
<1>1. EntryInv => NoCreationCounted
  <2> SUFFICES ASSUME EntryInv, NEW m \in Mints PROVE IndexStats(m).created = 0
    BY DEF NoCreationCounted
  <2>1. db \in Db /\ db.created = [d \in Devs |-> 0]
    BY DEF EntryInv, IndexInv, GoodDb
  <2>2. db.creator[m] \in Devs \cup {NoDev}
    BY <2>1 DEF Db
  <2> QED BY <2>1, <2>2 DEF IndexStats
<1> QED BY <1>1, EntryInvariant, PTL

\* The counts hold each marked migration, in memory and on disk, and exceed them
\* by the one under way and one per crash, for any creators, mints and crashes.
THEOREM CountsCoverMarks == Spec => []MigrationsCounted
<1>1. Init => CountInv
  BY CountStarts DEF Init
<1>2. EntryInv /\ CountInv /\ [Next]_vars => CountInv'
  <2> SUFFICES ASSUME EntryInv, CountInv, [Next]_vars PROVE CountInv'
    OBVIOUS
  <2>1. CASE UNCHANGED ivars
    BY <2>1 DEF ivars, CountInv, Covers, UnderWay, Counted, Migrations
  <2>2. CASE IndexNext
    BY <2>2, CountKeeps DEF EntryInv
  <2>3. UNCHANGED ivars \/ IndexNext
    BY DEF Next, vars, IndexStep, ServiceStep, EvalStep, Evaluate, MetadataAnswer,
           MetadataExpires, LookSocial, AskSocial, LookMetadata, LookDev, AskDev
  <2> QED BY <2>1, <2>2, <2>3
<1>3. EntryInv /\ CountInv => MigrationsCounted
  <2> SUFFICES ASSUME EntryInv, CountInv PROVE MigrationsCounted
    OBVIOUS
  <2>1. crashes \in Nat /\ Migrations(db) \in Nat /\ Cardinality(db.marked) \in Nat
    BY CoverNumbers DEF EntryInv, IndexInv, WritersInv, CountInv
  <2> QED BY <2>1 DEF CountInv, Covers, UnderWay, MigrationsCounted
<1> QED BY <1>1, <1>2, <1>3, EntryInvariant, PTL DEF Spec

\* A backfill that counts as done, in memory or on disk, has recorded each
\* creation it got the transaction of, however often it was started.
THEOREM DoneIsWhole == Spec => []BackfillIsWhole
<1>1. EntryInv => BackfillIsWhole
  BY DEF EntryInv, IndexInv, GoodDb, BackfillIsWhole
<1> QED BY <1>1, EntryInvariant, PTL

\* The mints of a Twitter account are counted once each, by any number of
\* metadata tasks that overwrite each other's lists.
THEOREM LinkedOnce == Spec => []MintsLinkedOnce
<1>1. EntryInv => MintsLinkedOnce
  <2> SUFFICES ASSUME EntryInv PROVE MintsLinkedOnce
    OBVIOUS
  <2>1. \A h \in Handles : OwnList(db.mintsOf[h], h)
    BY DEF EntryInv, IndexInv, GoodDb
  <2>2. \A h \in Handles : Cardinality(Elements(db.mintsOf[h])) = Len(db.mintsOf[h])
    BY <2>1, ListLength
  <2> QED BY <2>2 DEF EntryInv, IndexInv, GoodDb, MintsLinkedOnce, Sharing
<1> QED BY <1>1, EntryInvariant, PTL

\* The service is asked for a mint by one task at a time, and a mint in flight
\* has its task.
THEOREM FetchedOnce == Spec => []OneFetchPerMint
<1>1. EntryInv => OneFetchPerMint
  BY DEF EntryInv, ServiceInv
<1> QED BY <1>1, EntryInvariant, PTL

(***************************************************************************)
(* A lookup's task comes to its end, and leaves an answer behind           *)
(***************************************************************************)

\* A task about to leave has put its answer in the cache.
AnswerInv ==
  /\ PermitHeld
  /\ \A t \in Tasks : fetch[t].at = "clear" => mintCache[fetch[t].mint].current

\* FetchLeft at each place, in this state and the next.
LEMMA FetchLeftIs ==
  ASSUME NEW t \in Tasks
  PROVE  /\ fetch[t].at = "ask1" => FetchLeft(t) = 7
         /\ fetch[t].at = "info" => FetchLeft(t) = 6
         /\ fetch[t].at = "dev" => FetchLeft(t) = 5
         /\ fetch[t].at = "ask2" => FetchLeft(t) = 4
         /\ fetch[t].at = "created" => FetchLeft(t) = 3
         /\ fetch[t].at = "store" => FetchLeft(t) = 2
         /\ fetch[t].at = "clear" => FetchLeft(t) = 1
         /\ fetch'[t].at = "info" => FetchLeft(t)' = 6
         /\ fetch'[t].at = "dev" => FetchLeft(t)' = 5
         /\ fetch'[t].at = "ask2" => FetchLeft(t)' = 4
         /\ fetch'[t].at = "created" => FetchLeft(t)' = 3
         /\ fetch'[t].at = "store" => FetchLeft(t)' = 2
         /\ fetch'[t].at = "clear" => FetchLeft(t)' = 1
         /\ fetch'[t].at = "none" => FetchLeft(t)' = 0
  BY DEF FetchLeft

\* From where to where each step of do_fetch_mint goes, and what it does to the
\* permit, the cache and the mints in flight.
Pass(t) ==
  \/ /\ fetch[t].at = "ask1" /\ fetch'[t].at = "info"
     /\ permit = NoTask /\ permit' = t /\ UNCHANGED <<mintCache, inFlight>>
  \/ /\ fetch[t].at = "ask2" /\ fetch'[t].at = "created"
     /\ permit = NoTask /\ permit' = t /\ UNCHANGED <<mintCache, inFlight>>
  \/ /\ fetch[t].at = "info" /\ fetch'[t].at \in {"store", "dev"}
     /\ permit' = NoTask /\ UNCHANGED <<mintCache, inFlight>>
  \/ /\ fetch[t].at = "dev" /\ fetch'[t].at \in {"store", "ask2"}
     /\ UNCHANGED <<permit, mintCache, inFlight>>
  \/ /\ fetch[t].at = "created" /\ fetch'[t].at = "store"
     /\ permit' = NoTask /\ UNCHANGED <<mintCache, inFlight>>
  \/ /\ fetch[t].at = "store" /\ fetch'[t].at = "clear" /\ fetch'[t].mint = fetch[t].mint
     /\ mintCache'[fetch[t].mint].current
     /\ \A m \in Mints : mintCache[m].current => mintCache'[m].current
     /\ UNCHANGED <<permit, inFlight>>
  \/ /\ fetch[t].at = "clear" /\ fetch'[t].at = "none"
     /\ inFlight' = inFlight \ {fetch[t].mint} /\ UNCHANGED <<permit, mintCache>>

\* A step of a task is one of these, and none of another task's.
LEMMA StepPasses ==
  ASSUME ServiceInv, NEW t \in Tasks, Gmgn!FetchStep(t)
  PROVE  Pass(t) /\ \A u \in Tasks : u # t => fetch'[u] = fetch[u]
<1>1. /\ fetch \in [Tasks -> Gmgn!Fetch] /\ fetch[t] \in Gmgn!Fetch
      /\ mintCache \in [Mints -> Gmgn!Cached]
      /\ fetch[t].at # "none" => fetch[t].mint \in Mints
  BY DEF ServiceInv, ServiceTypes, FetchesAreInFlight
<1>2. CASE Gmgn!Acquire(t)
  BY <1>1, <1>2 DEF Gmgn!Acquire, Gmgn!Fetch, Pass
<1>3. CASE Gmgn!InfoAnswer(t)
  <2>1. fetch[t].at = "info"
        /\ \E at \in {"store", "dev"}, social \in Gmgn!Social : Gmgn!Answered(t, at, "none", social)
    BY <1>3 DEF Gmgn!InfoAnswer, Gmgn!Social
  <2>2. PICK at \in {"store", "dev"}, social \in Gmgn!Social : Gmgn!Answered(t, at, "none", social)
    BY <2>1
  <2>3. /\ fetch'[t].at = at /\ \A u \in Tasks : u # t => fetch'[u] = fetch[u]
        /\ permit' = NoTask /\ UNCHANGED <<mintCache, inFlight>>
    BY <1>1, <2>2 DEF Gmgn!Answered, Gmgn!Fetch
  <2> QED BY <2>1, <2>3 DEF Pass
<1>4. CASE Gmgn!CheckDevCache(t)
  BY <1>1, <1>4 DEF Gmgn!CheckDevCache, Gmgn!Fetch, Pass
<1>5. CASE Gmgn!CreatedAnswer(t)
  BY <1>1, <1>5 DEF Gmgn!CreatedAnswer, Gmgn!Answered, Gmgn!Fetch, Pass
<1>6. CASE Gmgn!Store(t)
  <2> DEFINE e == [stats |-> fetch[t].stats, social |-> fetch[t].social, current |-> TRUE]
  <2>1. /\ fetch[t].at = "store" /\ mintCache' = [mintCache EXCEPT ![fetch[t].mint] = e]
        /\ fetch' = [fetch EXCEPT ![t].at = "clear"] /\ UNCHANGED <<permit, inFlight>>
    BY <1>6 DEF Gmgn!Store
  <2>2. e.current
    OBVIOUS
  <2> HIDE DEF e
  <2>3. /\ mintCache'[fetch[t].mint].current
        /\ \A m \in Mints : mintCache[m].current => mintCache'[m].current
    BY <1>1, <2>1, <2>2
  <2>4. /\ fetch'[t].at = "clear" /\ fetch'[t].mint = fetch[t].mint
        /\ \A u \in Tasks : u # t => fetch'[u] = fetch[u]
    BY <1>1, <2>1 DEF Gmgn!Fetch
  <2> QED BY <2>1, <2>3, <2>4 DEF Pass
<1>7. CASE Gmgn!Clear(t)
  BY <1>1, <1>7 DEF Gmgn!Clear, Gmgn!NoFetch, Pass
<1> QED BY <1>2, <1>3, <1>4, <1>5, <1>6, <1>7 DEF Gmgn!FetchStep

\* It brings the task nearer to its end, gives back the permit it has used, and
\* takes a mint out of flight only with its answer in the cache.
LEMMA PassNears ==
  ASSUME ServiceInv, AnswerInv, NEW t \in Tasks, Pass(t),
         \A u \in Tasks : u # t => fetch'[u] = fetch[u]
  PROVE  /\ AnswerInv' /\ FetchLeft(t)' < FetchLeft(t)
         /\ \A m \in inFlight \ inFlight' : mintCache[m].current
<1>1. permit \in Tasks \cup {NoTask} /\ NoTask \notin Tasks
  BY EntryFiltersAssumption DEF ServiceInv, ServiceTypes
<1>2. \A u \in Tasks : fetch[u].at # "none" => fetch[u].mint \in Mints
  BY DEF ServiceInv, ServiceTypes, FetchesAreInFlight
<1>3. PermitHeld'
  BY <1>1 DEF AnswerInv, PermitHeld, Pass
<1>4. ASSUME NEW u \in Tasks, fetch'[u].at = "clear"
      PROVE  mintCache'[fetch'[u].mint].current
  <2>1. CASE u = t
    BY <1>4, <2>1 DEF Pass
  <2>2. CASE u # t
    <3>1. fetch'[u] = fetch[u] /\ fetch[u].mint \in Mints /\ mintCache[fetch[u].mint].current
      BY <1>2, <1>4, <2>2 DEF AnswerInv
    <3> QED BY <3>1 DEF Pass
  <2> QED BY <2>1, <2>2
<1>5. FetchLeft(t)' < FetchLeft(t)
  BY FetchLeftIs DEF Pass
<1>6. \A m \in inFlight \ inFlight' : mintCache[m].current
  BY DEF Pass, AnswerInv
<1> QED BY <1>3, <1>4, <1>5, <1>6 DEF AnswerInv

\* A filter that asks starts a task, or finds one at work for its mint.
LEMMA SpawnPasses ==
  ASSUME ServiceInv, AnswerInv, NEW m \in Mints, Gmgn!SpawnFetch(m)
  PROVE  /\ AnswerInv' /\ m \in inFlight' /\ inFlight \subseteq inFlight'
         /\ \A t \in Tasks : fetch[t].at # "none" => fetch'[t] = fetch[t]
<1>1. CASE m \in inFlight
  BY <1>1 DEF Gmgn!SpawnFetch, Gmgn!pvars, AnswerInv, PermitHeld
<1>2. CASE m \notin inFlight
  <2> DEFINE f == [Gmgn!NoFetch EXCEPT !.at = "ask1", !.mint = m]
  <2>1. PICK t \in Tasks : fetch[t].at = "none" /\ fetch' = [fetch EXCEPT ![t] = f]
    BY <1>2 DEF Gmgn!SpawnFetch
  <2>2. inFlight' = inFlight \cup {m} /\ UNCHANGED <<mintCache, devCache, permit>>
    BY <1>2 DEF Gmgn!SpawnFetch
  <2>3. f.at = "ask1"
    BY DEF Gmgn!NoFetch
  <2> HIDE DEF f
  <2>4. /\ fetch'[t].at = "ask1" /\ \A u \in Tasks : u # t => fetch'[u] = fetch[u]
        /\ permit \in Tasks \cup {NoTask}
    BY <2>1, <2>3 DEF ServiceInv, ServiceTypes
  <2>5. PermitHeld'
    BY <2>1, <2>2, <2>4 DEF AnswerInv, PermitHeld
  <2>6. \A u \in Tasks : fetch'[u].at = "clear" => mintCache'[fetch'[u].mint].current
    BY <2>2, <2>4 DEF AnswerInv
  <2> QED BY <2>1, <2>2, <2>4, <2>5, <2>6 DEF AnswerInv
<1> QED BY <1>1, <1>2

\* An answer expires only when no task is about to leave with it.
LEMMA ExpiryKeepsAnswers ==
  ASSUME ServiceInv, AnswerInv,
         (\E m \in Mints : Gmgn!Expire(m)) \/ \E d \in Devs : Gmgn!ExpireDev(d)
  PROVE  AnswerInv' /\ UNCHANGED <<fetch, inFlight>>
<1>1. mintCache \in [Mints -> Gmgn!Cached]
      /\ \A t \in Tasks : fetch[t].at # "none" => fetch[t].mint \in Mints
  BY DEF ServiceInv, ServiceTypes, FetchesAreInFlight
<1>2. ASSUME NEW m \in Mints, Gmgn!Expire(m) PROVE AnswerInv' /\ UNCHANGED <<fetch, inFlight>>
  <2>1. /\ mintCache' = [mintCache EXCEPT ![m].current = FALSE]
        /\ UNCHANGED <<fetch, inFlight, permit>>
        /\ \A t \in Tasks : fetch[t].at = "clear" => fetch[t].mint # m
    BY <1>2 DEF Gmgn!Expire
  <2>2. \A n \in Mints : n # m => mintCache'[n] = mintCache[n]
    BY <1>1, <2>1
  <2>3. \A t \in Tasks : fetch'[t].at = "clear" => mintCache'[fetch'[t].mint].current
    BY <1>1, <2>1, <2>2 DEF AnswerInv
  <2> QED BY <2>1, <2>3 DEF AnswerInv, PermitHeld
<1>3. ASSUME NEW d \in Devs, Gmgn!ExpireDev(d) PROVE AnswerInv' /\ UNCHANGED <<fetch, inFlight>>
  BY <1>3 DEF Gmgn!ExpireDev, AnswerInv, PermitHeld
<1> QED BY <1>2, <1>3

\* What each step of the filters and of the service's tasks does for the lookups.
LEMMA LookupStep ==
  ASSUME EntryInv, AnswerInv, [Next]_vars
  PROVE  /\ AnswerInv'
         /\ eval.at \in {"askSocial", "askDev"} /\ eval' # eval => eval.mint \in inFlight'
         /\ \A t \in Tasks : fetch[t].at # "none" =>
              IF Gmgn!FetchStep(t) THEN FetchLeft(t)' < FetchLeft(t) ELSE fetch'[t] = fetch[t]
         /\ \A m \in inFlight \ inFlight' : mintCache[m].current
<1>0. ServiceInv /\ (eval.at # "idle" => eval.mint \in Mints)
  BY EntryFiltersAssumption DEF EntryInv, FilterTypes
<1>1. ASSUME NEW t \in Tasks, Gmgn!FetchStep(t)
      PROVE  /\ AnswerInv' /\ FetchLeft(t)' < FetchLeft(t)
             /\ \A u \in Tasks : u # t => fetch'[u] = fetch[u]
             /\ \A m \in inFlight \ inFlight' : mintCache[m].current
  BY <1>0, <1>1, StepPasses, PassNears
<1>2. ASSUME UNCHANGED pvars,
             eval' = eval \/ eval.at \notin {"askSocial", "askDev"}
      PROVE  /\ AnswerInv' /\ \A t \in Tasks : fetch'[t] = fetch[t]
             /\ \A m \in inFlight \ inFlight' : mintCache[m].current
  BY <1>2 DEF pvars, AnswerInv, PermitHeld
<1>3. CASE ServiceStep
  <2>1. Gmgn!ProfileNext /\ eval' = eval
    BY <1>3 DEF ServiceStep
  <2>2. CASE \E t \in Tasks : Gmgn!FetchStep(t)
    <3>1. PICK t \in Tasks : Gmgn!FetchStep(t)
      BY <2>2
    <3>2. \A u \in Tasks : ~Gmgn!FetchStep(u) => fetch'[u] = fetch[u]
      BY <1>1, <3>1
    <3> QED BY <1>1, <2>1, <3>1, <3>2
  <2>3. CASE (\E m \in Mints : Gmgn!Expire(m)) \/ \E d \in Devs : Gmgn!ExpireDev(d)
    <3>1. AnswerInv' /\ UNCHANGED <<fetch, inFlight>>
      BY <1>0, <2>3, ExpiryKeepsAnswers
    <3> QED BY <1>1, <2>1, <3>1
  <2> QED BY <2>1, <2>2, <2>3 DEF Gmgn!ProfileNext
<1>4. CASE AskSocial \/ AskDev
  <2>1. eval.mint \in Mints /\ Gmgn!SpawnFetch(eval.mint)
    BY <1>0, <1>4 DEF AskSocial, AskDev
  <2>2. /\ AnswerInv' /\ eval.mint \in inFlight' /\ inFlight \subseteq inFlight'
        /\ \A t \in Tasks : fetch[t].at # "none" => fetch'[t] = fetch[t]
    BY <1>0, <2>1, SpawnPasses
  <2> QED BY <1>1, <2>2
<1>5. CASE \/ \E m \in Traded : Evaluate(m) \/ MetadataAnswer(m) \/ MetadataExpires(m)
           \/ LookSocial \/ LookMetadata \/ LookDev \/ IndexStep \/ UNCHANGED vars
  <2>1. UNCHANGED pvars /\ (eval' = eval \/ eval.at \notin {"askSocial", "askDev"})
    BY <1>5 DEF Evaluate, MetadataAnswer, MetadataExpires, LookSocial, LookMetadata, LookDev,
                IndexStep, vars, fvars
  <2> QED BY <1>1, <1>2, <2>1
<1> QED BY <1>3, <1>4, <1>5 DEF Next, EvalStep

\* No task leaves with the permit or without an answer.
LEMMA AnswersKept == Spec => []AnswerInv
<1>1. Init => AnswerInv
  BY DEF Init, Gmgn!ProfileInit, Gmgn!NoFetch, AnswerInv, PermitHeld
<1>2. EntryInv /\ AnswerInv /\ [Next]_vars => AnswerInv'
  BY LookupStep
<1> QED BY <1>1, <1>2, EntryInvariant, PTL DEF Spec

\* The semaphore's permit is with the task whose request is out, and with nobody
\* else: no answer and no error path of do_get keeps it.
THEOREM PermitComesBack == Spec => []PermitHeld
<1>1. AnswerInv => PermitHeld
  BY DEF AnswerInv
<1> QED BY <1>1, AnswersKept, PTL

\* A lookup that finds nothing current has a task at work for its mint, which
\* ends after at most seven steps with its answer in the cache: what is left of
\* LookedUpIsCached is that the task gets the permit and goes on.
THEOREM LookupIsFinite == Spec => LookupNearsAnswer
<1>1. EntryInv /\ AnswerInv /\ [Next]_vars =>
        [/\ eval.at \in {"askSocial", "askDev"} /\ eval' # eval => eval.mint \in inFlight'
         /\ \A t \in Tasks : fetch[t].at # "none" =>
              IF Gmgn!FetchStep(t) THEN FetchLeft(t)' < FetchLeft(t) ELSE fetch'[t] = fetch[t]
         /\ \A m \in inFlight \ inFlight' : mintCache[m].current]_vars
  BY LookupStep
<1> QED BY <1>1, EntryInvariant, AnswersKept, PTL DEF Spec, LookupNearsAnswer

=============================================================================
