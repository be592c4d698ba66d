------------------------------ MODULE DevIndex ------------------------------
(***************************************************************************)
(* The local index of token creators (DevIndex): who created a mint, how   *)
(* many mints of a creator have migrated, and how many share a Twitter     *)
(* account.  It is written, one database operation at a time, by           *)
(*                                                                         *)
(*   - the auto-sell monitor, for each update of a bonding curve;          *)
(*   - the backfill, which runs through the creations of the last 48 hours *)
(*     once, unless it was completed in an earlier run of the process;     *)
(*   - one task per creation the backfill finds, which fetches the mint's  *)
(*     metadata for its Twitter account.                                   *)
(*                                                                         *)
(* The database (sled) writes to disk in the background, in order: after a *)
(* crash it is what it was at some earlier moment.                         *)
(*                                                                         *)
(* Left out: a creator's own Twitter account, which is written and never   *)
(* read, and handle_create, which has no caller.                           *)
(***************************************************************************)
EXTENDS Integers, Sequences, FiniteSets

CONSTANTS
  Devs, NoDev,  \* creators, and none
  Mints,
  Handles, NoHandle,  \* Twitter accounts, and none
  Creator,      \* the creator a mint's bonding curve names; NoDev in an old one
  Payer,        \* who signed the mint's creation: its creator for the backfill
  Handle,       \* the account in the mint's metadata
  History,      \* the mints created in the pages it reads: 48 hours, or MAX_PAGES
  Watched,      \* bound: the mints whose curves are followed
  MaxCrashes    \* bound

ASSUME DevIndexAssumption ==
  /\ NoDev \notin Devs /\ NoHandle \notin Handles
  /\ IsFiniteSet(Mints) /\ IsFiniteSet(Devs) /\ Mints # {}
  /\ Creator \in [Mints -> Devs \cup {NoDev}]
  /\ Payer \in [Mints -> Devs]
  /\ Handle \in [Mints -> Handles \cup {NoHandle}]
  /\ History \subseteq Mints /\ Watched \subseteq Mints
  /\ MaxCrashes \in Nat

VARIABLES
  db,        \* the database
  disk,      \* what of it a crash would leave
  monitor,   \* the monitor's step in record_migration
  backfill,  \* the backfill's step and the creations it has yet to look at
  link,      \* the metadata task of each mint
  skipped,   \* history: creations whose transaction the backfill did not get
  crashes

ivars == <<db, disk, monitor, backfill, link, skipped, crashes>>

(***************************************************************************)
(* The database                                                            *)
(***************************************************************************)

EmptyDb ==
  [creator |-> [m \in Mints |-> NoDev],     \* mint:<mint>
   open    |-> [d \in Devs |-> 0],          \* dev:<dev>, field by field
   created |-> [d \in Devs |-> 0],
   bound   |-> [d \in Devs |-> 0],
   marked  |-> {},                          \* migrated:<mint>
   mintsOf |-> [h \in Handles |-> <<>>],    \* tw_mints:<handle>
   done    |-> FALSE]                       \* _meta:backfill_done

\* record_creation: the mint is inserted, then looked up, so it is never new.
RecordCreation(b, d, m) ==
  LET inserted == [b EXCEPT !.creator[m] = d]
  IN  [inserted EXCEPT !.created[d] = IF inserted.creator[m] = NoDev THEN @ + 1 ELSE @]

Elements(s) == {s[i] : i \in DOMAIN s}

\* Mutation of WithMint: it is not asked whether the mint is there.
WithMintAgain(s, m) == Append(s, m)

WithMint(s, m) == IF m \in Elements(s) THEN s ELSE Append(s, m)

(***************************************************************************)
(* The monitor                                                             *)
(***************************************************************************)

\* "wait": for an update; "look", "bump", "mark": the operations of
\* record_migration.
Waiting == [at |-> "wait", mint |-> CHOOSE m \in Mints : TRUE, dev |-> NoDev]

\* A bonding curve names its creator, or is complete, or both.
CurveUpdate(m, complete) ==
  LET known == Creator[m] # NoDev IN
  /\ monitor.at = "wait"
  /\ known \/ complete
  /\ db' = IF known THEN RecordCreation(db, Creator[m], m) ELSE db
  /\ monitor' = IF complete THEN [at |-> "look", mint |-> m, dev |-> NoDev] ELSE monitor
  /\ UNCHANGED <<disk, backfill, link, skipped, crashes>>

\* Mutation of LookUp: it is not asked whether a creator was found.
LookUpAny ==
  /\ monitor.at = "look"
  /\ monitor' = IF monitor.mint \in db.marked THEN Waiting
                ELSE [monitor EXCEPT !.at = "bump", !.dev = db.creator[monitor.mint]]
  /\ UNCHANGED <<db, disk, backfill, link, skipped, crashes>>

\* Nothing is done for a mint that is marked, or has no known creator.
LookUp ==
  /\ monitor.at = "look"
  /\ monitor' =
       IF monitor.mint \in db.marked \/ db.creator[monitor.mint] = NoDev THEN Waiting
       ELSE [monitor EXCEPT !.at = "bump", !.dev = db.creator[monitor.mint]]
  /\ UNCHANGED <<db, disk, backfill, link, skipped, crashes>>

Bump ==
  /\ monitor.at = "bump"
  /\ db' = [db EXCEPT !.open[monitor.dev] = @ + 1]
  /\ monitor' = [monitor EXCEPT !.at = "mark"]
  /\ UNCHANGED <<disk, backfill, link, skipped, crashes>>

Mark ==
  /\ monitor.at = "mark"
  /\ db' = [db EXCEPT !.marked = @ \cup {monitor.mint}]
  /\ monitor' = Waiting
  /\ UNCHANGED <<disk, backfill, link, skipped, crashes>>

(***************************************************************************)
(* The backfill                                                            *)
(***************************************************************************)

\* "scan"; "flush": done is written; "off": over, not needed, or given up.
StartBackfill(b) == IF b.done THEN [at |-> "off", left |-> {}]
                    ELSE [at |-> "scan", left |-> History]

\* A transaction that cannot be fetched is passed over.
SkipCreation(m) ==
  /\ backfill.at = "scan" /\ m \in backfill.left
  /\ backfill' = [backfill EXCEPT !.left = @ \ {m}]
  /\ skipped' = skipped \cup {m}
  /\ UNCHANGED <<db, disk, monitor, link, crashes>>

\* process_tx, which starts the mint's metadata task as well.
FindCreation(m) ==
  /\ backfill.at = "scan" /\ m \in backfill.left
  /\ backfill' = [backfill EXCEPT !.left = @ \ {m}]
  /\ db' = RecordCreation(db, Payer[m], m)
  /\ link' = [link EXCEPT ![m].at = "fetch"]
  /\ UNCHANGED <<disk, monitor, skipped, crashes>>

\* A page of signatures that cannot be fetched ends the backfill.
PageFails ==
  /\ backfill.at = "scan"
  /\ backfill' = [backfill EXCEPT !.at = "off"]
  /\ UNCHANGED <<db, disk, monitor, link, skipped, crashes>>

\* Mutation of MarkDone: pages are left.
MarkDoneEarly ==
  /\ backfill.at = "scan"
  /\ db' = [db EXCEPT !.done = TRUE]
  /\ UNCHANGED <<disk, monitor, backfill, link, skipped, crashes>>

MarkDone ==
  /\ backfill.at = "scan" /\ backfill.left = {}
  /\ db' = [db EXCEPT !.done = TRUE]
  /\ backfill' = [backfill EXCEPT !.at = "flush"]
  /\ UNCHANGED <<disk, monitor, link, skipped, crashes>>

FlushDone ==
  /\ backfill.at = "flush"
  /\ disk' = db
  /\ backfill' = [backfill EXCEPT !.at = "off"]
  /\ UNCHANGED <<db, monitor, link, skipped, crashes>>

(***************************************************************************)
(* A metadata task: spawn_metadata_fetch, and link_twitter with its three  *)
(* operations                                                              *)
(***************************************************************************)

NoLink == [at |-> "none", mints |-> <<>>]

\* The fetch fails, or finds no account.
NothingToLink(m) ==
  /\ link[m].at = "fetch"
  /\ link' = [link EXCEPT ![m] = NoLink]
  /\ UNCHANGED <<db, disk, monitor, backfill, skipped, crashes>>

ReadMints(m) ==
  /\ link[m].at = "fetch" /\ Handle[m] # NoHandle
  /\ LET old == db.mintsOf[Handle[m]]
         new == WithMint(old, m)
     IN  link' = [link EXCEPT ![m] = [at |-> IF new = old THEN "bound" ELSE "write", mints |-> new]]
  /\ UNCHANGED <<db, disk, monitor, backfill, skipped, crashes>>

\* What another task has added since the list was read is lost.
WriteMints(m) ==
  /\ link[m].at = "write"
  /\ db' = [db EXCEPT !.mintsOf[Handle[m]] = link[m].mints]
  /\ link' = [link EXCEPT ![m].at = "bound"]
  /\ UNCHANGED <<disk, monitor, backfill, skipped, crashes>>

WriteBound(m) ==
  /\ link[m].at = "bound"
  /\ db' = [db EXCEPT !.bound[Payer[m]] = Len(link[m].mints)]
  /\ link' = [link EXCEPT ![m] = NoLink]
  /\ UNCHANGED <<disk, monitor, backfill, skipped, crashes>>

(***************************************************************************)
(* Disk and crash                                                          *)
(***************************************************************************)

\* Bound: after the last crash, nothing reads the disk any more.
Flush ==
  /\ crashes < MaxCrashes
  /\ disk # db
  /\ disk' = db
  /\ UNCHANGED <<db, monitor, backfill, link, skipped, crashes>>

Crash ==
  /\ crashes < MaxCrashes
  /\ crashes' = crashes + 1
  /\ db' = disk
  /\ monitor' = Waiting
  /\ backfill' = StartBackfill(disk)
  /\ link' = [m \in Mints |-> NoLink]
  /\ UNCHANGED <<disk, skipped>>

-----------------------------------------------------------------------------

\* lookup_by_mint of the local index: two reads, of which the second finds
\* nothing for a creator without counts.
IndexStats(m) ==
  LET d == db.creator[m] IN
  IF d = NoDev THEN [open |-> 0, created |-> 0, bound |-> 0]
  ELSE [open |-> db.open[d], created |-> db.created[d], bound |-> db.bound[d]]

IndexInit ==
  /\ db = EmptyDb
  /\ disk = EmptyDb
  /\ monitor = Waiting
  /\ backfill = StartBackfill(EmptyDb)
  /\ link = [m \in Mints |-> NoLink]
  /\ skipped = {}
  /\ crashes = 0

\* Mutation of MonitorNext: the mint is marked before it is counted.
MarkThenBump ==
  \/ \E m \in Watched, complete \in BOOLEAN : CurveUpdate(m, complete)
  \/ LookUp
  \/ /\ monitor.at = "bump"
     /\ db' = [db EXCEPT !.marked = @ \cup {monitor.mint}]
     /\ monitor' = [monitor EXCEPT !.at = "mark"]
     /\ UNCHANGED <<disk, backfill, link, skipped, crashes>>
  \/ /\ monitor.at = "mark"
     /\ db' = [db EXCEPT !.open[monitor.dev] = @ + 1]
     /\ monitor' = Waiting
     /\ UNCHANGED <<disk, backfill, link, skipped, crashes>>

MonitorNext ==
  \/ \E m \in Watched, complete \in BOOLEAN : CurveUpdate(m, complete)
  \/ LookUp \/ Bump \/ Mark

BackfillNext ==
  \/ \E m \in Mints : SkipCreation(m) \/ FindCreation(m)
  \/ PageFails \/ MarkDone \/ FlushDone

LinkNext(m) == NothingToLink(m) \/ ReadMints(m) \/ WriteMints(m) \/ WriteBound(m)

IndexNext ==
  \/ MonitorNext
  \/ BackfillNext
  \/ \E m \in Mints : LinkNext(m)
  \/ Flush
  \/ Crash

=============================================================================
