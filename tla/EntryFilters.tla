---------------------------- MODULE EntryFilters ----------------------------
(***************************************************************************)
(* The filters a trade passes before it is copied (EntryFilters::evaluate) *)
(* and what they know: the profiles of token creators, from the service    *)
(* (DevProfile) or from the local index (DevIndex), and whether a mint has *)
(* a social link, from the service or from its metadata (SocialCache).     *)
(* What is not known is no obstacle.                                       *)
(*                                                                         *)
(* One of the two sources of profiles is chosen when the bot starts; the   *)
(* other one is not looked at and stands still here.  With the index, the  *)
(* filters only read (IndexStats), and evaluate is left out.  Numbers from *)
(* the service, the market cap and the group's limits are abstracted: any  *)
(* that is known may be beyond its limit.                                  *)
(***************************************************************************)
EXTENDS DevIndex

CONSTANTS
  NoMint, Tasks, NoTask,
  Traded,        \* bound: the mints that are traded
  MaxPrefetches  \* bound: metadata fetches for one mint at a time

ASSUME EntryFiltersAssumption ==
  /\ Traded \subseteq Mints /\ NoMint \notin Mints
  /\ NoTask \notin Tasks
  /\ MaxPrefetches \in Nat

VARIABLES
  mintCache, devCache, inFlight, fetch, permit,  \* of DevProfile
  provider,    \* the source of profiles
  links,       \* SocialCache, and how many fetches are out for each mint
  eval         \* the trade loop's place in evaluate

Gmgn == INSTANCE DevProfile WITH Creators <- Devs, CreatorOf <- Payer

pvars == <<mintCache, devCache, inFlight, fetch, permit>>
fvars == <<provider, links, eval>>
vars  == <<ivars, pvars, fvars>>

Idle == [at |-> "idle", mint |-> NoMint]

Init ==
  /\ IndexInit
  /\ Gmgn!ProfileInit
  /\ provider \in {"service", "index"}
  /\ links = [m \in Traded |-> [known |-> "none", out |-> 0]]
  /\ eval = Idle

(***************************************************************************)
(* evaluate, in the trade loop, for one group                              *)
(***************************************************************************)

EvalGoto(step) == eval' = [eval EXCEPT !.at = step]

TurnAway == eval' = Idle

\* The market cap may turn the trade away at once; this leaves nothing behind.
Evaluate(m) ==
  /\ provider = "service"
  /\ eval.at = "idle"
  /\ \E step \in {"social", "dev"} : eval' = [at |-> step, mint |-> m]
  /\ UNCHANGED <<ivars, pvars, provider, links>>

Current == mintCache[eval.mint].current

\* lookup_social_by_mint.  An answer that says nothing of links leads to the
\* metadata too, though a comment on has_social has it count as "no links".
LookSocial ==
  /\ eval.at = "social"
  /\ IF Current /\ mintCache[eval.mint].social = "no" THEN TurnAway
     ELSE EvalGoto(CASE ~Current -> "askSocial"
                     [] mintCache[eval.mint].social = "none" -> "metadata"
                     [] OTHER -> "dev")
  /\ UNCHANGED <<ivars, pvars, provider, links>>

AskSocial ==
  /\ eval.at = "askSocial"
  /\ Gmgn!SpawnFetch(eval.mint)
  /\ EvalGoto("metadata")
  /\ UNCHANGED <<ivars, provider, links>>

\* spawn_prefetch and check of the social module: fetches are not coalesced.  Their
\* two looks at the cache are one here: only a fetch's end could come between.
LookMetadata ==
  LET m == eval.mint IN
  /\ eval.at = "metadata"
  /\ links' = IF links[m].known # "none" THEN links
              ELSE [links EXCEPT ![m].out = IF @ < MaxPrefetches THEN @ + 1 ELSE @]
  /\ IF links[m].known = "no" THEN TurnAway ELSE EvalGoto("dev")
  /\ UNCHANGED <<ivars, pvars, provider>>

\* dev_profile::check, and with it the end of evaluate.
LookDev ==
  LET stats == mintCache[eval.mint].stats IN
  /\ eval.at = "dev"
  /\ \/ ~Current /\ EvalGoto("askDev")
     \/ Current /\ stats # "none" /\ TurnAway
     \/ Current /\ eval' = Idle
  /\ UNCHANGED <<ivars, pvars, provider, links>>

AskDev ==
  /\ eval.at = "askDev"
  /\ Gmgn!SpawnFetch(eval.mint)
  /\ eval' = Idle
  /\ UNCHANGED <<ivars, provider, links>>

\* A metadata fetch ends, with or without a result; a failure is not kept.
MetadataAnswer(m) ==
  /\ links[m].out > 0
  /\ \E known \in {"yes", "no", links[m].known} :
       links' = [links EXCEPT ![m] = [known |-> known, out |-> @.out - 1]]
  /\ UNCHANGED <<ivars, pvars, provider, eval>>

\* Twenty-four hours.
MetadataExpires(m) ==
  /\ links[m].known # "none"
  /\ links' = [links EXCEPT ![m].known = "none"]
  /\ UNCHANGED <<ivars, pvars, provider, eval>>

\* The tasks of the service.
ServiceStep ==
  /\ provider = "service"
  /\ Gmgn!ProfileNext
  /\ UNCHANGED <<ivars, provider, links, eval>>

IndexStep ==
  /\ provider = "index"
  /\ IndexNext
  /\ UNCHANGED <<pvars, fvars>>

EvalStep == LookSocial \/ AskSocial \/ LookMetadata \/ LookDev \/ AskDev

Next ==
  \/ \E m \in Traded : Evaluate(m) \/ MetadataAnswer(m) \/ MetadataExpires(m)
  \/ EvalStep
  \/ ServiceStep
  \/ IndexStep

Spec == Init /\ [][Next]_vars

\* The trade loop does not wait in evaluate; requests to the service have
\* time-outs, and its permit is handed out in turn.
Fairness ==
  /\ WF_vars(EvalStep)
  /\ \A t \in Tasks :
       /\ SF_vars(ServiceStep /\ Gmgn!Acquire(t))
       /\ WF_vars(ServiceStep /\ fetch[t].at \notin {"ask1", "ask2"} /\ Gmgn!FetchStep(t))

FairSpec == Spec /\ Fairness

(***************************************************************************)
(* Properties                                                              *)
(***************************************************************************)

Db == [creator: [Mints -> Devs \cup {NoDev}],
       open: [Devs -> Nat], created: [Devs -> Nat], bound: [Devs -> Nat],
       marked: SUBSET Mints, mintsOf: [Handles -> Seq(Mints)], done: BOOLEAN]

\* Types; the monitor counts a migration only for a creator it has found.
TypeOK ==
  /\ db \in Db /\ disk \in Db
  /\ monitor \in [at: {"wait", "look", "bump", "mark"}, mint: Mints, dev: Devs \cup {NoDev}]
  /\ monitor.at \in {"bump", "mark"} => monitor.dev \in Devs
  /\ backfill \in [at: {"scan", "flush", "off"}, left: SUBSET History]
  /\ link \in [Mints -> [at: {"none", "fetch", "write", "bound"}, mints: Seq(Mints)]]
  /\ skipped \subseteq History /\ crashes \in 0..MaxCrashes
  /\ mintCache \in [Mints -> Gmgn!Cached] /\ devCache \in [Devs -> BOOLEAN]
  /\ inFlight \subseteq Mints /\ fetch \in [Tasks -> Gmgn!Fetch] /\ permit \in Tasks \cup {NoTask}
  /\ links \in [Traded -> [known: {"none", "no", "yes"}, out: 0..MaxPrefetches]]

\* No creation is ever counted, whatever the backfill and the monitor record:
\* record_creation inserts a mint before it asks whether it is new.  With the
\* local index, a limit on created tokens turns nothing away.
NoCreationCounted == \A m \in Mints : IndexStats(m).created = 0

\* The migrations counted: the first, the second, ... of each creator.
Counted(b) == UNION {{d} \X (1..b.open[d]) : d \in Devs}

Migrations(b) == Cardinality(Counted(b))

\* Every mint marked as migrated has been counted, and what is counted beyond
\* them are a migration under way and at most one for each crash: also on disk,
\* so that no crash makes record_migration miss one.
MigrationsCounted ==
  /\ Migrations(db) >= Cardinality(db.marked)
  /\ Migrations(disk) >= Cardinality(disk.marked)
  /\ Migrations(db) <= Cardinality(db.marked) + crashes + (IF monitor.at = "mark" THEN 1 ELSE 0)

\* Once the backfill counts as done, and is not repeated any more, each creation
\* it should find is in the database, but for those whose transaction it did not
\* get; on disk as well.
BackfillIsWhole ==
  \A b \in {db, disk} : b.done =>
    \A m \in History \ skipped : b.creator[m] # NoDev

\* A mint is counted once for its Twitter account however often the backfill is
\* repeated, and no creator is charged with more mints than the account has.  Two
\* tasks may still lose a mint of each other's (WriteMints): the counts can be too
\* low, and this says only that they are never too high.
MintsLinkedOnce ==
  /\ \A h \in Handles : Cardinality(Elements(db.mintsOf[h])) = Len(db.mintsOf[h])
  /\ \A d \in Devs : db.bound[d] > 0 =>
       \E h \in Handles : db.bound[d] <= Cardinality({m \in Mints : Handle[m] = h})

\* The service is asked for one mint by one task at a time (in_flight), and a
\* mint in flight has its task, so that it can be asked for again later.
OneFetchPerMint ==
  /\ \A t, u \in Tasks : fetch[t].at # "none" /\ fetch[t].mint = fetch[u].mint => t = u
  /\ \A m \in inFlight : \E t \in Tasks : fetch[t].at # "none" /\ fetch[t].mint = m

\* When a filter has found nothing current for a mint, an answer comes to be in
\* the cache, were it an empty one (spawn_fetch).
LookedUpIsCached ==
  \A m \in Traded :
    (eval.at \in {"askSocial", "askDev"} /\ eval.mint = m) ~> mintCache[m].current

\* The steps the task of a lookup is away from its end.
FetchLeft(t) ==
  LET at == fetch[t].at IN
  CASE at = "ask1" -> 7 [] at = "info" -> 6 [] at = "dev" -> 5 [] at = "ask2" -> 4
    [] at = "created" -> 3 [] at = "store" -> 2 [] at = "clear" -> 1 [] at = "none" -> 0

\* The safe half of LookedUpIsCached: a filter that asks leaves the mint in flight,
\* its task comes nearer to its end with each step and is touched by no other,
\* and no mint is out of flight again before an answer is in the cache.
LookupNearsAnswer ==
  [][/\ eval.at \in {"askSocial", "askDev"} /\ eval' # eval => eval.mint \in inFlight'
     /\ \A t \in Tasks : fetch[t].at # "none" =>
          IF Gmgn!FetchStep(t) THEN FetchLeft(t)' < FetchLeft(t) ELSE fetch'[t] = fetch[t]
     /\ \A m \in inFlight \ inFlight' : mintCache[m].current]_vars

\* The permit is out exactly while its task waits for an answer, and so comes back
\* with it: no path of the task keeps it, or asks for it while holding it.
PermitHeld ==
  /\ permit # NoTask => fetch[permit].at \in {"info", "created"}
  /\ \A t \in Tasks : fetch[t].at \in {"info", "created"} => permit = t

=============================================================================
