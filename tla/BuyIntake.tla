----------------------------- MODULE BuyIntake -----------------------------
(***************************************************************************)
(* From a decided buy to execute_buy: the tasks spawn_buy_execution makes, *)
(* the two pools of permits they wait for, and the claims that keep two    *)
(* tasks from buying the same mint for the same group, with the sweeper    *)
(* that drops claims.                                                      *)
(*                                                                         *)
(* Time is left open: that 25 ms, 2.5 s or 30 s have passed is a step that *)
(* may be taken at any moment the code does not exclude.                   *)
(***************************************************************************)
EXTENDS Integers, FiniteSets

CONSTANTS
  Tasks,    \* names of tasks; bound: as many run at a time
  Keys,     \* (group, mint) pairs
  NoKey,    \* not a pair: a task that does not exist
  Pools,    \* the two limiters, for direct and for wrapper trades
  NoPool,   \* not a pool
  Permits   \* permits in each pool

ASSUME KeysAssumption == NoKey \notin Keys
ASSUME PoolsAssumption == NoPool \notin Pools /\ Permits \in Nat \ {0}

VARIABLES
  task,    \* the spawned tasks
  claims,  \* GroupMintDedup
  recent,  \* keys bought less than the cooldown ago
  orphans  \* keys whose claim was swept away under a running buy

vars == <<task, claims, recent, orphans>>

\* "queued": waits for a permit; "ready": has one, has not claimed the mint;
\* "buying": in execute_buy; "sent", "unsent": execute_buy has returned.
TaskStates == {"none", "queued", "ready", "buying", "sent", "unsent"}

Task == [st: TaskStates, key: Keys \cup {NoKey}, pool: Pools \cup {NoPool}]

NoTask == [st |-> "none", key |-> NoKey, pool |-> NoPool]

\* idle: last_touched is thirty seconds ago.  A claim is in flight, or it is
\* there for its cooldown, which may be over before the sweeper comes.
Claim == [here: BOOLEAN, inFlight: BOOLEAN, cooling: BOOLEAN, idle: BOOLEAN]

NoClaim == [here |-> FALSE, inFlight |-> FALSE, cooling |-> FALSE, idle |-> FALSE]

Init ==
  /\ task = [t \in Tasks |-> NoTask]
  /\ claims = [k \in Keys |-> NoClaim]
  /\ recent = {}
  /\ orphans = {}

Holding == {"ready", "buying", "sent", "unsent"}
Working == {"buying", "sent", "unsent"}

HasPermit(pool) ==
  Cardinality({t \in Tasks : task[t].st \in Holding /\ task[t].pool = pool}) < Permits

Works(t, k) == task[t].st \in Working /\ task[t].key = k

Goto(t, st) == task' = [task EXCEPT ![t].st = st]

End(t) == task' = [task EXCEPT ![t] = NoTask]

(***************************************************************************)
(* spawn_buy_execution                                                     *)
(***************************************************************************)

Spawn(t, k, pool) ==
  /\ task[t].st = "none"
  /\ task' = [task EXCEPT ![t] = [st |-> "queued", key |-> k, pool |-> pool]]
  /\ UNCHANGED <<claims, recent, orphans>>

\* No permit within 25 ms: the buy is dropped.
QueueTimeout(t) ==
  /\ task[t].st = "queued"
  /\ ~HasPermit(task[t].pool)
  /\ End(t)
  /\ UNCHANGED <<claims, recent, orphans>>

GetPermit(t) ==
  /\ task[t].st = "queued"
  /\ HasPermit(task[t].pool)
  /\ Goto(t, "ready")
  /\ UNCHANGED <<claims, recent, orphans>>

\* Mutation of MayStart: a claim in flight is no obstacle.
MayStartCold(c) == ~c.cooling

\* Mutation of MayStart: a cooldown is no obstacle.
MayStartWarm(c) == ~c.inFlight

MayStart(c) == ~(c.inFlight \/ c.cooling)

\* try_start_group_mint: a refused attempt, too, touches the claim.
TryStart(t) ==
  LET k == task[t].key IN
  /\ task[t].st = "ready"
  /\ IF MayStart(claims[k])
     THEN /\ claims' = [claims EXCEPT ![k] = [here |-> TRUE, inFlight |-> TRUE,
                                              cooling |-> FALSE, idle |-> FALSE]]
          /\ Goto(t, "buying")
     ELSE /\ claims' = [claims EXCEPT ![k].idle = FALSE]
          /\ End(t)
  /\ UNCHANGED <<recent, orphans>>

\* execute_buy: true once the transaction was handed to the sender.
BuyReturns(t) ==
  /\ task[t].st = "buying"
  /\ \E st \in {"sent", "unsent"} : Goto(t, st)
  /\ UNCHANGED <<claims, recent, orphans>>

\* Mutation of Finished: the cooldown is recorded even if the claim is gone.
FinishedAnyway(c, submitted) ==
  IF ~submitted THEN NoClaim ELSE [c EXCEPT !.inFlight = FALSE, !.cooling = TRUE, !.idle = FALSE]

\* Mutation of Finished: a buy that was not sent leaves its claim in flight.
FinishedIfSent(c, submitted) ==
  IF submitted /\ c.here THEN [c EXCEPT !.inFlight = FALSE, !.cooling = TRUE, !.idle = FALSE]
  ELSE c

\* finish_group_mint: it does not ask whose claim it finds.
Finished(c, submitted) ==
  IF ~submitted THEN NoClaim
  ELSE IF c.here THEN [c EXCEPT !.inFlight = FALSE, !.cooling = TRUE, !.idle = FALSE]
  ELSE c

Finish(t) ==
  LET k == task[t].key IN
  /\ task[t].st \in {"sent", "unsent"}
  /\ claims' = [claims EXCEPT ![k] = Finished(@, task[t].st = "sent")]
  /\ recent' = IF task[t].st = "sent" THEN recent \cup {k} ELSE recent
  /\ End(t)
  /\ orphans' = IF k \in recent' \/ \E u \in Tasks \ {t} : Works(u, k)
                THEN orphans ELSE orphans \ {k}

(***************************************************************************)
(* Time and the sweeper                                                    *)
(***************************************************************************)

CooldownOver(k) ==
  /\ k \in recent
  /\ recent' = recent \ {k}
  /\ claims' = [claims EXCEPT ![k].cooling = FALSE]
  /\ orphans' = IF \E t \in Tasks : Works(t, k) THEN orphans ELSE orphans \ {k}
  /\ UNCHANGED task

GoIdle(k) ==
  /\ claims[k].here
  /\ claims' = [claims EXCEPT ![k].idle = TRUE]
  /\ UNCHANGED <<task, recent, orphans>>

\* Mutation of Keep: a claim in flight is kept no longer than another.
KeepCooling(c) == c.cooling

\* keep_group_mint_claim
Keep(c) == IF c.inFlight THEN ~c.idle ELSE c.cooling

Sweep(k) ==
  /\ claims[k].here
  /\ ~Keep(claims[k])
  /\ claims' = [claims EXCEPT ![k] = NoClaim]
  /\ orphans' = IF claims[k].inFlight /\ claims[k].idle THEN orphans \cup {k} ELSE orphans
  /\ UNCHANGED <<task, recent>>

-----------------------------------------------------------------------------

TaskStep(t) ==
  QueueTimeout(t) \/ GetPermit(t) \/ TryStart(t) \/ BuyReturns(t) \/ Finish(t)

Next ==
  \/ \E t \in Tasks : TaskStep(t) \/ \E k \in Keys, pool \in Pools : Spawn(t, k, pool)
  \/ \E k \in Keys : CooldownOver(k) \/ GoIdle(k) \/ Sweep(k)

Spec == Init /\ [][Next]_vars

(***************************************************************************)
(* Properties                                                              *)
(***************************************************************************)

\* Every variable has its type; a task that exists has its key and its pool,
\* and what is in flight or cooling is in the map.
TypeOK ==
  /\ task \in [Tasks -> Task]
  /\ \A t \in Tasks : task[t].st # "none" => task[t].key \in Keys /\ task[t].pool \in Pools
  /\ claims \in [Keys -> Claim]
  /\ \A k \in Keys : claims[k].inFlight \/ claims[k].cooling => claims[k].here
  /\ recent \subseteq Keys
  /\ orphans \subseteq Keys

\* No two tasks buy one mint for one group at a time, unless the sweeper took a
\* claim in flight for stale while its buy was still running.
OneBuyAtATime ==
  \A k \in Keys \ orphans : \A t, u \in Tasks : Works(t, k) /\ Works(u, k) => t = u

\* No buy starts within the cooldown of another one that was sent, with the same
\* exception.
CooldownKept ==
  [][\A t \in Tasks : task[t].st = "ready" /\ task'[t].st = "buying" =>
       task[t].key \notin recent \ orphans]_vars

\* A claim in flight has a task that will end it, so a mint is never shut for
\* good: not even when the sweeper left one task's claim to another to end.
ClaimHasOwner ==
  \A k \in Keys : claims[k].inFlight => \E t \in Tasks : Works(t, k)

\* The intake keeps the promise of Buys: claims, permits and the sweeper, in
\* whatever order their steps come, add nothing to what a buyer may do.
Promise == INSTANCE Buys WITH
  Buyers <- Tasks,
  buying <- {b \in Tasks \X Keys : Works(b[1], b[2])},
  resting <- recent,
  excused <- orphans

ImplementsBuys == Promise!Spec

(***************************************************************************)
(* The inductive invariant                                                 *)
(***************************************************************************)

\* The claim of a running buy is in flight, unless it was swept away.
WorkIsClaimed ==
  \A k \in Keys \ orphans : \A t \in Tasks : Works(t, k) => claims[k].inFlight

\* The claim of a recent buy is cooling, unless it was swept away.
RecentIsCooling == \A k \in recent \ orphans : claims[k].cooling

FlightIsNotCooling == \A k \in Keys : claims[k].inFlight => ~claims[k].cooling

IntakeInv ==
  /\ TypeOK
  /\ OneBuyAtATime
  /\ ClaimHasOwner
  /\ WorkIsClaimed
  /\ RecentIsCooling
  /\ FlightIsNotCooling

=============================================================================
