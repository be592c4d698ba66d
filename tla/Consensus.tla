----------------------------- MODULE Consensus -----------------------------
(***************************************************************************)
(* The votes on ONE (group, mint) of a group that needs several wallets:   *)
(* the trade loop of main (signature cache, filters, submit or reject),    *)
(* the consensus engine's entry for that key, its cleanup task and the     *)
(* trigger channel to the buy side.                                        *)
(*                                                                         *)
(* A wallet's transaction may be seen twice, before and after execution.   *)
(* Transactions are identified as <<wallet, slot>>: when the signature     *)
(* cache has forgotten one, the same pair stands for a late copy of it or  *)
(* for a fresh transaction of the wallet.                                  *)
(***************************************************************************)
EXTENDS Integers, Sequences, FiniteSets

CONSTANTS
  Wallets,       \* followed wallets
  Slots,         \* per wallet, names for its remembered transactions
  Shapes,        \* what the parser may find in a trade
  Mins,          \* values consensus_min_wallets may be set to
  Timeout,       \* consensus_timeout_secs, in ticks
  MaxDelay,      \* bound: ticks a trade waits before the loop handles it
  ChannelBound   \* bound: triggers the buy side has not taken yet

\* Groups with a minimum of one wallet buy directly, without a vote.
ASSUME MinsAssumption == Mins \subseteq Nat \ {0, 1}
ASSUME TimesAssumption == Timeout \in Nat /\ MaxDelay \in 0..(Timeout - 1)
ASSUME ChannelAssumption == ChannelBound \in Nat

\* ins: instruction data of 24 bytes or more; acc: instruction accounts; sol:
\* a positive amount; wrapper: a CPI trade; pass: it passes the blocked-mint,
\* entry-filter and minimum-amount checks of the loop.
Shape == [ins: BOOLEAN, acc: BOOLEAN, sol: BOOLEAN, wrapper: BOOLEAN, pass: BOOLEAN]

ASSUME ShapesAssumption == Shapes \subseteq Shape

VARIABLES
  entry,     \* ConsensusEngine.signals[(group, mint)]
  seen,      \* sig_cache
  rejected,  \* remembered transactions whose failure the engine was told of
  channel    \* consensus_tx: triggers sent and not yet taken

vars == <<entry, seen, rejected, channel>>

Txs == Wallets \X Slots

\* age: ticks since detected_at; Timeout stands for "expired".
Vote == [tx: Txs, score: 0..15, counts: BOOLEAN, landed: BOOLEAN, age: 0..Timeout]

Wallet(v) == v.tx[1]

\* min is fixed when the entry is created, whatever the group says later.
Entry == [here: BOOLEAN, votes: SUBSET Vote, triggered: BOOLEAN, min: Nat]

NoEntry == [here |-> FALSE, votes |-> {}, triggered |-> FALSE, min |-> 0]

Trigger == [wallets: SUBSET Wallets, canonical: Txs]

Unseen == [pre |-> FALSE, landed |-> FALSE]

Init ==
  /\ entry = NoEntry
  /\ seen = [tx \in Txs |-> Unseen]
  /\ rejected = {}
  /\ channel = <<>>

(***************************************************************************)
(* Votes                                                                   *)
(***************************************************************************)

Weight(flag, w) == IF flag THEN w ELSE 0

CanonicalScore(shape, landed) ==
  Weight(shape.ins, 8) + Weight(shape.acc, 4) + Weight(shape.sol, 2) + Weight(landed, 1)

CountsForConsensus(shape) == shape.ins \/ shape.sol \/ shape.wrapper

NewVote(tx, shape, landed, age) ==
  [tx |-> tx, score |-> CanonicalScore(shape, landed),
   counts |-> CountsForConsensus(shape), landed |-> landed, age |-> age]

\* Mutation of ShouldReplace: an equally good signal replaces.
ShouldReplaceEqual(old, new) == new.score >= old.score

ShouldReplace(old, new) ==
  \/ new.score > old.score
  \/ new.score = old.score /\ new.landed /\ ~old.landed

Fresh(votes) == {v \in votes : v.age < Timeout}

Counting(votes) == {v \in votes : v.counts}

\* VoteTally.should_trigger: it counts votes, one per wallet.
Reached(e) == Cardinality(Counting(e.votes)) >= e.min

VotesOf(votes, w) == {v \in votes : Wallet(v) = w}

Best(votes) == {v \in votes : \A u \in votes : u.score <= v.score}

(***************************************************************************)
(* ConsensusEngine                                                         *)
(***************************************************************************)

\* Mutation of EntryFor: expired votes stay until the cleanup task comes.
EntryUnpruned(min) ==
  IF entry.here THEN entry ELSE [NoEntry EXCEPT !.here = TRUE, !.min = min]

\* The entry a signal meets: created if needed, without its expired votes.
EntryFor(min) ==
  LET e == IF entry.here THEN entry ELSE [NoEntry EXCEPT !.here = TRUE, !.min = min] IN
  [e EXCEPT !.votes = Fresh(@)]

\* Mutation of Tally: it triggers with every vote once there are enough.
TallyAgain(e) ==
  IF Reached(e)
  THEN /\ entry' = [e EXCEPT !.triggered = TRUE]
       /\ \E best \in Best(Counting(e.votes)) :
            channel' = Append(channel, [wallets |-> {Wallet(v) : v \in Counting(e.votes)},
                                        canonical |-> best.tx])
  ELSE entry' = e /\ UNCHANGED channel

\* The consensus triggers once: the flag stays until the entry is retracted or
\* dropped.
Tally(e) ==
  IF ~e.triggered /\ Reached(e)
  THEN /\ entry' = [e EXCEPT !.triggered = TRUE]
       /\ \E best \in Best(Counting(e.votes)) :
            channel' = Append(channel, [wallets |-> {Wallet(v) : v \in Counting(e.votes)},
                                        canonical |-> best.tx])
  ELSE entry' = e /\ UNCHANGED channel

\* Mutation of Cast: the better vote is added, not put in the old one's place.
CastAdded(e, v) == Tally([e EXCEPT !.votes = @ \cup {v}])

\* Mutation of Cast: an upgraded vote is stored without a new tally.
CastUpgradeUntallied(e, v) ==
  LET mine == VotesOf(e.votes, Wallet(v))
      e2   == [e EXCEPT !.votes = (@ \ mine) \cup {v}]
  IN  IF mine = {} THEN Tally(e2) ELSE entry' = e2 /\ UNCHANGED channel

Cast(e, v) ==
  Tally([e EXCEPT !.votes = (@ \ VotesOf(@, Wallet(v))) \cup {v}])

\* A wallet that has voted may only improve its vote; one that has not is
\* turned away once the consensus has triggered.
Welcome(e, v) ==
  LET mine == VotesOf(e.votes, Wallet(v)) IN
  IF mine = {} THEN ~e.triggered ELSE \A old \in mine : ShouldReplace(old, v)

SubmitSignal(v) ==
  \E min \in Mins :
    LET e == EntryFor(min) IN
    IF Welcome(e, v) THEN Cast(e, v) ELSE entry' = e /\ UNCHANGED channel

Without(votes, tx) == {v \in votes : v.tx # tx}

\* The flag is recomputed from the votes that are left, expired or not.
RejectSignal(tx) ==
  /\ LET e == [entry EXCEPT !.votes = Without(@, tx)] IN
       entry' = IF entry.here THEN [e EXCEPT !.triggered = Reached(e)] ELSE entry
  /\ rejected' = rejected \cup {tx}

\* One pass of the cleanup task over the entry.  Its second rule, for triggered
\* entries all of whose votes are past twice the timeout, never applies: such
\* votes are gone by then.
Swept(e) == IF Fresh(e.votes) = {} THEN NoEntry ELSE [e EXCEPT !.votes = Fresh(@)]

Cleanup ==
  /\ entry.here
  /\ entry' = Swept(entry)
  /\ UNCHANGED <<seen, rejected, channel>>

(***************************************************************************)
(* The trade loop                                                          *)
(***************************************************************************)

\* Mutation of ShouldSkip: a landed transaction does not bar its earlier copy.
ShouldSkipSame(tx, landed) ==
  IF landed THEN seen[tx].landed ELSE seen[tx].pre

\* should_skip_signature: each copy once, and none before execution after the
\* one that landed.
ShouldSkip(tx, landed) ==
  seen[tx].landed \/ (~landed /\ seen[tx].pre)

Note(tx, landed) ==
  /\ ~ShouldSkip(tx, landed)
  /\ seen' = [seen EXCEPT ![tx] = IF landed THEN [@ EXCEPT !.landed = TRUE]
                                  ELSE [@ EXCEPT !.pre = TRUE]]

\* A trade turned away by a filter has left its mark in the signature cache.
DeliverFiltered(tx, landed) ==
  /\ Note(tx, landed)
  /\ UNCHANGED <<entry, rejected, channel>>

DeliverVote(tx, landed, shape, age) ==
  /\ Len(channel) < ChannelBound
  /\ Note(tx, landed)
  /\ SubmitSignal(NewVote(tx, shape, landed, age))
  /\ UNCHANGED rejected

\* Only a transaction that landed is known to have failed.
DeliverFailure(tx) ==
  /\ Note(tx, TRUE)
  /\ RejectSignal(tx)
  /\ UNCHANGED channel

Deliver(tx, landed, shape) ==
  IF ~shape.pass THEN DeliverFiltered(tx, landed)
  ELSE \E age \in 0..MaxDelay : DeliverVote(tx, landed, shape, age)

\* The signature cache drops what it has not seen for ten seconds.
Forget(tx) ==
  /\ seen[tx] # Unseen
  /\ seen' = [seen EXCEPT ![tx] = Unseen]
  /\ rejected' = rejected \ {tx}
  /\ UNCHANGED <<entry, channel>>

\* The consumer takes a trigger and spawns a buy.
TakeTrigger ==
  /\ channel # <<>>
  /\ channel' = Tail(channel)
  /\ UNCHANGED <<entry, seen, rejected>>

Older(v) == [v EXCEPT !.age = IF @ < Timeout THEN @ + 1 ELSE @]

Tick ==
  /\ Fresh(entry.votes) # {}
  /\ entry' = [entry EXCEPT !.votes = {Older(v) : v \in @}]
  /\ UNCHANGED <<seen, rejected, channel>>

-----------------------------------------------------------------------------

Next ==
  \/ \E tx \in Txs :
       \/ \E landed \in BOOLEAN, shape \in Shapes : Deliver(tx, landed, shape)
       \/ DeliverFailure(tx)
       \/ Forget(tx)
  \/ TakeTrigger
  \/ Cleanup
  \/ Tick

Spec == Init /\ [][Next]_vars

\* Time passes and the cleanup task wakes up every ten seconds.
FairSpec == Spec /\ WF_vars(Tick) /\ WF_vars(Cleanup)

(***************************************************************************)
(* Properties                                                              *)
(***************************************************************************)

\* Every variable has its type; an entry that is gone left nothing behind, and
\* a wallet has one vote in it (VoteTally counts votes for wallets).
TypeOK ==
  /\ entry \in Entry
  /\ \A u, v \in entry.votes : Wallet(u) = Wallet(v) => u = v
  /\ entry.here => entry.min \in Mins
  /\ ~entry.here => entry = NoEntry
  /\ seen \in [Txs -> [pre: BOOLEAN, landed: BOOLEAN]]
  /\ rejected \subseteq Txs
  /\ channel \in Seq(Trigger)

\* Through upgrades, rejections, expiry and cleanup an entry never sits on
\* enough votes without having triggered.
ReachedMeansTriggered == entry.here /\ Reached(entry) => entry.triggered

\* The flag, which shuts out further wallets, is never set but with a trigger
\* to the buy side: reject_signal, which recomputes it, cannot set it silently.
ConsensusReported ==
  [][entry'.triggered /\ ~entry.triggered => Len(channel') > Len(channel)]_vars

\* A vote whose transaction is known to have failed is out, and no copy of the
\* transaction arriving late brings it back while it is remembered.
RejectedStaysOut == \A v \in entry.votes : v.tx \notin rejected

\* Through copies, upgrades, rejections, expiry and late handling, the engine
\* keeps the promise of Voting: one trigger for a consensus, with the vote that
\* completes it, to exactly the wallets whose votes count.
WalletsOf(votes) == {Wallet(v) : v \in votes}

Calls(c) == [i \in 1..Len(c) |-> c[i].wallets]

Promise == INSTANCE Voting WITH
  min     <- entry.min,
  voters  <- WalletsOf(entry.votes),
  counted <- WalletsOf(Counting(entry.votes)),
  called  <- entry.triggered,
  calls   <- Calls(channel)

ImplementsVoting == Promise!Spec

\* Whoever is named in a trigger has, when it is sent, a counting vote that has
\* neither expired nor failed; the wallets are enough and all different.
Justified(t, e) ==
  /\ Cardinality(t.wallets) >= e.min
  /\ \A w \in t.wallets :
       \E v \in e.votes : /\ Wallet(v) = w /\ v.counts
                          /\ v.age < Timeout /\ v.tx \notin rejected
  /\ \E v \in e.votes : v.tx = t.canonical

TriggerJustified ==
  [][Len(channel') > Len(channel) => Justified(channel'[Len(channel')], entry')]_vars

\* A triggered consensus is over some day, so that the mint can be voted on
\* again: upgrades of its votes do not keep it alive for good.
TriggeredEnds == entry.triggered ~> ~entry.triggered

\* How long a vote may last: until it is as old as it can get, and as often anew
\* as it can be upgraded, by a higher score or the landed copy.
Quality(v) == 2 * v.score + Weight(v.landed, 1)

TimeLeft(v) == (31 - Quality(v)) * (Timeout + 1) + (Timeout - v.age)

\* The safe half of TriggeredEnds: while the flag stays up, no wallet joins and no
\* vote gets time it did not have; time that passes takes some off every vote
\* that has not expired.
TriggeredRunsOut ==
  [][entry.triggered /\ entry'.triggered =>
       \A v \in entry'.votes : \E old \in entry.votes :
         /\ Wallet(old) = Wallet(v)
         /\ TimeLeft(v) <= TimeLeft(old)
         /\ Tick /\ old.age < Timeout => TimeLeft(v) < TimeLeft(old)]_vars

(***************************************************************************)
(* The inductive invariant                                                 *)
(***************************************************************************)

\* A rejection is remembered with the landed copy that brought it.
RejectedIsSeen == \A tx \in rejected : seen[tx].landed

ConsensusInv ==
  /\ TypeOK
  /\ IsFiniteSet(entry.votes)
  /\ RejectedIsSeen
  /\ ReachedMeansTriggered
  /\ RejectedStaysOut

=============================================================================
