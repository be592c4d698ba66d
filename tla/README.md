# Verification of the Solana copy-trading bot

TLA+ models of the bot in `src/`, model-checked with TLC and, where the results
should hold for every size, proved with TLAPS. Line numbers below are those of
the files under `src/src/`.

The program follows wallets on Solana. It sees their trades in a stream of
transactions (some before they are executed), decides for each *group* of
wallets whether to copy a trade — at once, or after enough wallets of the group
have bought the same mint — buys, waits for the tokens, watches the price and
sells. All of it runs as tokio tasks that share concurrent maps (`DashMap`) and
channels; between any two `await`s, and between any two operations on a map,
every other task may run. That, and a chain that may execute a transaction
late, never, or with an error, is what is hard here, and what the models are
about.

## Inventory

| component | state | operations | hard because |
|---|---|---|---|
| **Positions** `autosell/position.rs`, `manager.rs` | map (group, mint) → position: state, tokens, balance before the buy, sell attempts | add, confirm, fail, mark selling, restore, suspend, partial sell, close; exit monitors; fallback monitor | five kinds of task write the same position; the map's locks are per shard and not reentrant |
| **Sell executor** `tx/sell_executor.rs` | local variables of one sale | sale in up to three attempts, Pump.fun or Jupiter, balance wait, partial sale from Telegram | works for minutes on a snapshot; two of them run at a time; the token account is shared by all groups |
| **Buy confirmation** `tx/confirm.rs` | local variables of one task | poll cache and RPC, assign the amount, or give up after 10 s | infers a buy from a balance other tasks move |
| **Consensus engine** `consensus/engine.rs` | map (group, mint) → votes, triggered flag, minimum | submit, reject, cleanup every 10 s | votes expire between cleanups, are upgraded and retracted; a trigger must be sent exactly when due |
| **Trade loop** `main.rs` 522–1040 | signature cache, trigger channel | filter, skip seen copies, vote, reject, buy directly | every transaction may come twice, in either order, and may have failed |
| **Buy intake** `main.rs` 60–156, 232–322 | permits, claims per (group, mint) | permit or drop, claim, finish, sweep | the sweeper drops claims by age while buys run |
| **execute_buy** `main.rs` 1040–1477 | none of its own | quote, wait for accounts, build, send, insert the position, start its confirmation | acts on caches filled by others |
| **Prefetch and curve fetch** `processor/prefetch.rs`, `main.rs` 158–230 | caches, one pending fetch per mint | fetch once, wake the waiters | wake-ups that come before the wait; any trade of the mint replaces the accounts a buy will use |
| **Account subscriber** `grpc/account_subscriber.rs` | four maps, two caches, the stream's filter | track, untrack, prune, resubscribe, apply updates | maps are changed one by one; the filter follows by a count |
| **Trade stream** `grpc/subscriber.rs` | target wallets, connection | subscribe, resubscribe, parse | target changes against connect and wait |
| **Filters** `filter/` | profile caches, mints in flight, a permit, the metadata cache | one verdict per trade; lookups that start fetches | what is not known at a trade passes it, so answers have to come; they come and expire at any time |
| **Developer index** `dev_index/` | a sled database of counters | record creation, migration, Twitter link; backfill | three kinds of writer, read-change-write, crashes between two writes |
| **Groups** `groups.rs` | map, the selected group, a file written as a whole | edit, add, delete, select; save and load | kills and failed writes at any point of a command |
| **Statistics** `group_stats.rs` | map, written to a file | record opened and closed trades | — |
| **Telegram bot** `telegram.rs` | chat state, the update offset | sell buttons, /sellall, group editing | its sells run beside the signal consumer; an unconfirmed batch of commands comes again |
| **Persistence** `autosell/persistence.rs` | a file | save (never loaded) | — |
| **Sender, builder, blockhash, Jupiter** `tx/` | latest blockhash | send to relays, sign, quote | pure I/O |
| **Processors** `processor/` | none | account layouts, copying another wallet's instruction, quotes | positions in lists of accounts, told apart by their length; rounding |
| **Config, utilities** | environment | parsing | — |

How they meet: the trade stream feeds the trade loop, which feeds the consensus
engine and, directly or by a trigger, the buy intake; a task of the intake that
holds a claim runs `execute_buy`, which inserts a position and starts its
confirmation; the account subscriber's stream fills the caches that
confirmation and sales read and sends updates to the exit monitor, which sends
sell signals to the one signal consumer; Telegram sells on its own task. The
modules below are the stations of that way at which tasks compete — the wallets
that are followed, what is known of a token's creator, votes, claims, positions,
and the accounts the bot follows — and what a buy is made of.

What makes each correct:

* positions — one sale at a time; a sold position stays sold; nobody waits for
  ever; a position is held as bought only once something was bought; a closed
  position is one without tokens;
* consensus — a consensus reached is reported, a reported one is real, failed
  trades do not vote, an old consensus does not shut out a new one;
* intake — one buy of a mint for a group at a time, a pause after it, and no
  claim that nobody will drop;
* account subscription — a tracked account gets updates, an untracked one leaves
  no balance behind;
* groups and trade stream — a group is always selected, the file brings back
  what was answered, the wallets of the groups and no others are followed;
* filters and developer index — a migration is counted, one fetch per mint, and
  an answer for each mint asked for;
* processors — what we sign names our own accounts, each in its place, and a
  quote is never better than the curve.

`PROJECT.json` lists the single hazards with their lines.

## Modules

| module | models | theorems in | instances in |
|---|---|---|---|
| `AutoSell` | the positions of one mint: buy, confirmation, fallback monitor, exits, both selling tasks, chain and cache | `AutoSellProofs` | `MCAutoSell`, `autosell_*.cfg` |
| `Sales` | what the selling tasks promise: an abstract specification | `AutoSellProofs` | as a property of `autosell_safety` |
| `Consensus` | the votes on one (group, mint): trade loop, signature cache, engine, trigger channel | `ConsensusProofs` | `MCConsensus`, `consensus.cfg` |
| `Voting` | what the engine promises the buy side: an abstract specification | `ConsensusProofs` | as a property of `consensus` |
| `BuyIntake` | permits, claims, sweeper | `BuyIntakeProofs` | `MCBuyIntake`, `buy_intake.cfg` |
| `Buys` | what the intake promises: an abstract specification | `BuyIntakeProofs` | as a property of `buy_intake` |
| `Pumpfun`, `Buying` | the accounts and quotes of a Pump.fun buy and sale; `Buying` puts them into the hands of `BuyIntake`'s tasks | `BuyingProofs` | `MCBuyIntake`, `buy_intake.cfg` |
| `AccountStream` | the accounts followed: track, untrack, prune, balance cache, stream | `AccountStreamProofs` | `MCAccountStream`, `account_stream*.cfg` |
| `Groups` | the groups with their file and the Telegram task | `GroupsProofs` | as a part of `Monitoring` |
| `TradeStream`, `Monitoring` | the stream of transactions; stream and groups with the task between them | `MonitoringProofs` | `MCMonitoring`, `monitoring.cfg` |
| `DevIndex`, `DevProfile`, `EntryFilters` | the local index; the profile service; the filters that use one or the other | `EntryFiltersProofs` | `MCEntryFilters`, `entry_filters.cfg` |

### AutoSell

Mints share nothing but locks, so the mint is fixed and `pos` is indexed by
group. `pos[g]` has the fields of `Position` that control reads: `st` (state),
`tok` (token_amount), `pre` (pre_buy_ata_balance), `tries` (sell_attempts),
`skips` (zero_balance_sell_skips), `sold` (a sell_signature is set) and `buy`,
which buy made it. "Absent" is no entry; `Pending` and `Submitted` never reach
the map, because `execute_buy` inserts positions already `Confirming`.

* The operations of `position.rs` and the methods of the manager that wrap them
  (`MarkActive`, `MarkSelling`, `RestoreAfterSellAttempt`, ...) are operators on
  a position, with the code's own guards — in particular *which* of them ignore
  the state: restore, suspend and mark_failed do.
* `Buy` is the end of `execute_buy` (1295–1429); `ConfirmSees`,
  `ConfirmSuccess`, `ConfirmFailed` are the confirm task, which ends with either.
  A poll and the decision on what it saw are two steps.
* `FallbackRead`, `FallbackApply`, `Retain` are the fallback monitor's
  confirm check and the retention at the end of its scan. `FallbackApply` ends
  in "wedged" where the code iterates over the map it has locked; the guard
  `~Wedged` on every step that uses the map says that no other task gets
  through either.
* `PriceExit`, `CappedExit`, `ManualExit` send sell signals under the state
  guards of `check_exit_conditions`, the lifetime/migration/follow-sell rules
  and `/sellall`. Prices are not modelled: a rule may fire whenever its guard
  allows.
* `TakeSignal`, `ReadBalance`, `MarkForSale`, `SendSale`, `SaleConfirmed`,
  `SaleErrorSeen`, `SaleTimedOut`, `Cleanup` are `handle_sell_signal` cut at its
  awaits, for the signal consumer ("exec") and the Telegram task ("tg");
  `TgSellPart`, `MarkForPart`, `SendPart` are `handle_partial_sell` below 100 %.
  `job[s]` holds the snapshot it works on.
* `LandBuy`, `LandSale`, `LandStray`, `BalanceUpdate` are the chain and the
  account stream. A transaction of a timed-out attempt stays in flight as a
  stray and may land at any later time or never.

Simplifications, all on the side of more behaviours or of none that matters:
the number of polls is left open (a time-out may come at any time); a balance
query returns the chain's balance or 0 (the code's value for an error); the
cache may be updated also after the mint was untracked; the balance before the
buy is read in the step that inserts the position; the position's price,
entry value and token info, which no guard modelled here reads, are left out;
the wedged map stops every user of it, though the code's lock is on one shard
(for one mint and one group it is the same shard). A branch that cannot be
taken is left out: every position has a sell snapshot, since a buy without
prefetched accounts is not sent.

`Sales` says what this comes to without states, attempts and snapshots: who
sells the position of which group, and whether that position is there (`held`),
gone (`over`: sold, or dropped by the retention), not bought yet, or bought more
than once (`excused`). `Begin` wants a held position nobody sells; `End` may
have been the last sale. The refinement mapping (`Phase`, `Promise` in
`AutoSell`) reads the phase off `pos` and `buys`, and takes the tasks that have
marked the position and not let go of it (`SellsNow`) for `selling`: a granted
`mark_selling` is `Begin`, close, partial sell, restore and suspension are `End`,
`Retain` is `Drop`, and what the confirm task, the fallback monitor and the
chain do is nothing Sales can see.

### Consensus

`entry` is the engine's entry for the key, with `votes`, `triggered` and `min`
(fixed when the entry is made, though the group's setting may change: each
submission picks one of `Mins`). A vote is its transaction `<<wallet, slot>>`,
canonical score, whether it counts, whether it landed, and its age in ticks. `seen`
is the signature cache, `rejected` a history variable: the remembered
transactions whose failure the engine was told of, `channel` the unbounded
trigger channel (bounded in the guard of `DeliverVote`, `ChannelBound`).

`Deliver*` are one turn of the trade loop for one copy of a transaction:
signature cache, filters, then submit or reject. `SubmitSignal` is the whole of
`submit_signal`: prune, find the wallet's vote, upgrade or add or turn away,
tally, trigger. `Forget` is the expiry of the signature cache; a forgotten
`<<wallet, slot>>` may stand for a late copy or for a new transaction. Ages
stop at `Timeout`. The engine's rule for triggered entries older than twice the
time-out is dead code (its votes would have been pruned before), as is
`revoke_signal` (no caller).

`Voting` says what this comes to in terms of wallets, without transactions,
scores, ages and caches: who has a vote, whose counts, whether the call went out
and which calls nobody has taken yet. A call comes with the vote that makes the
counted wallets enough and names exactly those; while it stands no wallet joins
and no other call is made; it is taken back when a withdrawal leaves too few, or
finds too few because votes expired before, and forgotten when the voting ends.
Both start the counting anew, so a mint can be called twice: what absorbs the
second call is `BuyIntake`. `ImplementsVoting` maps `min`, `voters`, `counted`, `called`
and `calls` to the entry and the channel.

### BuyIntake

`task` are the tasks `spawn_buy_execution` makes, `claims` the map
`GroupMintDedup`. Time is abstract: `GoIdle` (30 s without a touch),
`CooldownOver`, `QueueTimeout` may happen at any moment. Two history variables
serve the properties: `recent`, keys bought within the cooldown, and `orphans`,
keys whose claim the sweeper dropped while their buy was still running — which
the code allows, and which the properties therefore except.

`Buys` says the same without claims, permits or sweeper: who buys what, which
keys rest, and which are excused. The refinement mapping takes the tasks at
work on a key (`Works`) for `buying`, `recent` for `resting` and `orphans` for
`excused`. A start is `Begin`, a finish or a panic's end is `End`, the sweep of
a claim in use is `Excuse`; queueing, permits and all other sweeps are
stutters.

### Pumpfun and Buying

`Pumpfun` is a module of operators: what `processor/pumpfun.rs` computes for one
mint. An address is a tuple that says what it is the address of (`<<"ata",
w>>`), so that two addresses are equal exactly when what they are derived from
is. `BuyLayout`, `SellLayout`, `CashbackLayout` are the instructions wallets
send, of 18, 16 and 17 accounts, as the labels and the comments of the source
describe them; `Replaced` is `replace_user_pdas`, `Taken` the reading of a
mirror by its length, `FromMirror` and `Standard` the ways to build,
`ValidMirror` the comparison of a mirror with the derived accounts and its
trusted slots, `BuyResult` the choice at the end of `execute_buy` (1149–1252),
`SellFromMirror` the sale from the accounts kept with the position.
`ConstantProduct` is the quote in both directions. Bytes, amounts with
slippage and the derivation of addresses are left out. The 17 accounts of an
older BUY and of a cashback SELL are the same number; the properties speak of
18-account BUYs and of SELLs without cashback as what is copied.

`Buying` states what this means for a task of `BuyIntake`: whatever accounts,
curve and trade it finds when it is in `execute_buy`.

### AccountStream

`known` stands for the two maps from account to mint (`bonding_curve_to_mint`,
`ata_to_mint`), `subscribed` for `subscribed_accounts`, `touched` for
`mint_last_touched` with `stale`, its mints idle for longer than candidates may
be, `balances` for the keys of `ata_cache`. `permit` is the one permit
`notify_one` leaves in `subscription_notify`, `stream` the task in `subscribe`:
where it is, the filter it requested last and `last_subscribed_count`.

* A tracking task is a call of `warm_buy_caches` (trade loop or trigger
  consumer): for the bonding curve and then for the token account `TrackMap`,
  `TrackTouch`, `TrackSubscribe`, `TrackNotify`, one map operation each.
* An untracking task is `untrack_mint`, started by `CleanUp` (the end of a sale)
  or `Prune` (every 15 s, mints untouched for two minutes): `UntrackLook` searches a map,
  `Unmap` and `Unsubscribe` remove what was found, then `DropBalance` and
  `Untouch`. Positions are left out, and with them two guards that are checked
  before and not again: a cleaner finds no open position, a pruner's set of
  active mints does not hold the mint. Both may be true at any moment and false
  at the next.
* `Check` ... `List` are the beginning of `subscribe`; `Connected`,
  `Disconnected` its end or success; `Resubscribe` the 200 ms check. A look at
  the map that ends in `notified()` is two steps. A request that could not be
  sent leaves the connection `broken` and the count as if it had been.
* `BalanceUpdate` is `handle_account_update` for a token account. It may also be
  for an account that is no longer (or not yet) in the stream's filter, as
  updates are under way when a filter changes. The reads of both maps and the
  write of the cache are one step, because the code holds both entries' locks
  while it writes.

Simplifications: iterating over a concurrent map is one step (a key inserted
during the iteration counts as inserted after it); the second removal of the
balance by a cleaner and by `untrack_mint` differ only in time and are both
there; the bonding-curve cache, which other tasks fill too, and the slots of
updates are left out.

### Groups, TradeStream, Monitoring

`book` is what `GroupManager` holds, `file` copy_groups.json, which is
"absent", "torn" (emptied and not yet filled) or "whole". The Telegram task
carries out the commands of one `getUpdates` answer one after another: `batch`
are those taken up so far, and `tg` says at which step of one the task is and
how many of `batch` it has handled. `TakeCommand` takes the next one, any at
all, since what else the answer holds is not looked at before; `Handle` applies
it; the file is written in two steps (`EmptyFile`, `FillFile`, or `WriteFails`,
which is only logged). `Poll` is the next `getUpdates`, whose offset confirms
the whole batch; a refused command saves nothing. `Restart` kills the process
between any two steps. It starts with `Load` of the file and with offset 0, and
is sent the whole batch again (`Redo`, in its order), perhaps with commands
after it that were not in the first answer; it may be killed in that, too.
History variables: `unsaved`, that the last write failed, and `once`, the book
each command of the batch would have led to if carried out once (a set, empty
when a restart came upon a lost write, so that nothing is said then).

What a second delivery changes depends on the batch. `Steady` names those it
does not: no group added or deleted, and none selected after a command for "the
selected group". `[add a wallet, select g2]`, both saved before the kill, puts
the wallet into g2 as well; `[add a group]` adds another; `[select g2, select g3,
delete g3]` leaves g2 selected the first time and the group First names the
second time, for the selection of g3 is refused then. `RedoneLikeOnce` says
that for steady batches there is nothing of the kind, whatever was killed when.

`TradeStream` is `GrpcSubscriber`: `targets` and the task `sub` with what it
asked for last (`asked`), what the server was told (`filter`), whether the
connection is `broken`, and `missed`, a history variable: a wake-up came
between the look at the empty list and the call of `notified()`, which
`notify_waiters` does not keep. `Monitoring` adds the task of `main.rs` that
compares the groups' wallets with the stream's list every 200 ms
(`SyncTargets`, `SyncNotify`) and starts all tasks anew in a restart.

Simplifications: a group is its wallets and one flag; ids
are numbers (the code sorts "g10" before "g2", which only decides which group
is the first); the blocklist and the 0slot switch, saved in the same file, are
left out; so are the menus, where a button names a group that may be gone by
then — the commands with a group's number are those.

### DevIndex, DevProfile, EntryFilters

`DevIndex`: `db` is the sled database, by kind of key, `disk` what a crash
would leave of it: `Flush` may come at any moment, and `Crash` returns to it.
The monitor's `record_migration` is three operations (`LookUp`, `Bump`, `Mark`),
`link_twitter` three more (`ReadMints`, `WriteMints`, `WriteBound`), each in one
task per creation the backfill finds. `RecordCreation` does what
`record_creation` does: it inserts the mint and then asks whether it was there.

`DevProfile` is `GmgnProvider`: a cache with expiry, the mints in flight, the
tasks that fetch, and the one permit of the request limiter. That an answer is
kept for a minute or an hour is `Expire`, which may come at any time after the
task that stored it is through.

`EntryFilters` is `evaluate` for one trade at a time, as in the trade loop:
`LookSocial`, `AskSocial`, `LookMetadata`, `LookDev`, `AskDev` are its reads and
the tasks they start. Numbers and limits are abstracted: a profile that is
known may or may not be beyond a limit. `provider` is fixed at the start; with
the index the filters read `IndexStats` and change nothing, so that run is the
index alone. `LookMetadata` is one step for the two looks at the metadata cache
of a miss, between which nothing that matters can come. `skipped` is a history
variable: the creations whose transaction the backfill could not get.

## Runs

| run | instance | shows |
|---|---|---|
| `autosell_safety` | 1 group, 1 buy of 2 tokens, both sellers, partial exits and the 50 % button, 1 attempt per sale | types; no double sale; closed is final; nothing Active before a buy landed, but for a part sold by button; the refinement of `Sales` |
| `autosell_liveness` | the same without Telegram, estimates 0 and 2, 2 attempts per sale, 1 automatic try, 1 empty balance | sales end and leave the position free; no position stays Selling or Confirming |
| `autosell_stuck_selling` | Telegram on | **violated**: a position marked Selling that nobody sells |
| `autosell_fallback` | 1 group, fair | **violated**: the fallback monitor locks itself out |
| `autosell_false_confirm` | 1 group | **violated**: an RPC error confirms a sale |
| `autosell_sold_out` | 2 groups, one mint | **violated**: sold out but Active |
| `consensus` | 3 wallets, 1 slot each, 3 shapes of trade, minimum 2, time-out of 2 ticks, 1 pending trigger | failed votes stay out, triggers are justified and triggered entries end; the refinement of `Voting` |
| `buy_intake` | 3 tasks, 2 keys, 2 pools of 2 permits; 2 wallets, recipients of the fee and of the buyback fee; reserves and amounts up to 8 | the intake properties, the refinement of `Buys`, the accounts and quotes of buys and sales |
| `account_stream` | 1 mint (2 accounts), 1 tracking task, 1 task that cleans up or prunes, fair | no balance left, the stream starts, growth is followed |
| `account_stream_count` | 2 mints, 1 tracking task, 1 cleaner, fair | **violated**: a tracked account that is never requested |
| `monitoring` | groups 1–3, commands that name none or the second, settings switched off only; one wallet; batches of up to 2 commands; one kill or failed write; fair | a group is selected, the file recovers, a steady batch delivered again ends as if delivered once; what is remembered as requested was sent; wallets get into and out of the filter |
| `entry_filters` | 1 creator, 2 mints with one Twitter account, one of them with an old curve; 1 of them traded; 2 fetch tasks, 1 metadata fetch at a time, 1 crash; fair | counters against marks, the backfill is whole; one fetch per mint, an answer for each lookup |

Bounds, and why they are enough. *AutoSell*: one buy suffices for everything
that is about one position, since each hazard is a race of two sellers,
confirmation and monitor on it; two tokens are the least that can be sold in
parts; `TryBound` 1 still lets both sellers start, because it limits when a
sale is *requested*; with the cap on attempts at 2 a failed sale restores
(`autosell_safety`), at 1 it suspends (`autosell_liveness`); two groups are there
where the shared account is the point. *Consensus*: with a minimum of two, three wallets are the least that
leave one over to be turned away, replaced or to complete a second consensus;
one slot per wallet, together with `Forget`, gives late copies and new
transactions. *BuyIntake*: three tasks on one key are the owner, the intruder
after a sweep and one more; the second key and pool show that nothing leaks
over; its rest does not depend on the data `Pumpfun` is checked with: two values
of each kind of address are one that is ours or the expected one and one that
is not, and reserves up to 8 meet every case of rounding the proof
distinguishes. *Monitoring*: two commands
are the least of which one may undo or redirect the other; the kill may come in
the first, between them or after both, and leaves one, both or none in the file.
Three groups leave one selected, one deleted and one added (`TakeCommand` keeps
room for groups that are added again). One wallet suffices, as wallets never
meet but in a set that is compared as a whole. `MCGiven` leaves out commands that
are like others but for a name: all groups, commands and longer batches, killed
in any number of times, are the proofs' part. *EntryFilters*: two tasks are the fetch of a
mint and the one that must not start; two mints of one account and one creator
are the least for overlapping updates of its list; only one of them is traded,
because with two the fair run is too large: its fetch has the
permit to itself there; that a task never keeps the permit, and ends in seven
steps, is proved for any number of mints and tasks (`PermitComesBack`, `LookupIsFinite`); a crash after a crash starts from a
disk state the first could have left. *AccountStream*: all its races are between one task that tracks, one that
untracks and the stream, over the two accounts of one mint; more tasks and mints
are the proofs' part. Deadlock checking is off for `AutoSell` only: buys, exits and chain
events are bounded there, so it may come to rest.

Each property of a passing run has a mutant in `PROJECT.json`: a named
definition beside the original (comment "Mutation of ...") with which TLC finds
the property violated.

### Violations found

* **Stuck in Selling** (`SellingHasOwner`). Two sales read a position; the
  second one's snapshot says Selling; when it later gets to mark the position,
  fails, and restores its snapshot, the position is Selling again, without an
  owner, and no signal is sent for it any more. A partial sale whose amount
  `apply_partial_sell` refuses (none, or more than the position holds) leaves
  it so, too; this second cause does not need the Telegram task, and
  `SaleLetsGo` and `PositionsMoveOn` except it (`SaleFits`).
* **Fallback monitor** (`FallbackReturns`). `manager.rs` 433–447 iterates over
  the positions map under a `get_mut` guard into it.
* **False confirmation** (`ConfirmedSaleLanded`). A failed balance query reads
  as 0 and confirms.
* **Sold out, not closed** (`SoldOutIsClosed`). The rest on the shared account
  decides whether a sale was full.
* **Resubscription by number** (`TrackedIsFollowed`). One account leaves, one
  comes, the number is the same: the new one is not requested until the number
  changes or the stream reconnects.

Each is a property a line of the repository's comments or of
`PROJECT_SEQUENCE.md` promises; `PROJECT.json` quotes it.

### Disagreements of comments and code

Places where a line of the repository says one thing and the code does another,
which no run of its own is spent on. The models have what the code does.

* *Another group's tokens.* The confirm task takes a balance above the one before
  its buy for the confirmation (`tx/confirm.rs` 226), also when its query of the
  signature knows nothing of the transaction yet. Two groups that buy one mint have one account: the first buy
  to land confirms both positions, and the second stays Active though its
  transaction may fail. The comment on `mark_active` (`position.rs` 199) says it
  follows a confirmation on chain. What does hold, and is checked and proved, is
  `ActiveNeedsLanding`: *some* buy of the mint has landed.
* *Cashback.* The comment above `build_sell_instruction_from_mirror`
  (`pumpfun.rs` 872–874) says `is_cashback` is ignored, as there is no cashback
  path any more; the code (971–979) adds an account for it, as the comments
  inside describe, and `sell_executor.rs` 203 passes what the curve says.
  `SellIsPlaced` is about what the code builds, in both modes.
* *No data on links.* The comment on `has_social` (`dev_profile_gmgn.rs` 64–66)
  says that an answer without link data is also treated as "no links";
  `evaluate` takes it for unknown, looks at the metadata and, when that knows
  nothing, lets the trade pass, in line with its own comment
  (`filter/mod.rs` 82). `LookSocial` does the same; no property is about it.

Some passing properties record, or except, what the code does and a reader may
not expect: `MigrationsCounted` (a crash
between `Bump` and `Mark` counts a migration twice), `WalletFollowed` (but for
one lost wake-up), `RedoneLikeOnce` (but for the batches
named under Groups),
`ActiveNeedsLanding` (but for a part sold by button, which asks for no balance
and leaves an unconfirmed position Active on its estimate), `MintsLinkedOnce`
(counts that are never too high; a lost update leaves them too low),
`RestartRecovers` (but after a failed write; a kill between the emptying and
the filling of the file loses all groups — the command was not answered then).
That no created token is ever counted by the local index, so that its limit
turns nobody away, needs no run: `NothingCounted` proves it.

## Fairness

`AutoSell!Fairness` is weak fairness of every step of a spawned task that can
move — the tokio scheduler runs ready tasks, every await in these tasks has a
time-out — and of the fallback monitor, which scans in a loop. Nothing is
assumed of the chain, the streams, the users, or of exit rules: `SaleEnds` and
`PositionsMoveOn` hold with a chain that never executes anything.
`FallbackRead(g)` is fair for each group, since a scan visits every position.
`Consensus` assumes that time passes and the cleanup task runs every ten
seconds. `AccountStream` assumes that spawned tasks and the stream's task move,
that a stream that keeps trying gets connected (strong fairness of `Connected`,
because each attempt may also fail), and that a connection no request can be
sent on is noticed, by keep-alive. `Monitoring` assumes the same of its stream
and that the copying task runs; nothing of Telegram, of kills, or of writes:
`WalletFollowed` and `LeaverDropped` do not need the Telegram task to move.
`EntryFilters` assumes that the trade loop goes on (it does not wait in
`evaluate`), that requests to the service time out, and that its permit is
handed out in turn (tokio's semaphore is fair; strong fairness of `Acquire`,
as the permit comes and goes); nothing of expiry, metadata or the index. The
liveness properties of `AutoSell` say "or the map is wedged": that the fallback
monitor can lock it for good is a finding of its own (`autosell_fallback`).

## Proofs

What TLC shows for small instances is proved for every value of the constants,
under the assumptions the modules name (`BoundsAssumption`, ...): amounts are
natural numbers, buys bring at least one token, a minimum for consensus is at
least two, delays are shorter than the time-out, each pool has a permit.

* `AutoSellProofs`. `TypeCorrect`: `TypeInv`, which is `TypeOK` and three facts
  the types need — a confirm task about to report has seen *more* than the
  balance before the buy, a selling task at work has a position that existed
  when it began, an absent position is empty. `ExclusiveSale` and `FinalClose`
  rest on `SaleInv`: a position being sold is Selling, Failed or Absent
  (`SectionMarked`), so that no one else can be granted `mark_selling`, which
  asks for Active or Confirming; nobody sells a sold position (`SoldUnowned`),
  so that no restore of a stale snapshot brings it back. The proof sorts all
  steps (`MoveStep`) into buys and three kinds of move: quiet (nobody starts or
  ends a sale; a position fails, is confirmed or dropped), the claim of one task
  for one group, and its release. Both
  hold per group that bought once; a rebuy replaces the position under its
  tasks, and nothing in the code protects it.
  `SalesImplemented`: the same moves are the steps of `Sales` under the mapping
  above. A claim is an allowed `Begin` by `SectionMarked`, `ClosedIsFinal` and
  `UnboughtIsIdle`; a release is an `End` because nobody sells a sold position;
  a quiet move is a `Drop` or a stutter because nothing brings a gone position
  back.
  `SaleEndsUnmarked` (without a Telegram bot) rests on `SnapshotSellable`: the
  Telegram task never starts, and a snapshot of the signal consumer says Active or
  Confirming, or is of a position that cannot be marked, whatever the others do to
  it; so what `GiveUp` restores is never Selling. With a bot it does not hold,
  which is the finding above. `ActiveOnceLanded` is
  about any number of groups on the shared account, buys, rebuys and both sellers:
  until some buy lands every balance anyone sees is zero (`NothingThere`), so
  that no confirm task has anything to report and no sale gets beyond asking
  for its balance; what is left are parts sold by button, which do not ask, and
  which the property excepts. With two groups the state space is beyond what TLC
  finishes, so there the theorem alone speaks.
* `ConsensusProofs`. `ConsensusInv`: at most one vote per wallet, finitely many;
  enough counting votes imply the flag; a rejected transaction has no vote, and
  its landed copy is remembered, which is why no other copy gets through. The
  action properties `FlagIsReported` and `TriggersAreJustified` follow from it:
  reject can clear the flag but not set it, because fewer votes that reach the
  minimum would have done so before.
  `VotingImplemented`: since each wallet has one vote, wallets are counted as
  votes are (`EnoughIsReached`) and fewer votes are fewer wallets of the same
  side (`CountedOfFewer`); then `DeliverVote` is a `Vote`, `DeliverFailure` a
  `Withdraw` or nothing (the failed transaction is not the one the wallet's
  vote stands for), a cleanup pass `Expire` or `End`, and time alone a stutter.
* `BuyIntakeProofs`. `IntakeInv`: outside of `orphans` a running buy has a claim
  in flight and a recent one a cooling claim; a claim in flight is not cooling;
  and a claim in flight always has a task.

* `AccountStreamProofs`. `StreamTypes` includes that the remembered number is
  that of the accounts last requested, which needs the maps to be finite.
  `BalancesLeave` rests on `BalanceOwned`: every cached balance has its account
  in the map or a task that took it out and has yet to drop the balance. It is
  inductive because an update is handled only for an account that is in the map
  — the mutant that looks at the subscription alone loses it.

* `IntakeImplementsBuys` (in `BuyIntakeProofs`): with the mapping above, `Init`
  implies `Buys!Init` and each step, given `IntakeInv`, is a `Begin`, an `End`,
  a `Rested`, an `Excuse` or a stutter; `Begin`'s guard is `OneBuyAtATime` and
  `CooldownKept` in one.

* `BuyingProofs`. `PlacedBuys` and `PlacedSales` go through the accounts one by
  one, after a split by the length of what is copied and by which way of
  building `BuyResult` takes; the crucial facts are that a mirror's own wallet is
  replaced whoever triggered the buy, and that `ValidMirror` pins the slots that
  are not trusted. `SafeQuotes` is arithmetic of rounded division: the tokens
  quoted, sold back, are worth at most what was paid. As state-level theorems
  (`BuyPlaced`, `SellPlaced`, `QuoteSafe`) they follow at once.

* `GroupsProofs`. `EditorInv`: types; a selected group in memory (`GoodBook`,
  which `Load` makes of any file); the file equals the book when the task is
  through with a command and the write succeeded. `RedeliveryLikeOnce` rests on
  `RedoInv`, which sees a book as cells: which group is selected, whether a
  group is on, whether a wallet is in a group. A command of a steady batch
  writes one value into some cells, and which ones does not depend on the book
  it meets; so a cell the handled part of the batch has written has the value of
  the last command that wrote it, and one no command of the batch writes is as
  it was before — of the book, of the file and of `once`. When the batch is
  handled to its end, that leaves no cell to differ.

* `MonitoringProofs`. `MonitorInv` is `EditorInv` and: a live stream's `asked` is
  its `filter`.

* `EntryFiltersProofs`. `EntryInv` has three parts, one per module. The index:
  both database and disk are `GoodDb` — no created token counted, a finished
  backfill whole, the lists of each Twitter account free of repetition — and a
  metadata task has such a list in hand, so that overwriting a newer list with
  it loses entries but repeats none; a scan has yet to look at each creation
  that is not recorded. Since disk is always an earlier database, a crash
  keeps all of it. `CountsCoverMarks` adds the counters: the counts are a set with
  one element per counted migration, so that sums are cardinalities; `CountInv`
  says of the database *and* of the disk that there are as many counts as marks
  or more, by one per crash at most and one between `Bump` and `Mark`, and that
  a migration on its way is of a mint not marked yet. The service: a task at work is for a mint in flight and no
  other task is for the same.

* The safe halves of the liveness properties, in the same modules. TLAPS does not
  do fairness, but most of what could make these properties fail is a step that
  should not happen, and that it does not happen is proved:
  * `SaleIsFinite` (for `SaleEnds`): `StepsLeft`, at most 3 · `MaxRetries` + 3, falls
    with each step of the selling task and no step of another one changes it. It
    rests on `AllCounted`: an attempt under way is one of the first `MaxRetries`.
  * `TriggeredIsFinite` (for `TriggeredEnds`): while the flag is up no wallet joins,
    and `TimeLeft` — ticks until a vote is expired, and a whole time-out more for
    each upgrade that is still possible — rises for no vote and falls with each
    tick. An upgrade makes a vote young again but better, and there are 31
    steps from the worst vote to the best.
  * `NoWakeUpLost` (for `StreamStarts`), `WakeUpIsDue` (for `WalletFollowed`): a
    stream without accounts or wallets, when there are some, has its notification
    stored or on its way; for the trade stream, which uses `notify_waiters`, or
    has missed it, which is the gap `sub.missed` names.
  * `CountSuffices` (for `GrowthFollowed`): as long as no mint is untracked, the
    filter is a part of what is tracked, so that a filter of the right size is
    the right filter. The run `account_stream_count` shows why the hypothesis,
    `[]NothingUntracked`, is needed.
  * `LookupIsFinite` (for `LookedUpIsCached`): an asking filter leaves the mint in
    flight, its task (`OneFetchPerMint`) ends after at most seven steps of its own,
    and `AnswerInv` — a task about to leave has put its answer in the cache — is
    why the mint is not out of flight without one. `PermitComesBack` excludes
    that a task ends, or asks again, with the permit in its hands.

  What is left to TLC is what the scheduler owes: that the task, the clock or
  the clean-up goes on, as stated under Fairness. `PositionsMoveOn` and
  `LeaverDropped` have no such half here: their progress is spread over several
  tasks.

Only model-checked: the liveness properties themselves (`SaleEnds`,
`PositionsMoveOn`, `TriggeredEnds`, `StreamStarts`, `GrowthFollowed`,
`WalletFollowed`, `LeaverDropped`, `LookedUpIsCached`), and the violations, for
which one small instance is enough. Every other property of a passing run is a
theorem.

## Not modelled

* `execute_buy`'s waits for prefetched accounts, curve and blockhash: each is
  bounded by a time-out, and what comes of them, any of the things a buy may
  find, is `Buying`'s input. With them the fetch of a bonding curve by one task
  for several waiters, where a lost wake-up costs a waiter its time-out.
* Prices, PnL, the exact amounts and slippage, the bytes of instructions, address
  derivation, the relays and their HTTP calls: no state, or only I/O.
* The Raydium and PumpSwap processors, `synth_sell_mirror_for_buy`,
  `handle_create`, `revoke_signal`, `load_positions`: nothing that runs calls
  them. Since positions are saved and never loaded, a restart forgets them;
  the restarts of `Monitoring` and `DevIndex` are those of state that is loaded.
* The layouts external programs expect are known from the labels and comments
  of the source only.
* Decoding of transactions into trades, the matching of wallets to groups,
  statistics, notification texts, configuration.
* Several mints in one model (but for the locks they share nothing), panics,
  shards of the maps, the order of slots in account updates.

## What could come next

* A composition of `Consensus`' triggers with `BuyIntake`'s claims, where a second
  trigger of one mint is absorbed.
* The half-tracked states of `AccountStream` (subscribed without a mint, a mint
  without its subscription) that the next trade repairs, and the order of slots.
* Group statistics against the positions' events.
