--------------------------- MODULE AccountStream ---------------------------
(***************************************************************************)
(* The accounts the bot follows: AccountSubscriber's maps, the tasks that  *)
(* track a mint (warm_buy_caches) and untrack it (cleanup_mint_if_unused,  *)
(* prune_stale_candidate_mints), the balance cache the stream fills, and   *)
(* the stream's own life: wait, connect, resubscribe, end, reconnect.      *)
(*                                                                         *)
(* The maps are concurrent and are changed one operation at a time.  The   *)
(* two accounts of a mint, its bonding curve and the wallet's token        *)
(* account, have addresses computed from the mint, so an account is a      *)
(* pair.  Positions are left out: at any time the check for open ones may  *)
(* find none, because they open and close beside it.                       *)
(***************************************************************************)
EXTENDS Integers, FiniteSets

CONSTANTS
  Mints,      \* mints traded by the followed wallets
  NoMint,     \* not a mint: a task that works on none
  Trackers,   \* tasks that call warm_buy_caches
  Cleaners,   \* selling tasks, which end with cleanup_mint_if_unused
  Pruners     \* tasks that prune stale candidates (the program has one)

ASSUME NoMintAssumption == NoMint \notin Mints
ASSUME MintsAssumption == IsFiniteSet(Mints)

Untrackers == Cleaners \cup Pruners
Kinds      == {"bc", "ata"}
Accounts   == Kinds \X Mints

VARIABLES
  known,       \* bonding_curve_to_mint and ata_to_mint: accounts with a mint
  subscribed,  \* subscribed_accounts
  touched,     \* mint_last_touched
  stale,       \* its mints not touched for the time candidates may live
  balances,    \* mints with an entry in ata_cache
  tracker,     \* the tracking tasks
  untracker,   \* the untracking tasks
  permit,      \* the permit notify_one leaves in subscription_notify
  stream       \* the task in subscribe, with the filter it has requested

vars == <<known, subscribed, touched, stale, balances, tracker, untracker, permit, stream>>

TrackSteps == {"idle", "map", "touch", "subscribe", "notify"}
UntrackSteps == {"idle", "look", "unmap", "unsubscribe", "drop", "untouch"}

Task(steps) == [at: steps, kind: Kinds, mint: Mints \cup {NoMint}]

NoTask == [at |-> "idle", kind |-> "bc", mint |-> NoMint]

\* "empty": nothing to follow was found, notified() is not called yet;
\* filter: the accounts last requested; count: last_subscribed_count; broken:
\* the connection is gone, though the stream has not ended yet.
Stream == [at: {"check", "empty", "wait", "list", "connect", "live"},
           filter: SUBSET Accounts, count: Nat, broken: BOOLEAN]

NoStream == [at |-> "check", filter |-> {}, count |-> 0, broken |-> FALSE]

Init ==
  /\ known = {} /\ subscribed = {} /\ touched = {} /\ stale = {} /\ balances = {}
  /\ tracker = [t \in Trackers |-> NoTask]
  /\ untracker = [u \in Untrackers |-> NoTask]
  /\ permit = FALSE
  /\ stream = NoStream

(***************************************************************************)
(* track_bonding_curve, then track_ata                                     *)
(***************************************************************************)

Mine(t) == <<tracker[t].kind, tracker[t].mint>>

TrackGoto(t, step) == tracker' = [tracker EXCEPT ![t].at = step]

StartTrack(t, m) ==
  /\ tracker[t].at = "idle"
  /\ tracker' = [tracker EXCEPT ![t] = [at |-> "map", kind |-> "bc", mint |-> m]]
  /\ UNCHANGED <<known, subscribed, touched, stale, balances, untracker, permit, stream>>

TrackMap(t) ==
  /\ tracker[t].at = "map"
  /\ known' = known \cup {Mine(t)}
  /\ TrackGoto(t, "touch")
  /\ UNCHANGED <<subscribed, touched, stale, balances, untracker, permit, stream>>

TrackTouch(t) ==
  /\ tracker[t].at = "touch"
  /\ touched' = touched \cup {tracker[t].mint}
  /\ stale' = stale \ {tracker[t].mint}
  /\ TrackGoto(t, "subscribe")
  /\ UNCHANGED <<known, subscribed, balances, untracker, permit, stream>>

TrackSubscribe(t) ==
  /\ tracker[t].at = "subscribe"
  /\ subscribed' = subscribed \cup {Mine(t)}
  /\ TrackGoto(t, "notify")
  /\ UNCHANGED <<known, touched, stale, balances, untracker, permit, stream>>

\* Mutation of Notify: notify_waiters, which leaves no permit.
NotifyWaiters == permit' = (permit \/ stream.at = "wait")

\* notify_one wakes the waiting stream or leaves it a permit.
Notify == permit' = TRUE

TrackNotify(t) ==
  /\ tracker[t].at = "notify"
  /\ Notify
  /\ tracker' = [tracker EXCEPT ![t] = IF @.kind = "bc"
                                       THEN [@ EXCEPT !.at = "map", !.kind = "ata"]
                                       ELSE NoTask]
  /\ UNCHANGED <<known, subscribed, touched, stale, balances, untracker, stream>>

(***************************************************************************)
(* untrack_mint                                                            *)
(***************************************************************************)

Its(u) == <<untracker[u].kind, untracker[u].mint>>

UntrackGoto(u, step) == untracker' = [untracker EXCEPT ![u].at = step]

StartUntrack(u, m) ==
  /\ untracker[u].at = "idle"
  /\ untracker' = [untracker EXCEPT ![u] = [at |-> "look", kind |-> "bc", mint |-> m]]
  /\ UNCHANGED <<known, subscribed, touched, stale, tracker, permit, stream>>

\* The end of a sale that left no position of the mint open.
CleanUp(u, m) ==
  /\ StartUntrack(u, m)
  /\ balances' = balances \ {m}

\* The pruner takes only mints nobody has traded for a while.
Prune(u, m) ==
  /\ m \in stale
  /\ StartUntrack(u, m)
  /\ UNCHANGED balances

\* After one kind of account comes the other, and then the caches.
NextKind(u) ==
  untracker' = [untracker EXCEPT ![u] = IF @.kind = "bc"
                                        THEN [@ EXCEPT !.at = "look", !.kind = "ata"]
                                        ELSE [@ EXCEPT !.at = "drop"]]

\* The map is searched first; what is found is removed afterwards.
UntrackLook(u) ==
  /\ untracker[u].at = "look"
  /\ IF Its(u) \in known THEN UntrackGoto(u, "unmap") ELSE NextKind(u)
  /\ UNCHANGED <<known, subscribed, touched, stale, balances, tracker, permit, stream>>

Unmap(u) ==
  /\ untracker[u].at = "unmap"
  /\ known' = known \ {Its(u)}
  /\ UntrackGoto(u, "unsubscribe")
  /\ UNCHANGED <<subscribed, touched, stale, balances, tracker, permit, stream>>

Unsubscribe(u) ==
  /\ untracker[u].at = "unsubscribe"
  /\ subscribed' = subscribed \ {Its(u)}
  /\ NextKind(u)
  /\ UNCHANGED <<known, touched, stale, balances, tracker, permit, stream>>

DropBalance(u) ==
  /\ untracker[u].at = "drop"
  /\ balances' = balances \ {untracker[u].mint}
  /\ UntrackGoto(u, "untouch")
  /\ UNCHANGED <<known, subscribed, touched, stale, tracker, permit, stream>>

Untouch(u) ==
  /\ untracker[u].at = "untouch"
  /\ touched' = touched \ {untracker[u].mint}
  /\ stale' = stale \ {untracker[u].mint}
  /\ untracker' = [untracker EXCEPT ![u] = NoTask]
  /\ UNCHANGED <<known, subscribed, balances, tracker, permit, stream>>

(***************************************************************************)
(* subscribe, called again two seconds after it has returned               *)
(***************************************************************************)

StreamGoto(step) == stream' = [stream EXCEPT !.at = step]

Check ==
  /\ stream.at = "check"
  /\ StreamGoto(IF subscribed = {} THEN "empty" ELSE "list")
  /\ UNCHANGED <<known, subscribed, touched, stale, balances, tracker, untracker, permit>>

Wait ==
  /\ stream.at = "empty"
  /\ StreamGoto("wait")
  /\ UNCHANGED <<known, subscribed, touched, stale, balances, tracker, untracker, permit>>

Wake ==
  /\ stream.at = "wait"
  /\ permit
  /\ permit' = FALSE
  /\ StreamGoto("check")
  /\ UNCHANGED <<known, subscribed, touched, stale, balances, tracker, untracker>>

List ==
  /\ stream.at = "list"
  /\ stream' = [at |-> "connect", filter |-> subscribed,
                count |-> Cardinality(subscribed), broken |-> FALSE]
  /\ UNCHANGED <<known, subscribed, touched, stale, balances, tracker, untracker, permit>>

\* Mutation of Connected: the count is taken when the connection is there.
CountedLate ==
  /\ stream.at = "connect"
  /\ stream' = [stream EXCEPT !.at = "live", !.count = Cardinality(subscribed)]
  /\ UNCHANGED <<known, subscribed, touched, stale, balances, tracker, untracker, permit>>

Connected ==
  /\ stream.at = "connect"
  /\ StreamGoto("live")
  /\ UNCHANGED <<known, subscribed, touched, stale, balances, tracker, untracker, permit>>

\* A failed connection, an error of the stream or its end.
Disconnected ==
  /\ stream.at \in {"connect", "live"}
  /\ stream' = NoStream
  /\ UNCHANGED <<known, subscribed, touched, stale, balances, tracker, untracker, permit>>

\* Every 200 ms the number of accounts is compared with the last one; whether
\* the new request could be sent makes no difference to what is remembered.
Resubscribe ==
  /\ stream.at = "live"
  /\ Cardinality(subscribed) # stream.count
  /\ \E sent \in {TRUE, FALSE} :
       /\ sent => ~stream.broken
       /\ stream' = [stream EXCEPT !.count = Cardinality(subscribed),
                                   !.filter = IF sent THEN subscribed ELSE @,
                                   !.broken = ~sent]
  /\ UNCHANGED <<known, subscribed, touched, stale, balances, tracker, untracker, permit>>

\* Mutation of Followed: the map from account to mint is not asked.
FollowedBySubscription(a) == a \in subscribed

Followed(a) == a \in subscribed /\ a \in known

\* handle_account_update of a token account, requested now or before.  Both maps
\* stay locked while the cache is written.
BalanceUpdate(m) ==
  /\ stream.at = "live"
  /\ Followed(<<"ata", m>>)
  /\ balances' = balances \cup {m}
  /\ UNCHANGED <<known, subscribed, touched, stale, tracker, untracker, permit, stream>>

GrowStale(m) ==
  /\ m \in touched \ stale
  /\ stale' = stale \cup {m}
  /\ UNCHANGED <<known, subscribed, touched, balances, tracker, untracker, permit, stream>>

-----------------------------------------------------------------------------

TrackStep(t) == TrackMap(t) \/ TrackTouch(t) \/ TrackSubscribe(t) \/ TrackNotify(t)

UntrackStep(u) ==
  UntrackLook(u) \/ Unmap(u) \/ Unsubscribe(u) \/ DropBalance(u) \/ Untouch(u)

StreamStep == Check \/ Wait \/ Wake \/ List \/ Resubscribe

Next ==
  \/ \E t \in Trackers : TrackStep(t) \/ \E m \in Mints : StartTrack(t, m)
  \/ \E u \in Untrackers : UntrackStep(u)
  \/ \E m \in Mints : \/ \E u \in Cleaners : CleanUp(u, m)
                     \/ \E u \in Pruners : Prune(u, m)
  \/ StreamStep \/ Connected \/ Disconnected
  \/ \E m \in Mints : BalanceUpdate(m) \/ GrowStale(m)

Spec == Init /\ [][Next]_vars

\* Spawned tasks move, a connection tried often enough is made, and a broken
\* one is noticed.  No trade, no sale and no account update is owed.
Fairness ==
  /\ \A t \in Trackers : WF_vars(TrackStep(t))
  /\ \A u \in Untrackers : WF_vars(UntrackStep(u))
  /\ WF_vars(StreamStep)
  /\ SF_vars(Connected)
  /\ WF_vars(stream.broken /\ Disconnected)

FairSpec == Spec /\ Fairness

(***************************************************************************)
(* Properties                                                              *)
(***************************************************************************)

Untracked(m) == \E u \in Untrackers : untracker[u].mint = m

NothingUntracked == \A u \in Untrackers : untracker[u].at = "idle"

Listening(a) == stream.at = "live" /\ a \in stream.filter

\* Every variable has its type, a task at work has its mint, and the number
\* remembered is that of the accounts requested, if they could be.
TypeOK ==
  /\ known \subseteq Accounts /\ subscribed \subseteq Accounts
  /\ touched \subseteq Mints /\ stale \subseteq touched /\ balances \subseteq Mints
  /\ tracker \in [Trackers -> Task(TrackSteps)]
  /\ untracker \in [Untrackers -> Task(UntrackSteps)]
  /\ \A t \in Trackers : tracker[t].at # "idle" => tracker[t].mint \in Mints
  /\ \A u \in Untrackers : untracker[u].at # "idle" <=> untracker[u].mint \in Mints
  /\ permit \in BOOLEAN
  /\ stream \in Stream
  /\ stream.count = Cardinality(stream.filter) \/ stream.broken

\* The balance of a mint that is no longer tracked is not kept: the next buy
\* of the mint would take it for the balance before the buy.  No update that
\* comes while the mint is being untracked leaves one behind.
NoBalanceLeft ==
  \A m \in balances : Untracked(m) \/ <<"ata", m>> \in known

\* The stream starts for the first account tracked, however its notification
\* falls between the look for accounts and the wait for a notification.
StreamStarts == subscribed # {} ~> (subscribed = {} \/ stream.at = "live")

\* If no mint is ever untracked, every account tracked is in the stream's filter
\* in the end: those that come while it connects, too, and those whose request
\* could not be sent.
GrowthFollowed ==
  []NothingUntracked =>
    \A a \in Accounts : a \in subscribed ~> Listening(a)

\* The safe half of StreamStarts: while the stream looks or waits in vain and
\* there is something to follow, its wake-up is there or on its way.
WakeUpKept ==
  stream.at \in {"empty", "wait"} /\ subscribed # {} =>
    permit \/ \E t \in Trackers : tracker[t].at = "notify"

\* The safe half of GrowthFollowed: the number of accounts, which is all that is
\* compared, tells whether the filter is the right one.
CountTells ==
  stream.at = "live" /\ ~stream.broken /\ stream.count = Cardinality(subscribed)
    => stream.filter = subscribed

\* Every account that stays tracked is in the stream's filter in the end.
TrackedIsFollowed ==
  \A a \in Accounts : a \in subscribed ~> (a \notin subscribed \/ Listening(a))

(***************************************************************************)
(* The inductive invariant                                                 *)
(***************************************************************************)

\* The token account of the mint is out of the map, its balance is still to go.
ToDrop(u, m) ==
  /\ untracker[u].mint = m
  /\ \/ untracker[u].at = "unsubscribe" /\ untracker[u].kind = "ata"
     \/ untracker[u].at = "drop"

BalanceOwned ==
  \A m \in balances : <<"ata", m>> \in known \/ \E u \in Untrackers : ToDrop(u, m)

=============================================================================
