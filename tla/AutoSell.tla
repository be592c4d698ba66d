------------------------------ MODULE AutoSell ------------------------------
(***************************************************************************)
(* The life of the positions of ONE mint, from the submitted buy to the    *)
(* confirmed sale: execute_buy's hand-over to the position manager, the    *)
(* buy-confirm tasks, the fallback monitor, the exit monitors, the two     *)
(* tasks that sell (the signal consumer "exec" and the Telegram task "tg") *)
(* and the shared token account (ATA) on chain with its gRPC-fed cache.    *)
(*                                                                         *)
(* Positions are keyed by (group, mint).  Mints share no state here, so    *)
(* the mint is fixed and positions are indexed by group; all groups trade  *)
(* one wallet, so they share the one ATA of the mint.                      *)
(***************************************************************************)
EXTENDS Integers, Sequences, Bags

CONSTANTS
  Groups,        \* copy-trading groups (ids)
  NoGroup,       \* not a group: a task that works on none
  MaxBuys,       \* bound: buys submitted in a behaviour
  BuyAmounts,    \* raw tokens a landed buy may bring
  Estimates,     \* token estimate stored with a buy; 0 = no quote available
  MaxRetries,    \* MAX_SELL_RETRIES
  MaxSkips,      \* MAX_ZERO_BALANCE_SKIPS
  MaxAttempts,   \* MAX_AUTO_SELL_SIGNAL_ATTEMPTS
  TryBound,      \* bound: sales are requested of positions with fewer tries
  QueueBound,    \* bound: pending sell signals
  PartialExits,  \* some exit rule is configured with a ratio below 1
  TgEnabled,     \* a Telegram bot is configured (manual sells)
  Percents       \* percentages below 100 on the Telegram sell buttons

ASSUME BoundsAssumption ==
  /\ MaxBuys \in Nat /\ MaxRetries \in Nat \ {0} /\ MaxSkips \in Nat \ {0}
  /\ MaxAttempts \in Nat \ {0} /\ TryBound \in Nat /\ QueueBound \in Nat
ASSUME GroupsAssumption == NoGroup \notin Groups
ASSUME AmountsAssumption ==
  /\ BuyAmounts \subseteq Nat \ {0}
  /\ Estimates \subseteq Nat
  /\ Percents \subseteq 1..99
  /\ PartialExits \in BOOLEAN /\ TgEnabled \in BOOLEAN

VARIABLES
  pos,     \* AutoSellManager.positions: group -> position
  buys,    \* submitted buys: the transaction and its confirm task
  bal,     \* token balance of the shared ATA on chain
  cache,   \* ata_cache entry of the mint, NoEntry when absent
  queue,   \* sell_signal channel
  pc,      \* control point of each selling task
  job,     \* local state of each selling task
  strays,  \* bag: amounts of sell transactions in flight nobody waits for
  fb       \* the fallback monitor

vars == <<pos, buys, bal, cache, queue, pc, job, strays, fb>>

Sellers == {"exec", "tg"}
Buys    == 1..MaxBuys
NoEntry == -1

(***************************************************************************)
(* Positions                                                               *)
(***************************************************************************)

\* execute_buy marks a position Submitted and Confirming before it inserts
\* it, so Pending and Submitted never appear in the map.
States == {"Absent", "Confirming", "Active", "Selling", "Closed", "Failed"}

\* tok: token_amount, pre: pre_buy_ata_balance, buy: buy_signature (which buy
\* made this position), tries: sell_attempts, skips: zero_balance_sell_skips,
\* sold: sell_signature is set.
Position == [st: States, tok: Nat, pre: Nat, buy: Nat,
             tries: Nat, skips: Nat, sold: BOOLEAN]

Absent == [st |-> "Absent", tok |-> 0, pre |-> 0, buy |-> 0,
           tries |-> 0, skips |-> 0, sold |-> FALSE]

NewPosition(b, est, pre) ==
  [st |-> "Confirming", tok |-> est, pre |-> pre, buy |-> b,
   tries |-> 0, skips |-> 0, sold |-> FALSE]

CanSell(p) == p.st \in {"Active", "Confirming"}
Open(p)    == p.st \notin {"Absent", "Closed", "Failed"}

\* Mutation of MarkActive: no check of the state.
MarkActiveAlways(p, amount) ==
  IF p.st = "Absent" THEN p ELSE [p EXCEPT !.st = "Active", !.tok = amount]

MarkActive(p, amount) ==
  IF p.st = "Confirming" THEN [p EXCEPT !.st = "Active", !.tok = amount] ELSE p

\* Mutation of MarkSellingOk: any open position may be marked.
MarkSellingIfOpen(p) == Open(p)

MarkSellingOk(p) == p.st \in {"Active", "Confirming"}

MarkSelling(p) ==
  [p EXCEPT !.st = "Selling", !.tries = @ + 1, !.skips = 0]

MarkClosed(p) ==
  IF p.st = "Selling" THEN [p EXCEPT !.st = "Closed", !.sold = TRUE] ELSE p

MarkFailed(p) ==
  IF p.st = "Absent" THEN p ELSE [p EXCEPT !.st = "Failed"]

RestoreAfterSellAttempt(p, previous) ==
  IF p.st = "Absent" THEN p ELSE [p EXCEPT !.st = previous]

SuspendAutoSell(p, previous) ==
  IF p.st = "Absent" THEN p
  ELSE [p EXCEPT !.st = previous,
                 !.tries = IF @ < MaxAttempts THEN MaxAttempts ELSE @]

ApplyPartialSell(p, amount) ==
  IF amount = 0 \/ amount > p.tok THEN p
  ELSE [p EXCEPT !.tok = @ - amount, !.st = "Active"]

\* The counter is only compared with MaxSkips: the model saturates it there.
RecordZeroBalanceSkip(p) ==
  IF p.st = "Absent" THEN p
  ELSE [p EXCEPT !.skips = IF @ < MaxSkips THEN @ + 1 ELSE @]

(***************************************************************************)
(* Signals, jobs, transactions                                             *)
(***************************************************************************)

Signal == [grp: Groups, manual: BOOLEAN, whole: BOOLEAN]

\* "read": position snapshot taken, balance not yet read
\* "mark": amount computed, mark_selling not yet called
\* "send"/"wait": the retry loop of handle_sell_signal
\* "pmark"/"psend": handle_partial_sell below 100 percent
\* "cleanup": cleanup_mint_if_unused saw no open position
PCs == {"idle", "read", "mark", "send", "wait", "pmark", "psend", "cleanup"}

\* rescue: the Jupiter sale that follows an on-chain failure of the Pump.fun one
Legs == {"pump", "jup", "rescue"}
TxStatus == {"sent", "ok", "err"}

\* grp, prev, tok: position_before_sell; amt: token_amount; after:
\* expected_after_balance; n: attempt; tx: fate of the current transaction.
Job == [grp: Groups \cup {NoGroup}, prev: States, tok: Nat, amt: Nat, after: Nat,
        n: Nat, leg: Legs, tx: TxStatus, manual: BOOLEAN, whole: BOOLEAN]

NoJob == [grp |-> NoGroup, prev |-> "Absent", tok |-> 0, amt |-> 0, after |-> 0,
          n |-> 0, leg |-> "pump", tx |-> "sent", manual |-> FALSE, whole |-> TRUE]

\* The selling task has marked the position Selling and not let go of it yet.
InSection(s) == pc[s] \in {"send", "wait", "psend"}

BuyRecord == [grp: Groups \cup {NoGroup}, tx: {"none"} \cup TxStatus, amt: Nat, est: Nat,
              pre: Nat, pc: {"none", "poll", "apply", "done"}, seen: Nat]

NoBuy == [grp |-> NoGroup, tx |-> "none", amt |-> 0, est |-> 0,
          pre |-> 0, pc |-> "none", seen |-> 0]

\* The fallback monitor deadlocks itself, holding the map: no task that uses
\* the positions map gets any further.
Wedged == fb.pc = "wedged"

Init ==
  /\ pos = [g \in Groups |-> Absent]
  /\ buys = [b \in Buys |-> NoBuy]
  /\ bal = 0
  /\ cache = NoEntry
  /\ queue = <<>>
  /\ pc = [s \in Sellers |-> "idle"]
  /\ job = [s \in Sellers |-> NoJob]
  /\ strays = EmptyBag
  /\ fb = [pc |-> "idle", grp |-> NoGroup, bal |-> 0]

(***************************************************************************)
(* Buys: execute_buy after a successful send, and the buy-confirm task     *)
(***************************************************************************)

\* The balances a query can see: the cached one, if any, and the chain's.
Seen == {bal} \cup (IF cache = NoEntry THEN {} ELSE {cache})

Buy(g) ==
  /\ ~Wedged
  /\ \E b \in Buys, amt \in BuyAmounts, est \in Estimates :
       LET pre == IF cache = NoEntry THEN 0 ELSE cache IN
       /\ buys[b].tx = "none"
       /\ \A c \in Buys : c < b => buys[c].tx # "none"
       /\ pos' = [pos EXCEPT ![g] = NewPosition(b, est, pre)]
       /\ buys' = [buys EXCEPT ![b] =
                     [grp |-> g, tx |-> "sent", amt |-> amt, est |-> est,
                      pre |-> pre, pc |-> "poll", seen |-> 0]]
  /\ UNCHANGED <<bal, cache, queue, pc, job, strays, fb>>

\* Mutation of ConfirmSees: an unchanged balance counts.
ConfirmSeesUnchanged(b) ==
  /\ buys[b].pc = "poll"
  /\ \E v \in Seen :
       /\ v >= buys[b].pre
       /\ buys' = [buys EXCEPT ![b].pc = "apply", ![b].seen = v]
  /\ UNCHANGED <<pos, bal, cache, queue, pc, job, strays, fb>>

\* One poll of the confirm task finds a balance above the one before the buy.
ConfirmSees(b) ==
  /\ buys[b].pc = "poll"
  /\ \E v \in Seen :
       /\ v > buys[b].pre
       /\ buys' = [buys EXCEPT ![b].pc = "apply", ![b].seen = v]
  /\ UNCHANGED <<pos, bal, cache, queue, pc, job, strays, fb>>

\* The amount a confirmed buy gives its position: the whole balance increase
\* when no other position of the mint is open, else the estimate.
AtMostOneOpen == \A g, h \in Groups : Open(pos[g]) /\ Open(pos[h]) => g = h

AssignedAmount(b) ==
  IF buys[b].est > 0 /\ ~AtMostOneOpen
  THEN buys[b].est
  ELSE buys[b].seen - buys[b].pre

\* The task ends; its local values go with it.
ConfirmOver(b) ==
  buys' = [buys EXCEPT ![b].pc = "done", ![b].est = 0, ![b].pre = 0, ![b].seen = 0]

ConfirmSuccess(b) ==
  /\ ~Wedged
  /\ buys[b].pc = "apply"
  /\ pos' = [pos EXCEPT ![buys[b].grp] = MarkActive(@, AssignedAmount(b))]
  /\ ConfirmOver(b)
  /\ UNCHANGED <<bal, cache, queue, pc, job, strays, fb>>

\* The status of the transaction is an error, or ten seconds are over.
ConfirmFailed(b) ==
  /\ ~Wedged
  /\ \/ buys[b].pc = "poll"
     \/ buys[b].pc = "apply" /\ buys[b].tx = "err"
  /\ pos' = [pos EXCEPT ![buys[b].grp] = MarkFailed(@)]
  /\ ConfirmOver(b)
  /\ UNCHANGED <<bal, cache, queue, pc, job, strays, fb>>

(***************************************************************************)
(* The fallback monitor: confirm check and retention                       *)
(***************************************************************************)

\* Snapshot of a position still unconfirmed after the confirm timeout, then
\* the balance query, whose errors count as a zero balance.
FallbackRead(g) ==
  /\ ~Wedged
  /\ fb.pc = "idle"
  /\ pos[g].st = "Confirming"
  /\ \E v \in {bal, 0} : fb' = [pc |-> "read", grp |-> g, bal |-> v]
  /\ UNCHANGED <<pos, buys, bal, cache, queue, pc, job, strays>>

\* Mutation of FallbackApply: an unconfirmed position is left as it is.
FallbackLeaves ==
  /\ fb.pc = "read"
  /\ fb' = [pc |-> "idle", grp |-> NoGroup, bal |-> 0]
  /\ UNCHANGED <<pos, buys, bal, cache, queue, pc, job, strays>>

\* Under get_mut's write guard.  A balance above the one before the buy makes
\* the monitor count the open positions: it iterates over the map it has
\* locked, and never returns.
FallbackApply ==
  /\ fb.pc = "read"
  /\ LET p == pos[fb.grp] IN
       IF p.st # "Absent" /\ fb.bal > p.pre
       THEN /\ fb' = [fb EXCEPT !.pc = "wedged"]
            /\ UNCHANGED pos
       ELSE /\ fb' = [pc |-> "idle", grp |-> NoGroup, bal |-> 0]
            /\ pos' = [pos EXCEPT ![fb.grp] = MarkFailed(@)]
  /\ UNCHANGED <<buys, bal, cache, queue, pc, job, strays>>

\* The end of a scan drops positions closed or failed a minute after creation.
Retain(g) ==
  /\ ~Wedged
  /\ fb.pc = "idle"
  /\ pos[g].st \in {"Closed", "Failed"}
  /\ pos' = [pos EXCEPT ![g] = Absent]
  /\ UNCHANGED <<buys, bal, cache, queue, pc, job, strays, fb>>

(***************************************************************************)
(* Sell signals                                                            *)
(***************************************************************************)

Emit(g, manual, whole) ==
  /\ ~Wedged
  /\ Len(queue) < QueueBound /\ pos[g].tries < TryBound
  /\ queue' = Append(queue, [grp |-> g, manual |-> manual, whole |-> whole])
  /\ UNCHANGED <<pos, buys, bal, cache, pc, job, strays, fb>>

\* Stop-loss, take-profit and trailing stop (check_exit_conditions): they look
\* at the state only.  A price rule may be configured to sell a part.
PriceExit(g) ==
  /\ pos[g].st = "Active"
  /\ \E whole \in {TRUE, ~PartialExits} : Emit(g, FALSE, whole)

\* Maximum lifetime, migration and follow-sell: also for a position not yet
\* confirmed, and only below the cap on automatic attempts.
CappedExit(g) ==
  /\ CanSell(pos[g])
  /\ pos[g].tries < MaxAttempts
  /\ \E whole \in {TRUE, ~PartialExits} : Emit(g, FALSE, whole)

\* /sellall
ManualExit(g) ==
  /\ TgEnabled
  /\ pos[g].st \in {"Confirming", "Active"}
  /\ Emit(g, TRUE, TRUE)

(***************************************************************************)
(* handle_sell_signal, run by the signal consumer and by the Telegram task *)
(***************************************************************************)

Start(s, g, manual, whole) ==
  /\ job' = [job EXCEPT ![s] = [NoJob EXCEPT !.grp = g, !.prev = pos[g].st,
                                !.tok = pos[g].tok, !.manual = manual, !.whole = whole]]
  /\ pc' = [pc EXCEPT ![s] = "read"]

\* A signal for a position that is gone is dropped.
TakeSignal ==
  /\ ~Wedged
  /\ pc["exec"] = "idle"
  /\ queue # <<>>
  /\ queue' = Tail(queue)
  /\ LET sig == Head(queue) IN
       IF pos[sig.grp].st = "Absent"
       THEN UNCHANGED <<pc, job>>
       ELSE Start("exec", sig.grp, sig.manual, sig.whole)
  /\ UNCHANGED <<pos, buys, bal, cache, strays, fb>>

\* The Telegram button "100%".
TgSellAll(g) ==
  /\ TgEnabled /\ ~Wedged
  /\ pc["tg"] = "idle"
  /\ pos[g].tok > 0 /\ pos[g].tries < TryBound
  /\ Start("tg", g, TRUE, TRUE)
  /\ UNCHANGED <<pos, buys, bal, cache, queue, strays, fb>>

Idle(s) ==
  /\ pc' = [pc EXCEPT ![s] = "idle"]
  /\ job' = [job EXCEPT ![s] = NoJob]

\* The cached balance, else an RPC query whose errors count as zero.
Balances == IF cache = NoEntry THEN {bal, 0} ELSE {cache}

\* Mutation of FullAmount: the balance does not limit the amount.
FullAmountUnlimited(tok, b) == IF tok > 0 THEN tok ELSE b

FullAmount(tok, b) == IF tok > 0 /\ tok < b THEN tok ELSE b

\* A ratio below 1 sells at least one unit, and less than everything if it can.
SaleAmounts(full, whole) == IF whole \/ full <= 1 THEN {full} ELSE 1..(full - 1)

ReadBalance(s) ==
  /\ ~Wedged
  /\ pc[s] = "read"
  /\ \E b \in Balances :
     \E amt \in SaleAmounts(FullAmount(job[s].tok, b), job[s].whole) :
       IF amt = 0
       THEN LET p == RecordZeroBalanceSkip(pos[job[s].grp]) IN
            /\ pos' = [pos EXCEPT ![job[s].grp] =
                         IF p.skips >= MaxSkips THEN MarkFailed(p) ELSE p]
            /\ Idle(s)
       ELSE /\ job' = [job EXCEPT ![s].tok = 0, ![s].whole = TRUE,
                                  ![s].amt = amt, ![s].after = b - amt]
            /\ pc' = [pc EXCEPT ![s] = "mark"]
            /\ UNCHANGED pos
  /\ UNCHANGED <<buys, bal, cache, queue, strays, fb>>

\* mark_selling: the only mutual exclusion between the selling tasks.
Claim(s, next) ==
  LET g == job[s].grp IN
  IF MarkSellingOk(pos[g])
  THEN /\ pos' = [pos EXCEPT ![g] = MarkSelling(@)]
       /\ job' = [job EXCEPT ![s].n = 1]
       /\ pc' = [pc EXCEPT ![s] = next]
  ELSE /\ Idle(s)
       /\ UNCHANGED pos

MarkForSale(s) ==
  /\ ~Wedged
  /\ pc[s] = "mark"
  /\ Claim(s, "send")
  /\ UNCHANGED <<buys, bal, cache, queue, strays, fb>>

\* Mutation of GiveUp: the position is not restored.
GiveUpSilently(s) == ~Wedged /\ Idle(s) /\ UNCHANGED pos

\* The retry loop is over without success: suspend_auto_sell once the cap on
\* automatic attempts is reached, else restore_after_sell_attempt.
GiveUp(s) ==
  LET g == job[s].grp IN
  /\ ~Wedged
  /\ pos' = [pos EXCEPT ![g] =
               IF ~job[s].manual /\ @.tries >= MaxAttempts
               THEN SuspendAutoSell(@, job[s].prev)
               ELSE RestoreAfterSellAttempt(@, job[s].prev)]
  /\ Idle(s)

\* Mutation of NextAttempt: attempts are not counted.
NextAttemptUncounted(s) ==
  /\ pc' = [pc EXCEPT ![s] = "send"]
  /\ UNCHANGED <<job, pos>>

NextAttempt(s) ==
  IF job[s].n < MaxRetries
  THEN /\ job' = [job EXCEPT ![s].n = @ + 1]
       /\ pc' = [pc EXCEPT ![s] = "send"]
       /\ UNCHANGED pos
  ELSE GiveUp(s)

Sent(s, leg) ==
  /\ job' = [job EXCEPT ![s].leg = leg, ![s].tx = "sent"]
  /\ pc' = [pc EXCEPT ![s] = "wait"]
  /\ UNCHANGED pos

\* One attempt: Pump.fun, or Jupiter when the curve has migrated or the
\* Pump.fun sale could not be sent; both may fail to build or send.
SendSale(s) ==
  /\ pc[s] = "send"
  /\ \/ \E leg \in {"pump", "jup"} : Sent(s, leg)
     \/ NextAttempt(s)
  /\ UNCHANGED <<buys, bal, cache, queue, strays, fb>>

\* The transaction of the current attempt, if the chain has not judged it.
InFlight(s) ==
  IF job[s].tx = "sent" /\ job[s].amt > 0 THEN SetToBag({job[s].amt}) ELSE EmptyBag

\* mark_closed or apply_partial_sell, then the check of cleanup_mint_if_unused.
Finish(s) ==
  LET g == job[s].grp IN
  /\ ~Wedged
  /\ pos' = [pos EXCEPT ![g] = IF job[s].after = 0 THEN MarkClosed(@)
                               ELSE ApplyPartialSell(@, job[s].amt)]
  /\ pc' = [pc EXCEPT ![s] = IF \E h \in Groups : Open(pos'[h]) THEN "idle" ELSE "cleanup"]
  /\ job' = [job EXCEPT ![s] = NoJob]

\* A balance at or below the expected one confirms the sale.  A failed RPC
\* balance query reads as 0.
SaleConfirmed(s) ==
  /\ pc[s] = "wait"
  /\ \E v \in Seen \cup {0} : v <= job[s].after
  /\ Finish(s)
  /\ strays' = strays (+) InFlight(s)
  /\ UNCHANGED <<buys, bal, cache, queue, fb>>

\* The signature's status is an error.  After a Pump.fun sale Jupiter gets one
\* try; any other failure ends the loop.
SaleErrorSeen(s) ==
  /\ pc[s] = "wait"
  /\ job[s].tx = "err"
  /\ \/ job[s].leg = "pump" /\ Sent(s, "rescue")
     \/ GiveUp(s)
  /\ UNCHANGED <<buys, bal, cache, queue, strays, fb>>

\* The wait runs out.  The transaction stays in flight.
SaleTimedOut(s) ==
  /\ pc[s] = "wait"
  /\ IF job[s].leg = "rescue" THEN GiveUp(s) ELSE NextAttempt(s)
  /\ strays' = strays (+) InFlight(s)
  /\ UNCHANGED <<buys, bal, cache, queue, fb>>

\* cleanup_mint_if_unused, after its check: ata_cache.remove, untrack_mint.
Cleanup(s) ==
  /\ pc[s] = "cleanup"
  /\ cache' = NoEntry
  /\ Idle(s)
  /\ UNCHANGED <<pos, buys, bal, queue, strays, fb>>

(***************************************************************************)
(* handle_partial_sell below 100 percent: no confirmation is awaited       *)
(***************************************************************************)

TgSellPart(g) ==
  /\ TgEnabled /\ ~Wedged
  /\ pc["tg"] = "idle"
  /\ pos[g].tok > 0 /\ pos[g].tries < TryBound
  /\ \E percent \in Percents :
       job' = [job EXCEPT !["tg"] =
                 [NoJob EXCEPT !.grp = g, !.prev = pos[g].st, !.tok = pos[g].tok,
                               !.amt = (pos[g].tok * percent) \div 100,
                               !.manual = TRUE, !.whole = FALSE]]
  /\ pc' = [pc EXCEPT !["tg"] = "pmark"]
  /\ UNCHANGED <<pos, buys, bal, cache, queue, strays, fb>>

MarkForPart ==
  /\ ~Wedged
  /\ pc["tg"] = "pmark"
  /\ Claim("tg", "psend")
  /\ UNCHANGED <<buys, bal, cache, queue, strays, fb>>

SendPart ==
  LET g == job["tg"].grp IN
  /\ ~Wedged
  /\ pc["tg"] = "psend"
  /\ \/ /\ pos' = [pos EXCEPT ![g] = ApplyPartialSell(@, job["tg"].amt)]
        /\ strays' = strays (+) InFlight("tg")
     \/ /\ pos' = [pos EXCEPT ![g] = RestoreAfterSellAttempt(@, job["tg"].prev)]
        /\ UNCHANGED strays
  /\ Idle("tg")
  /\ UNCHANGED <<buys, bal, cache, queue, fb>>

(***************************************************************************)
(* The chain and the gRPC account stream (external)                        *)
(***************************************************************************)

LandBuy(b) ==
  /\ buys[b].tx = "sent"
  /\ \/ /\ buys' = [buys EXCEPT ![b].tx = "ok", ![b].amt = 0]
        /\ bal' = bal + buys[b].amt
     \/ /\ buys' = [buys EXCEPT ![b].tx = "err", ![b].amt = 0]
        /\ UNCHANGED bal
  /\ UNCHANGED <<pos, cache, queue, pc, job, strays, fb>>

LandSale(s) ==
  /\ pc[s] = "wait"
  /\ job[s].tx = "sent"
  /\ \/ /\ job[s].amt <= bal
        /\ bal' = bal - job[s].amt
        /\ job' = [job EXCEPT ![s].tx = "ok"]
     \/ /\ job' = [job EXCEPT ![s].tx = "err"]
        /\ UNCHANGED bal
  /\ UNCHANGED <<pos, buys, cache, queue, pc, strays, fb>>

LandStray(amt) ==
  /\ amt <= bal
  /\ bal' = bal - amt
  /\ strays' = strays (-) SetToBag({amt})
  /\ UNCHANGED <<pos, buys, cache, queue, pc, job, fb>>

\* An account update reaches the cache.
BalanceUpdate ==
  /\ cache # bal
  /\ cache' = bal
  /\ UNCHANGED <<pos, buys, bal, queue, pc, job, strays, fb>>

-----------------------------------------------------------------------------

SellerStep(s) ==
  \/ ReadBalance(s) \/ MarkForSale(s) \/ SendSale(s)
  \/ SaleConfirmed(s) \/ SaleErrorSeen(s) \/ SaleTimedOut(s) \/ Cleanup(s)

PartStep == MarkForPart \/ SendPart

ConfirmStep(b) == ConfirmSees(b) \/ ConfirmSuccess(b) \/ ConfirmFailed(b)

Exits(g) == PriceExit(g) \/ CappedExit(g) \/ ManualExit(g)

Next ==
  \/ \E g \in Groups : Buy(g) \/ FallbackRead(g) \/ Retain(g) \/ Exits(g)
                       \/ TgSellAll(g) \/ TgSellPart(g)
  \/ FallbackApply
  \/ TakeSignal
  \/ \E s \in Sellers : SellerStep(s) \/ LandSale(s)
  \/ PartStep
  \/ \E b \in Buys : ConfirmStep(b) \/ LandBuy(b)
  \/ \E amt \in BagToSet(strays) : LandStray(amt)
  \/ BalanceUpdate

Spec == Init /\ [][Next]_vars

\* What the runtime owes: a spawned task that can move moves, and the monitor
\* keeps scanning.  No buy, exit signal, button or chain event is owed.
Fairness ==
  /\ WF_vars(TakeSignal)
  /\ \A s \in Sellers : WF_vars(SellerStep(s))
  /\ WF_vars(PartStep)
  /\ \A b \in Buys : WF_vars(ConfirmStep(b))
  /\ \A g \in Groups : WF_vars(FallbackRead(g))
  /\ WF_vars(FallbackApply)

FairSpec == Spec /\ Fairness

(***************************************************************************)
(* Properties                                                              *)
(***************************************************************************)

\* Every variable has its type; balances and amounts never go below zero
\* (saturating_sub in handle_sell_signal and apply_partial_sell).
TypeOK ==
  /\ pos \in [Groups -> Position]
  /\ buys \in [Buys -> BuyRecord]
  /\ bal \in Nat
  /\ cache \in Nat \cup {NoEntry}
  /\ queue \in Seq(Signal)
  /\ pc \in [Sellers -> PCs]
  /\ job \in [Sellers -> Job]
  /\ IsABag(strays) /\ DOMAIN strays \subseteq Nat
  /\ fb \in [pc: {"idle", "read", "wedged"}, grp: Groups \cup {NoGroup}, bal: Nat]

BoughtBy(b, g) == buys[b].tx # "none" /\ buys[b].grp = g

\* A later buy of the same group overwrites the position under its old tasks.
BoughtOnce(g) == \A b, c \in Buys : BoughtBy(b, g) /\ BoughtBy(c, g) => b = c

SellsNow(s, g) == InSection(s) /\ job[s].grp = g

\* Between mark_selling and the end of a sale no other task sells the same
\* position, whatever the confirm task, the fallback monitor and a stale
\* snapshot do to its state meanwhile.
SellExclusion ==
  \A g \in Groups : BoughtOnce(g) =>
    \A s, t \in Sellers : SellsNow(s, g) /\ SellsNow(t, g) => s = t

\* A position closed by a sale is never opened again: no late confirmation, no
\* restore by another task and no second sale brings it back.
ClosedIsFinal ==
  \A g \in Groups :
    BoughtOnce(g) /\ pos[g].sold => pos[g].st \in {"Closed", "Failed"}

\* Nothing counts as bought (Active) before a buy of the mint has landed: neither
\* the confirm tasks, which look at balances and not at their transaction, nor early
\* sales and what they restore get a position there.  It need not be the position's
\* own buy, for the account is shared.  A part sold by button does it on the
\* estimate alone.
ActiveNeedsLanding ==
  [][\A g \in Groups : pos[g].st # "Active" /\ pos'[g].st = "Active" =>
       SendPart \/ \E b \in Buys : buys[b].tx = "ok"]_vars

\* A task sells under a position only while it is marked Selling, and every
\* position marked Selling has a task that will unmark it.
SellingHasOwner ==
  \A g \in Groups : pos[g].st = "Selling" =>
    \E s \in Sellers : SellsNow(s, g)

\* A sale reported as confirmed has taken the balance down to what it expected.
ConfirmedSaleLanded ==
  [][\A s \in Sellers : SaleConfirmed(s) => bal <= job[s].after]_vars

\* A position all of whose tokens were sold is closed, not left Active.
SoldOutIsClosed ==
  \A g \in Groups : pos[g].st = "Active" => pos[g].tok > 0

\* Every sale a task starts comes to an end: success, restore or suspension,
\* through retries, time-outs and the Jupiter fallback.
SaleEnds == \A s \in Sellers : pc[s] # "idle" ~> (pc[s] = "idle" \/ Wedged)

\* The steps a selling task is away from the end of its sale, at most: three for
\* each attempt that is left, since a failed Pump.fun sale is tried on Jupiter.
StepsLeft(s) ==
  LET later == 3 * (MaxRetries - job[s].n) IN
  CASE pc[s] = "read"    -> 3 * MaxRetries + 3
    [] pc[s] = "mark"    -> 3 * MaxRetries + 2
    [] pc[s] = "send"    -> later + 4
    [] pc[s] = "wait"    -> later + (IF job[s].leg = "pump" THEN 3 ELSE 2)
    [] pc[s] = "pmark"   -> 2
    [] pc[s] \in {"psend", "cleanup"} -> 1
    [] pc[s] = "idle"    -> 0

OwnStep(s) == SellerStep(s) \/ (s = "tg" /\ PartStep)

\* The safe half of SaleEnds: each step of a task at a sale brings the end nearer,
\* and no step of another one puts it off.
SaleNearsEnd ==
  [][\A s \in Sellers : pc[s] # "idle" =>
       IF OwnStep(s) THEN StepsLeft(s)' < StepsLeft(s) ELSE StepsLeft(s)' = StepsLeft(s)]_vars

\* A confirmed sale of s would close the position or take a part off it: there
\* is that much on it.  A larger part, or none, is refused, and nobody notices.
SaleFits(s) ==
  \/ job[s].after = 0 /\ pc[s] # "psend"
  \/ job[s].amt \in 1..pos[job[s].grp].tok

\* Without the Telegram task, a sale that is over has not left its position
\* Selling, so that the next signal can retry: what it restores is what the
\* position was before, although a confirmation or a failure may have come.
SaleLetsGo ==
  [][\A g \in Groups, s \in Sellers :
       BoughtOnce(g) /\ SellsNow(s, g) /\ SaleFits(s) /\ ~SellsNow(s, g)'
         => pos'[g].st # "Selling"]_vars

\* No position stays between two states for good: it neither waits for its
\* confirmation for ever, even when the confirm task reported while a sale was
\* going on and the sale then restored Confirming, nor for the end of a sale.
PositionsMoveOn ==
  \A g \in Groups :
    /\ pos[g].st = "Confirming" ~> (pos[g].st # "Confirming" \/ Wedged)
    /\ (\E s \in Sellers : SellsNow(s, g) /\ SaleFits(s)) ~> (pos[g].st # "Selling" \/ Wedged)

\* The sellers keep the promise of Sales: states, snapshots and retries, in
\* whatever order their steps and those of confirmation and fallback monitor
\* come, let nobody sell beside another, or what was sold.
Phase(g) ==
  IF \A b \in Buys : ~BoughtBy(b, g) THEN "none"
  ELSE IF ~BoughtOnce(g) THEN "excused"
  ELSE IF pos[g].st = "Absent" \/ pos[g].sold THEN "over" ELSE "held"

Promise == INSTANCE Sales WITH
  phase <- [g \in Groups |-> Phase(g)],
  selling <- {b \in Sellers \X Groups : SellsNow(b[1], b[2])}

ImplementsSales == Promise!Spec

\* A confirm check the fallback monitor begins comes to an end.
FallbackReturns == fb.pc = "read" ~> fb.pc = "idle"

(***************************************************************************)
(* The inductive invariant behind TypeOK, SellExclusion and ClosedIsFinal  *)
(***************************************************************************)

\* A confirm task has its buy, and found a balance above the one before it.
ConfirmTasks ==
  \A b \in Buys :
    /\ buys[b].tx # "none" => buys[b].grp \in Groups
    /\ buys[b].pc \in {"poll", "apply"} => buys[b].tx # "none"
    /\ buys[b].pc = "apply" => buys[b].seen > buys[b].pre

\* A selling task at work has its position, which was there when it began.
BusyJobs ==
  \A s \in Sellers : pc[s] \notin {"idle", "cleanup"} =>
    job[s].grp \in Groups /\ job[s].prev # "Absent"

AbsentIsEmpty == \A g \in Groups : pos[g].st = "Absent" => pos[g] = Absent

TypeInv ==
  /\ TypeOK
  /\ ConfirmTasks
  /\ BusyJobs
  /\ AbsentIsEmpty
  /\ fb.pc = "read" => fb.grp \in Groups

\* Before its first buy a group has neither a position nor a task at work.
UnboughtIsIdle ==
  \A g \in Groups : (\A b \in Buys : ~BoughtBy(b, g)) =>
    pos[g].st = "Absent" /\ \A s \in Sellers : job[s].grp # g

\* A position being sold is not up for sale, even if declared failed or dropped.
SectionMarked ==
  \A g \in Groups : BoughtOnce(g) =>
    \A s \in Sellers : SellsNow(s, g) => pos[g].st \in {"Selling", "Failed", "Absent"}

\* Nobody sells a position that was sold.
SoldUnowned ==
  \A g \in Groups : BoughtOnce(g) /\ pos[g].sold =>
    \A s \in Sellers : ~SellsNow(s, g)

SaleInv ==
  UnboughtIsIdle /\ SectionMarked /\ SellExclusion /\ SoldUnowned /\ ClosedIsFinal

\* Without the Telegram task: a snapshot that says neither Active nor Confirming
\* is of a position that cannot be marked, so that no such state is restored.
SnapshotSellable ==
  /\ pc["tg"] = "idle"
  /\ \A g \in Groups : BoughtOnce(g) /\ job["exec"].grp = g =>
       \/ job["exec"].prev \in {"Active", "Confirming"}
       \/ ~InSection("exec") /\ ~MarkSellingOk(pos[g])

=============================================================================
