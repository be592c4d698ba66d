--------------------------- MODULE AutoSellProofs ---------------------------
(***************************************************************************)
(* Proofs about AutoSell, for every value of its constants: the types, the *)
(* exclusion of two sales of one position, the finality of a sale, what    *)
(* the end of a sale leaves behind, how many steps a sale has, the         *)
(* implementation of Sales, and that nothing counts as bought before a     *)
(* buy has landed.                                                         *)
(***************************************************************************)
EXTENDS AutoSell, TLAPS

(***************************************************************************)
(* The operators on positions, amounts and transactions                    *)
(***************************************************************************)

\* Every operation of position.rs takes a position to a position.
LEMMA PositionOps ==
  ASSUME NEW p \in Position, NEW a \in Nat, NEW b \in Nat, NEW c \in Nat,
         NEW st \in States
  PROVE  /\ Absent \in Position
         /\ NewPosition(a, b, c) \in Position
         /\ MarkActive(p, a) \in Position
         /\ MarkSelling(p) \in Position
         /\ MarkClosed(p) \in Position
         /\ MarkFailed(p) \in Position
         /\ RestoreAfterSellAttempt(p, st) \in Position
         /\ SuspendAutoSell(p, st) \in Position
         /\ ApplyPartialSell(p, a) \in Position
         /\ RecordZeroBalanceSkip(p) \in Position
  <1> USE DEF Position
  <1>1. /\ {"Absent", "Confirming", "Active", "Selling", "Closed", "Failed"} \subseteq States
        /\ p.tries + 1 \in Nat /\ p.skips + 1 \in Nat
        /\ MaxAttempts \in Nat /\ MaxSkips \in Nat
    BY BoundsAssumption DEF States
  <1>2. Absent \in Position /\ NewPosition(a, b, c) \in Position
    BY <1>1 DEF Absent, NewPosition
  <1>3. MarkActive(p, a) \in Position
    BY <1>1 DEF MarkActive
  <1>4. MarkSelling(p) \in Position
    BY <1>1 DEF MarkSelling
  <1>5. MarkClosed(p) \in Position
    BY <1>1 DEF MarkClosed
  <1>6. MarkFailed(p) \in Position
    BY <1>1 DEF MarkFailed
  <1>7. RestoreAfterSellAttempt(p, st) \in Position
    BY DEF RestoreAfterSellAttempt
  <1>8. SuspendAutoSell(p, st) \in Position
    BY <1>1 DEF SuspendAutoSell
  <1>9. ApplyPartialSell(p, a) \in Position
    <2>1. CASE a = 0 \/ a > p.tok
      BY <2>1 DEF ApplyPartialSell
    <2>2. CASE ~(a = 0 \/ a > p.tok)
      <3>1. p.tok - a \in Nat
        BY <2>2
      <3> QED  BY <1>1, <2>2, <3>1 DEF ApplyPartialSell
    <2> QED  BY <2>1, <2>2
  <1>10. RecordZeroBalanceSkip(p) \in Position
    BY <1>1 DEF RecordZeroBalanceSkip
  <1> QED
    BY <1>2, <1>3, <1>4, <1>5, <1>6, <1>7, <1>8, <1>9, <1>10

\* The witnesses the case splits below fall back on.
LEMMA SomeState == "Active" \in States /\ 0 \in Nat
  BY DEF States

\* No operation leaves the remains of a position under the name of none.
LEMMA PositionPresence ==
  ASSUME NEW p \in Position, p.st = "Absent" => p = Absent,
         NEW a \in Nat, NEW st \in States, st # "Absent"
  PROVE  /\ MarkActive(p, a).st = "Absent" => MarkActive(p, a) = Absent
         /\ MarkSelling(p).st # "Absent"
         /\ MarkClosed(p).st = "Absent" => MarkClosed(p) = Absent
         /\ MarkFailed(p).st = "Absent" => MarkFailed(p) = Absent
         /\ RestoreAfterSellAttempt(p, st).st = "Absent" =>
              RestoreAfterSellAttempt(p, st) = Absent
         /\ SuspendAutoSell(p, st).st = "Absent" => SuspendAutoSell(p, st) = Absent
         /\ ApplyPartialSell(p, a).st = "Absent" => ApplyPartialSell(p, a) = Absent
         /\ RecordZeroBalanceSkip(p).st = "Absent" => RecordZeroBalanceSkip(p) = Absent
  <1> USE DEF Position
  <1>1. MarkActive(p, a).st = "Absent" => MarkActive(p, a) = Absent
    BY DEF MarkActive
  <1>2. MarkSelling(p).st # "Absent"
    BY DEF MarkSelling
  <1>3. MarkClosed(p).st = "Absent" => MarkClosed(p) = Absent
    BY DEF MarkClosed
  <1>4. MarkFailed(p).st = "Absent" => MarkFailed(p) = Absent
    BY DEF MarkFailed
  <1>5. RestoreAfterSellAttempt(p, st).st = "Absent" => RestoreAfterSellAttempt(p, st) = Absent
    BY DEF RestoreAfterSellAttempt
  <1>6. SuspendAutoSell(p, st).st = "Absent" => SuspendAutoSell(p, st) = Absent
    BY DEF SuspendAutoSell
  <1>7. ApplyPartialSell(p, a).st = "Absent" => ApplyPartialSell(p, a) = Absent
    BY DEF ApplyPartialSell
  <1>8. RecordZeroBalanceSkip(p).st = "Absent" => RecordZeroBalanceSkip(p) = Absent
    BY DEF RecordZeroBalanceSkip
  <1> QED  BY <1>1, <1>2, <1>3, <1>4, <1>5, <1>6, <1>7, <1>8

\* A sale never takes more than the balance it read.
LEMMA SaleWithinBalance ==
  ASSUME NEW tok \in Nat, NEW b \in Nat, NEW whole \in BOOLEAN,
         NEW amt \in SaleAmounts(FullAmount(tok, b), whole)
  PROVE  amt \in Nat /\ amt <= b
  BY DEF SaleAmounts, FullAmount

\* Adding to a bag of amounts a bag of at most one more gives a bag of amounts.
LEMMA BagAdd ==
  ASSUME NEW B, IsABag(B), DOMAIN B \subseteq Nat, NEW x \in Nat
  PROVE  /\ IsABag(B (+) SetToBag({x})) /\ DOMAIN (B (+) SetToBag({x})) \subseteq Nat
         /\ IsABag(B (+) EmptyBag) /\ DOMAIN (B (+) EmptyBag) \subseteq Nat
  <1>1. IsABag(B (+) SetToBag({x})) /\ DOMAIN (B (+) SetToBag({x})) \subseteq Nat
    BY DEF IsABag, (+), SetToBag
  <1>2. IsABag(B (+) EmptyBag) /\ DOMAIN (B (+) EmptyBag) \subseteq Nat
    BY DEF IsABag, (+), EmptyBag, SetToBag
  <1> QED  BY <1>1, <1>2

\* Taking an amount out of a bag of amounts leaves a bag of amounts.
LEMMA BagRemove ==
  ASSUME NEW B, IsABag(B), DOMAIN B \subseteq Nat, NEW x \in Nat
  PROVE  IsABag(B (-) SetToBag({x})) /\ DOMAIN (B (-) SetToBag({x})) \subseteq Nat
  BY DEF IsABag, (-), SetToBag

\* The transaction left behind by an attempt joins the bag of strays.
LEMMA StraysGrow ==
  ASSUME TypeOK, NEW s \in Sellers
  PROVE  /\ IsABag(strays (+) InFlight(s))
         /\ DOMAIN (strays (+) InFlight(s)) \subseteq Nat
  BY BagAdd DEF TypeOK, InFlight, Job

\* The share of a position that a Telegram button sells is an amount.
LEMMA PercentOfNat ==
  ASSUME NEW n \in Nat, NEW percent \in Percents
  PROVE  (n * percent) \div 100 \in Nat
  <1>1. n * percent \in Nat
    BY AmountsAssumption
  <1> QED  BY <1>1

\* The records of a task at rest and of a buy not made have their types.
LEMMA JobTypes ==
  NoJob \in Job /\ NoBuy \in BuyRecord
  BY DEF NoJob, Job, NoBuy, BuyRecord, States, Legs, TxStatus
(***************************************************************************)
(* Types.  TypeInv falls into one part per group of variables, so that an  *)
(* action has only to show the parts it touches.                           *)
(***************************************************************************)

PosOK   == pos \in [Groups -> Position] /\ AbsentIsEmpty
BuysOK  == buys \in [Buys -> BuyRecord] /\ ConfirmTasks
JobsOK  == pc \in [Sellers -> PCs] /\ job \in [Sellers -> Job] /\ BusyJobs
ChainOK == /\ bal \in Nat /\ cache \in Nat \cup {NoEntry}
           /\ IsABag(strays) /\ DOMAIN strays \subseteq Nat
QueueOK == queue \in Seq(Signal)
FbOK    == /\ fb \in [pc: {"idle", "read", "wedged"}, grp: Groups \cup {NoGroup}, bal: Nat]
           /\ fb.pc = "read" => fb.grp \in Groups

\* TypeInv splits into one part per component, so that a step need only
\* speak of those it changes.
LEMMA TypeParts ==
  TypeInv <=> PosOK /\ BuysOK /\ JobsOK /\ ChainOK /\ QueueOK /\ FbOK
  BY DEF TypeInv, TypeOK, PosOK, BuysOK, JobsOK, ChainOK, QueueOK, FbOK

\* The same for the next state.
LEMMA TypePartsNext ==
  PosOK' /\ BuysOK' /\ JobsOK' /\ ChainOK' /\ QueueOK' /\ FbOK' => TypeInv'
  BY DEF TypeInv, TypeOK, PosOK, BuysOK, JobsOK, ChainOK, QueueOK, FbOK

\* Parts a step leaves alone keep their types.
LEMMA PosSame == ASSUME PosOK, UNCHANGED pos PROVE PosOK'
  BY DEF PosOK, AbsentIsEmpty

\* The same for the confirm tasks.
LEMMA BuysSame == ASSUME BuysOK, UNCHANGED buys PROVE BuysOK'
  BY DEF BuysOK, ConfirmTasks

\* The same for the selling tasks.
LEMMA JobsSame == ASSUME JobsOK, UNCHANGED <<pc, job>> PROVE JobsOK'
  BY DEF JobsOK, BusyJobs

\* The same for the chain and the cache.
LEMMA ChainSame == ASSUME ChainOK, UNCHANGED <<bal, cache, strays>> PROVE ChainOK'
  BY DEF ChainOK

\* The same for the signal channel.
LEMMA QueueSame == ASSUME QueueOK, UNCHANGED queue PROVE QueueOK'
  BY DEF QueueOK

\* The same for the fallback monitor.
LEMMA FbSame == ASSUME FbOK, UNCHANGED fb PROVE FbOK'
  BY DEF FbOK

\* One position replaced by a position.
LEMMA PosUpdate ==
  ASSUME PosOK, NEW g \in Groups, NEW p \in Position, p.st = "Absent" => p = Absent,
         pos' = [pos EXCEPT ![g] = p]
  PROVE  PosOK'
  BY DEF PosOK, AbsentIsEmpty

\* One confirm task replaced by one that has its buy.
LEMMA BuysUpdate ==
  ASSUME BuysOK, NEW b \in Buys, NEW r \in BuyRecord,
         r.tx # "none" => r.grp \in Groups,
         r.pc \in {"poll", "apply"} => r.tx # "none",
         r.pc = "apply" => r.seen > r.pre,
         buys' = [buys EXCEPT ![b] = r]
  PROVE  BuysOK'
  BY DEF BuysOK, ConfirmTasks

\* One selling task moved to another control point, with its position.
LEMMA JobsUpdate ==
  ASSUME JobsOK, NEW s \in Sellers, NEW j \in Job, NEW q \in PCs,
         q \notin {"idle", "cleanup"} => j.grp \in Groups /\ j.prev # "Absent",
         pc' = [pc EXCEPT ![s] = q],
         job' = [job EXCEPT ![s] = j]
  PROVE  JobsOK'
  BY DEF JobsOK, BusyJobs

\* A selling task that comes to rest.
LEMMA IdleJobs == ASSUME JobsOK, NEW s \in Sellers, Idle(s) PROVE JobsOK'
  BY JobsUpdate, JobTypes DEF Idle, PCs

\* The monitor, the channels and the map start empty.
LEMMA InitType == Init => TypeInv
  <1> SUFFICES ASSUME Init PROVE PosOK /\ BuysOK /\ JobsOK /\ ChainOK /\ QueueOK /\ FbOK
    BY TypeParts
  <1>1. PosOK
    BY PositionOps DEF Init, PosOK, AbsentIsEmpty, Absent, Position, States
  <1>2. BuysOK
    BY JobTypes DEF Init, BuysOK, ConfirmTasks, NoBuy
  <1>3. JobsOK
    BY JobTypes DEF Init, JobsOK, BusyJobs, PCs
  <1>4. ChainOK
    BY DEF Init, ChainOK, EmptyBag, SetToBag, IsABag
  <1>5. QueueOK /\ FbOK
    BY DEF Init, QueueOK, FbOK
  <1> QED  BY <1>1, <1>2, <1>3, <1>4, <1>5

\* execute_buy inserts a position that has its type.
LEMMA BuyType == ASSUME TypeInv, NEW g \in Groups, Buy(g) PROVE TypeInv'
  <1>1. PosOK /\ BuysOK /\ JobsOK /\ ChainOK /\ QueueOK /\ FbOK
    BY TypeParts
  <1>2. PICK b \in Buys, amt \in BuyAmounts, est \in Estimates :
          LET pre == IF cache = NoEntry THEN 0 ELSE cache IN
          /\ pos' = [pos EXCEPT ![g] = NewPosition(b, est, pre)]
          /\ buys' = [buys EXCEPT ![b] =
                        [grp |-> g, tx |-> "sent", amt |-> amt, est |-> est,
                         pre |-> pre, pc |-> "poll", seen |-> 0]]
    BY DEF Buy
  <1> DEFINE pre == IF cache = NoEntry THEN 0 ELSE cache
             r == [grp |-> g, tx |-> "sent", amt |-> amt, est |-> est,
                   pre |-> pre, pc |-> "poll", seen |-> 0]
  <1>3. b \in Nat /\ amt \in Nat /\ est \in Nat /\ pre \in Nat
    BY <1>1, AmountsAssumption, BoundsAssumption DEF Buys, ChainOK
  <1>4. PosOK'
    <2>1. NewPosition(b, est, pre) \in Position /\ NewPosition(b, est, pre).st # "Absent"
      BY <1>3 DEF NewPosition, Position, States
    <2> HIDE DEF pre
    <2> QED  BY <1>1, <1>2, <2>1, PosUpdate DEF pre
  <1>5. BuysOK'
    <2>1. r \in BuyRecord
      BY <1>3 DEF BuyRecord, TxStatus
    <2> QED  BY <1>1, <1>2, <2>1, BuysUpdate
  <1>6. JobsOK' /\ ChainOK' /\ QueueOK' /\ FbOK'
    BY <1>1, JobsSame, ChainSame, QueueSame, FbSame DEF Buy
  <1> QED  BY <1>4, <1>5, <1>6, TypePartsNext

\* The confirm task assigns a balance increase, which is not negative.
LEMMA ConfirmType == ASSUME TypeInv, NEW b \in Buys, ConfirmStep(b) PROVE TypeInv'
  <1>1. PosOK /\ BuysOK /\ JobsOK /\ ChainOK /\ QueueOK /\ FbOK
    BY TypeParts
  <1>2. JobsOK' /\ ChainOK' /\ QueueOK' /\ FbOK'
    BY <1>1, JobsSame, ChainSame, QueueSame, FbSame
       DEF ConfirmStep, ConfirmSees, ConfirmSuccess, ConfirmFailed
  <1>3. CASE ConfirmSees(b)
    <2>1. PICK v \in Seen : /\ buys[b].pc = "poll"
                            /\ v > buys[b].pre
                            /\ buys' = [buys EXCEPT ![b] =
                                          [buys[b] EXCEPT !.pc = "apply", !.seen = v]]
      BY <1>3 DEF ConfirmSees
    <2>2. v \in Nat
      BY <1>1 DEF Seen, ChainOK
    <2>3. BuysOK'
      <3> DEFINE r == [buys[b] EXCEPT !.pc = "apply", !.seen = v]
      <3>1. r \in BuyRecord /\ r.pc = "apply" /\ r.seen = v /\ r.pre = buys[b].pre
            /\ r.tx = buys[b].tx /\ r.grp = buys[b].grp
        BY <1>1, <2>2 DEF BuysOK, BuyRecord
      <3>2. buys[b].tx # "none" /\ buys[b].grp \in Groups
        BY <1>1, <2>1 DEF BuysOK, ConfirmTasks
      <3> HIDE DEF r
      <3> QED  BY <1>1, <2>1, <3>1, <3>2, BuysUpdate DEF r
    <2> QED  BY <1>1, <1>2, <1>3, <2>3, PosSame, TypePartsNext DEF ConfirmSees
  <1>4. ASSUME ConfirmOver(b) PROVE BuysOK'
    <2> DEFINE r == [buys[b] EXCEPT !.pc = "done", !.est = 0, !.pre = 0, !.seen = 0]
    <2>1. r \in BuyRecord /\ r.pc = "done" /\ r.tx = buys[b].tx /\ r.grp = buys[b].grp
      BY <1>1 DEF BuysOK, BuyRecord
    <2>2. r.tx # "none" => r.grp \in Groups
      BY <1>1, <2>1 DEF BuysOK, ConfirmTasks
    <2>3. buys' = [buys EXCEPT ![b] = r]
      BY <1>4 DEF ConfirmOver
    <2> HIDE DEF r
    <2> QED  BY <1>1, <2>1, <2>2, <2>3, BuysUpdate
  <1>5. CASE ConfirmSuccess(b)
    <2>1. buys[b].grp \in Groups /\ pos[buys[b].grp] \in Position
      BY <1>1, <1>5 DEF ConfirmSuccess, BuysOK, ConfirmTasks, PosOK
    <2>2. AssignedAmount(b) \in Nat
      BY <1>1, <1>5 DEF ConfirmSuccess, BuysOK, ConfirmTasks, BuyRecord, AssignedAmount
    <2> DEFINE p == MarkActive(pos[buys[b].grp], AssignedAmount(b))
    <2>3. p \in Position /\ (p.st = "Absent" => p = Absent)
      BY <1>1, <2>1, <2>2, PositionOps, PositionPresence, SomeState DEF PosOK, AbsentIsEmpty
    <2>4. pos' = [pos EXCEPT ![buys[b].grp] = p]
      BY <1>5 DEF ConfirmSuccess
    <2> HIDE DEF p
    <2>5. PosOK'
      BY <1>1, <2>1, <2>3, <2>4, PosUpdate
    <2> QED  BY <1>2, <1>4, <1>5, <2>5, TypePartsNext DEF ConfirmSuccess
  <1>6. CASE ConfirmFailed(b)
    <2>1. buys[b].grp \in Groups /\ pos[buys[b].grp] \in Position
      BY <1>1, <1>6 DEF ConfirmFailed, BuysOK, ConfirmTasks, PosOK
    <2> DEFINE p == MarkFailed(pos[buys[b].grp])
    <2>2. p \in Position /\ (p.st = "Absent" => p = Absent)
      BY <1>1, <2>1, PositionOps, PositionPresence, SomeState DEF PosOK, AbsentIsEmpty
    <2>3. pos' = [pos EXCEPT ![buys[b].grp] = p]
      BY <1>6 DEF ConfirmFailed
    <2> HIDE DEF p
    <2>4. PosOK'
      BY <1>1, <2>1, <2>2, <2>3, PosUpdate
    <2> QED  BY <1>2, <1>4, <1>6, <2>4, TypePartsNext DEF ConfirmFailed
  <1> QED  BY <1>3, <1>5, <1>6 DEF ConfirmStep

\* mark_failed keeps a map of positions one.
LEMMA FailType ==
  ASSUME PosOK, NEW g \in Groups, pos' = [pos EXCEPT ![g] = MarkFailed(pos[g])]
  PROVE  PosOK'
  <1>1. pos[g] \in Position /\ (pos[g].st = "Absent" => pos[g] = Absent)
    BY DEF PosOK, AbsentIsEmpty
  <1>2. MarkFailed(pos[g]) \in Position
    BY <1>1, PositionOps, SomeState
  <1>3. MarkFailed(pos[g]).st = "Absent" => MarkFailed(pos[g]) = Absent
    BY <1>1, PositionPresence, SomeState
  <1> QED  BY <1>2, <1>3, PosUpdate

\* The fallback monitor keeps the types.
LEMMA FallbackType ==
  ASSUME TypeInv, (\E g \in Groups : FallbackRead(g) \/ Retain(g)) \/ FallbackApply
  PROVE  TypeInv'
  <1>1. PosOK /\ BuysOK /\ JobsOK /\ ChainOK /\ QueueOK /\ FbOK
    BY TypeParts
  <1>2. BuysOK' /\ JobsOK' /\ ChainOK' /\ QueueOK'
    BY <1>1, BuysSame, JobsSame, ChainSame, QueueSame
       DEF FallbackRead, Retain, FallbackApply
  <1>3. CASE \E g \in Groups : FallbackRead(g)
    <2>1. PICK g \in Groups, v \in {bal, 0} : fb' = [pc |-> "read", grp |-> g, bal |-> v]
      BY <1>3 DEF FallbackRead
    <2>2. FbOK'
      BY <1>1, <2>1 DEF FbOK, ChainOK
    <2> QED  BY <1>1, <1>2, <1>3, <2>2, PosSame, TypePartsNext DEF FallbackRead
  <1>4. CASE \E g \in Groups : Retain(g)
    <2>1. PICK g \in Groups : pos' = [pos EXCEPT ![g] = Absent]
      BY <1>4 DEF Retain
    <2>2. Absent \in Position
      BY PositionOps, SomeState, <1>1, <2>1 DEF PosOK
    <2>3. PosOK'
      BY <1>1, <2>1, <2>2, PosUpdate
    <2> QED  BY <1>1, <1>2, <1>4, <2>3, FbSame, TypePartsNext DEF Retain
  <1>5. CASE FallbackApply
    <2>1. FbOK'
      BY <1>1, <1>5 DEF FallbackApply, FbOK
    <2>2. PosOK'
      <3>1. CASE UNCHANGED pos
        BY <1>1, <3>1, PosSame
      <3>2. CASE pos' = [pos EXCEPT ![fb.grp] = MarkFailed(pos[fb.grp])]
        BY <1>1, <1>5, <3>2, FailType DEF FallbackApply, FbOK
      <3> QED  BY <1>5, <3>1, <3>2 DEF FallbackApply
    <2> QED  BY <1>2, <2>1, <2>2, TypePartsNext
  <1> QED  BY <1>3, <1>4, <1>5

\* The exit monitors only send signals.
LEMMA ExitsType == ASSUME TypeInv, NEW g \in Groups, Exits(g) PROVE TypeInv'
  <1>1. PosOK /\ BuysOK /\ JobsOK /\ ChainOK /\ QueueOK /\ FbOK
    BY TypeParts
  <1>2. PICK manual \in BOOLEAN, whole \in BOOLEAN : Emit(g, manual, whole)
    BY AmountsAssumption DEF Exits, PriceExit, CappedExit, ManualExit
  <1>3. QueueOK'
    BY <1>1, <1>2 DEF Emit, QueueOK, Signal
  <1> QED
    BY <1>1, <1>2, <1>3, PosSame, BuysSame, JobsSame, ChainSame, FbSame, TypePartsNext
       DEF Emit

\* A selling task that starts on a position that is there.
LEMMA StartType ==
  ASSUME PosOK, JobsOK, NEW s \in Sellers, NEW g \in Groups, pos[g].st # "Absent",
         NEW manual \in BOOLEAN, NEW whole \in BOOLEAN, Start(s, g, manual, whole)
  PROVE  JobsOK'
  <1> DEFINE j == [NoJob EXCEPT !.grp = g, !.prev = pos[g].st, !.tok = pos[g].tok,
                                !.manual = manual, !.whole = whole]
  <1>1. pos[g].st \in States /\ pos[g].tok \in Nat
    BY DEF PosOK, Position
  <1>2. j \in Job /\ j.grp \in Groups /\ j.prev # "Absent"
    BY <1>1, JobTypes DEF Job, NoJob
  <1>3. job' = [job EXCEPT ![s] = j] /\ pc' = [pc EXCEPT ![s] = "read"]
    BY DEF Start
  <1>4. "read" \in PCs
    BY DEF PCs
  <1> HIDE DEF j
  <1> QED  BY <1>2, <1>3, <1>4, JobsUpdate

\* The Telegram task starts only on a position that holds something.
LEMMA HeldIsPresent ==
  ASSUME PosOK, NEW g \in Groups, pos[g].tok > 0
  PROVE  pos[g].st # "Absent"
  BY DEF PosOK, AbsentIsEmpty, Absent

\* The signal consumer keeps the types.
LEMMA TakeType == ASSUME TypeInv, TakeSignal PROVE TypeInv'
  <1>1. PosOK /\ BuysOK /\ JobsOK /\ ChainOK /\ QueueOK /\ FbOK
    BY TypeParts
  <1>2. queue # <<>> /\ queue' = Tail(queue)
    BY DEF TakeSignal
  <1>3. QueueOK' /\ Head(queue) \in Signal
    BY <1>1, <1>2 DEF QueueOK
  <1>4. Head(queue).grp \in Groups /\ Head(queue).manual \in BOOLEAN
        /\ Head(queue).whole \in BOOLEAN
    BY <1>3 DEF Signal
  <1>5. JobsOK'
    <2>1. CASE UNCHANGED <<pc, job>>
      BY <1>1, <2>1, JobsSame
    <2>2. CASE /\ pos[Head(queue).grp].st # "Absent"
               /\ Start("exec", Head(queue).grp, Head(queue).manual, Head(queue).whole)
      BY <1>1, <1>4, <2>2, StartType DEF Sellers
    <2> QED  BY <2>1, <2>2 DEF TakeSignal
  <1> QED
    BY <1>1, <1>3, <1>5, PosSame, BuysSame, ChainSame, FbSame, TypePartsNext DEF TakeSignal

\* The Telegram task keeps the types when it starts.
LEMMA TgStartType ==
  ASSUME TypeInv, NEW g \in Groups, TgSellAll(g) \/ TgSellPart(g) PROVE TypeInv'
  <1>1. PosOK /\ BuysOK /\ JobsOK /\ ChainOK /\ QueueOK /\ FbOK
    BY TypeParts
  <1>2. pos[g].st # "Absent"
    BY <1>1, HeldIsPresent DEF TgSellAll, TgSellPart
  <1>3. JobsOK'
    <2>1. CASE TgSellAll(g)
      BY <1>1, <1>2, <2>1, StartType DEF TgSellAll, Sellers
    <2>2. CASE TgSellPart(g)
      <3>1. PICK percent \in Percents :
              job' = [job EXCEPT !["tg"] =
                 [NoJob EXCEPT !.grp = g, !.prev = pos[g].st, !.tok = pos[g].tok,
                               !.amt = (pos[g].tok * percent) \div 100,
                               !.manual = TRUE, !.whole = FALSE]]
        BY <2>2 DEF TgSellPart
      <3>2. pos[g].st \in States /\ pos[g].tok \in Nat
        BY <1>1 DEF PosOK, Position
      <3>3. (pos[g].tok * percent) \div 100 \in Nat
        BY <3>2, PercentOfNat
      <3> DEFINE amt == (pos[g].tok * percent) \div 100
                 j == [NoJob EXCEPT !.grp = g, !.prev = pos[g].st, !.tok = pos[g].tok,
                                    !.amt = amt, !.manual = TRUE, !.whole = FALSE]
      <3>4. amt \in Nat
        BY <3>3
      <3>5. job' = [job EXCEPT !["tg"] = j]
        BY <3>1
      <3> HIDE DEF amt
      <3>6. j \in Job /\ j.grp \in Groups /\ j.prev # "Absent"
        BY <1>2, <3>2, <3>4 DEF Job, NoJob, Legs, TxStatus
      <3>7. pc' = [pc EXCEPT !["tg"] = "pmark"] /\ "pmark" \in PCs /\ "tg" \in Sellers
        BY <2>2 DEF TgSellPart, PCs, Sellers
      <3> HIDE DEF j
      <3> QED  BY <1>1, <3>5, <3>6, <3>7, JobsUpdate
    <2> QED  BY <2>1, <2>2
  <1> QED
    BY <1>1, <1>3, PosSame, BuysSame, ChainSame, QueueSame, FbSame, TypePartsNext
       DEF TgSellAll, TgSellPart

\* What a task at work knows of its position.
LEMMA AtWork ==
  ASSUME PosOK, JobsOK, NEW s \in Sellers, pc[s] \notin {"idle", "cleanup"}
  PROVE  /\ job[s] \in Job /\ job[s].grp \in Groups
         /\ job[s].prev \in States /\ job[s].prev # "Absent"
         /\ job[s].tok \in Nat /\ job[s].amt \in Nat /\ job[s].after \in Nat
         /\ job[s].n \in Nat /\ job[s].whole \in BOOLEAN
         /\ pos[job[s].grp] \in Position
         /\ pos[job[s].grp].st = "Absent" => pos[job[s].grp] = Absent
  BY DEF PosOK, AbsentIsEmpty, JobsOK, BusyJobs, Job

\* The balance query keeps the types: what is left over is not negative.
LEMMA ReadType == ASSUME TypeInv, NEW s \in Sellers, ReadBalance(s) PROVE TypeInv'
  <1>1. PosOK /\ BuysOK /\ JobsOK /\ ChainOK /\ QueueOK /\ FbOK
    BY TypeParts
  <1>2. BuysOK' /\ ChainOK' /\ QueueOK' /\ FbOK'
    BY <1>1, BuysSame, ChainSame, QueueSame, FbSame DEF ReadBalance
  <1>3. pc[s] = "read"
    BY DEF ReadBalance
  <1> DEFINE g == job[s].grp
  <1>4. PICK b \in Balances : \E amt \in SaleAmounts(FullAmount(job[s].tok, b), job[s].whole) :
          IF amt = 0
          THEN LET p == RecordZeroBalanceSkip(pos[g]) IN
               /\ pos' = [pos EXCEPT ![g] = IF p.skips >= MaxSkips THEN MarkFailed(p) ELSE p]
               /\ Idle(s)
          ELSE /\ job' = [job EXCEPT ![s].tok = 0, ![s].whole = TRUE,
                                     ![s].amt = amt, ![s].after = b - amt]
               /\ pc' = [pc EXCEPT ![s] = "mark"]
               /\ UNCHANGED pos
    BY DEF ReadBalance
  <1>5. PICK amt \in SaleAmounts(FullAmount(job[s].tok, b), job[s].whole) :
          IF amt = 0
          THEN LET p == RecordZeroBalanceSkip(pos[g]) IN
               /\ pos' = [pos EXCEPT ![g] = IF p.skips >= MaxSkips THEN MarkFailed(p) ELSE p]
               /\ Idle(s)
          ELSE /\ job' = [job EXCEPT ![s].tok = 0, ![s].whole = TRUE,
                                     ![s].amt = amt, ![s].after = b - amt]
               /\ pc' = [pc EXCEPT ![s] = "mark"]
               /\ UNCHANGED pos
    BY <1>4
  <1>6. b \in Nat
    BY <1>1 DEF Balances, ChainOK, NoEntry
  <1>7. amt \in Nat /\ amt <= b
    BY <1>1, <1>3, <1>6, AtWork, SaleWithinBalance
  <1>8. CASE amt = 0
    <2> DEFINE p == RecordZeroBalanceSkip(pos[g])
               q == IF p.skips >= MaxSkips THEN MarkFailed(p) ELSE p
    <2>1. g \in Groups /\ p \in Position /\ (p.st = "Absent" => p = Absent)
      BY <1>1, <1>3, AtWork, PositionOps, PositionPresence, SomeState
    <2>2. pos' = [pos EXCEPT ![g] = q] /\ Idle(s)
      BY <1>5, <1>8
    <2> HIDE DEF p
    <2>3. MarkFailed(p) \in Position /\ (MarkFailed(p).st = "Absent" => MarkFailed(p) = Absent)
      BY <2>1, PositionOps, PositionPresence, SomeState
    <2>4. q \in Position /\ (q.st = "Absent" => q = Absent)
      BY <2>1, <2>3
    <2> HIDE DEF q, g
    <2> QED  BY <1>1, <1>2, <2>1, <2>2, <2>4, PosUpdate, IdleJobs, TypePartsNext
  <1>9. CASE amt # 0
    <2> DEFINE j == [job[s] EXCEPT !.tok = 0, !.whole = TRUE, !.amt = amt, !.after = b - amt]
    <2>1. b - amt \in Nat
      BY <1>6, <1>7
    <2>2. j \in Job /\ j.grp = job[s].grp /\ j.prev = job[s].prev
      BY <1>1, <1>7, <2>1 DEF JobsOK, Job
    <2>3. j.grp \in Groups /\ j.prev # "Absent"
      BY <1>1, <1>3, <2>2, AtWork
    <2>4. job' = [job EXCEPT ![s] = j] /\ pc' = [pc EXCEPT ![s] = "mark"] /\ UNCHANGED pos
      BY <1>5, <1>9
    <2>5. "mark" \in PCs
      BY DEF PCs
    <2> HIDE DEF j
    <2> QED  BY <1>1, <1>2, <2>2, <2>3, <2>4, <2>5, PosSame, JobsUpdate, TypePartsNext
  <1> QED  BY <1>8, <1>9

\* mark_selling, granted or refused, keeps the types.
LEMMA ClaimType ==
  ASSUME PosOK, JobsOK, NEW s \in Sellers, pc[s] \notin {"idle", "cleanup"},
         NEW next \in {"send", "psend"}, Claim(s, next)
  PROVE  PosOK' /\ JobsOK'
  <1> DEFINE g == job[s].grp
  <1>1. CASE MarkSellingOk(pos[g])
    <2> DEFINE j == [job[s] EXCEPT !.n = 1]
    <2>1. g \in Groups /\ MarkSelling(pos[g]) \in Position /\ MarkSelling(pos[g]).st # "Absent"
      BY AtWork, PositionOps, PositionPresence, SomeState
    <2>2. PosOK'
      BY <1>1, <2>1, PosUpdate DEF Claim
    <2>3. j \in Job /\ j.grp \in Groups /\ j.prev # "Absent"
      BY AtWork DEF Job
    <2>4. job' = [job EXCEPT ![s] = j] /\ pc' = [pc EXCEPT ![s] = next] /\ next \in PCs
      BY <1>1 DEF Claim, PCs
    <2> HIDE DEF j
    <2> QED  BY <2>2, <2>3, <2>4, JobsUpdate
  <1>2. CASE ~MarkSellingOk(pos[g])
    BY <1>2, PosSame, IdleJobs DEF Claim
  <1> QED  BY <1>1, <1>2

\* Restoring or suspending a position keeps the types.
LEMMA GiveUpType ==
  ASSUME PosOK, JobsOK, NEW s \in Sellers, pc[s] \notin {"idle", "cleanup"}, GiveUp(s)
  PROVE  PosOK' /\ JobsOK'
  <1> DEFINE g == job[s].grp
             p == IF ~job[s].manual /\ pos[g].tries >= MaxAttempts
                  THEN SuspendAutoSell(pos[g], job[s].prev)
                  ELSE RestoreAfterSellAttempt(pos[g], job[s].prev)
  <1>1. /\ g \in Groups
        /\ SuspendAutoSell(pos[g], job[s].prev) \in Position
        /\ RestoreAfterSellAttempt(pos[g], job[s].prev) \in Position
    BY AtWork, PositionOps, SomeState
  <1>2. /\ SuspendAutoSell(pos[g], job[s].prev).st = "Absent" =>
             SuspendAutoSell(pos[g], job[s].prev) = Absent
        /\ RestoreAfterSellAttempt(pos[g], job[s].prev).st = "Absent" =>
             RestoreAfterSellAttempt(pos[g], job[s].prev) = Absent
    BY AtWork, PositionPresence, SomeState
  <1>3. p \in Position /\ (p.st = "Absent" => p = Absent)
    BY <1>1, <1>2
  <1>4. pos' = [pos EXCEPT ![g] = p] /\ Idle(s)
    BY DEF GiveUp
  <1> HIDE DEF p
  <1> QED  BY <1>1, <1>3, <1>4, PosUpdate, IdleJobs

\* So is the next attempt, or the end of the retry loop.
LEMMA NextAttemptType ==
  ASSUME PosOK, JobsOK, NEW s \in Sellers, pc[s] \notin {"idle", "cleanup"}, NextAttempt(s)
  PROVE  PosOK' /\ JobsOK'
  <1>1. CASE job[s].n < MaxRetries
    <2> DEFINE j == [job[s] EXCEPT !.n = job[s].n + 1]
    <2>1. j \in Job /\ j.grp \in Groups /\ j.prev # "Absent"
      BY AtWork DEF Job
    <2>2. job' = [job EXCEPT ![s] = j] /\ pc' = [pc EXCEPT ![s] = "send"] /\ "send" \in PCs
      BY <1>1 DEF NextAttempt, PCs
    <2> HIDE DEF j
    <2> QED  BY <1>1, <2>1, <2>2, JobsUpdate, PosSame DEF NextAttempt
  <1>2. CASE ~(job[s].n < MaxRetries)
    BY <1>2, GiveUpType DEF NextAttempt
  <1> QED  BY <1>1, <1>2

\* Sending a sale keeps the types.
LEMMA SentType ==
  ASSUME PosOK, JobsOK, NEW s \in Sellers, pc[s] \notin {"idle", "cleanup"},
         NEW leg \in Legs, Sent(s, leg)
  PROVE  PosOK' /\ JobsOK'
  <1> DEFINE j == [job[s] EXCEPT !.leg = leg, !.tx = "sent"]
  <1>1. j \in Job /\ j.grp \in Groups /\ j.prev # "Absent"
    BY AtWork DEF Job, TxStatus
  <1>2. job' = [job EXCEPT ![s] = j] /\ pc' = [pc EXCEPT ![s] = "wait"] /\ "wait" \in PCs
    BY DEF Sent, PCs
  <1> HIDE DEF j
  <1> QED  BY <1>1, <1>2, JobsUpdate, PosSame DEF Sent

\* mark_closed and apply_partial_sell keep the types.
LEMMA FinishType ==
  ASSUME PosOK, JobsOK, NEW s \in Sellers, pc[s] \notin {"idle", "cleanup"}, Finish(s)
  PROVE  PosOK' /\ JobsOK'
  <1> DEFINE g == job[s].grp
             p == IF job[s].after = 0 THEN MarkClosed(pos[g])
                  ELSE ApplyPartialSell(pos[g], job[s].amt)
  <1>1. g \in Groups /\ MarkClosed(pos[g]) \in Position
        /\ ApplyPartialSell(pos[g], job[s].amt) \in Position
    BY AtWork, PositionOps, SomeState
  <1>2. /\ MarkClosed(pos[g]).st = "Absent" => MarkClosed(pos[g]) = Absent
        /\ ApplyPartialSell(pos[g], job[s].amt).st = "Absent" =>
             ApplyPartialSell(pos[g], job[s].amt) = Absent
    BY AtWork, PositionPresence, SomeState
  <1>3. p \in Position /\ (p.st = "Absent" => p = Absent)
    BY <1>1, <1>2
  <1>4. pos' = [pos EXCEPT ![g] = p]
    BY DEF Finish
  <1> HIDE DEF p
  <1>5. PosOK'
    BY <1>1, <1>3, <1>4, PosUpdate
  <1>6. PICK q \in {"idle", "cleanup"} : pc' = [pc EXCEPT ![s] = q]
    BY DEF Finish
  <1>7. JobsOK'
    BY <1>6, JobTypes, JobsUpdate DEF Finish, PCs
  <1> QED  BY <1>5, <1>7

\* Every step of handle_sell_signal keeps the types.
LEMMA SellerType == ASSUME TypeInv, NEW s \in Sellers, SellerStep(s) PROVE TypeInv'
  <1>1. PosOK /\ BuysOK /\ JobsOK /\ ChainOK /\ QueueOK /\ FbOK
    BY TypeParts
  <1>2. TypeOK
    BY DEF TypeInv
  <1>3. CASE ReadBalance(s)
    BY <1>3, ReadType
  <1>4. CASE MarkForSale(s)
    BY <1>1, <1>4, ClaimType, BuysSame, ChainSame, QueueSame, FbSame, TypePartsNext
       DEF MarkForSale
  <1>5. CASE SendSale(s)
    <2>1. PosOK' /\ JobsOK'
      BY <1>1, <1>5, SentType, NextAttemptType DEF SendSale, Legs
    <2> QED
      BY <1>1, <1>5, <2>1, BuysSame, ChainSame, QueueSame, FbSame, TypePartsNext
         DEF SendSale
  <1>6. CASE SaleConfirmed(s)
    <2>1. PosOK' /\ JobsOK'
      BY <1>1, <1>6, FinishType DEF SaleConfirmed
    <2>2. ChainOK'
      BY <1>1, <1>2, <1>6, StraysGrow DEF SaleConfirmed, ChainOK
    <2> QED
      BY <1>1, <1>6, <2>1, <2>2, BuysSame, QueueSame, FbSame, TypePartsNext
         DEF SaleConfirmed
  <1>7. CASE SaleErrorSeen(s)
    <2>1. PosOK' /\ JobsOK'
      BY <1>1, <1>7, SentType, GiveUpType DEF SaleErrorSeen, Legs
    <2> QED
      BY <1>1, <1>7, <2>1, BuysSame, ChainSame, QueueSame, FbSame, TypePartsNext
         DEF SaleErrorSeen
  <1>8. CASE SaleTimedOut(s)
    <2>1. PosOK' /\ JobsOK'
      BY <1>1, <1>8, GiveUpType, NextAttemptType DEF SaleTimedOut
    <2>2. ChainOK'
      BY <1>1, <1>2, <1>8, StraysGrow DEF SaleTimedOut, ChainOK
    <2> QED
      BY <1>1, <1>8, <2>1, <2>2, BuysSame, QueueSame, FbSame, TypePartsNext
         DEF SaleTimedOut
  <1>9. CASE Cleanup(s)
    <2>1. ChainOK'
      BY <1>1, <1>9 DEF Cleanup, ChainOK
    <2> QED
      BY <1>1, <1>9, <2>1, PosSame, IdleJobs, BuysSame, QueueSame, FbSame, TypePartsNext
         DEF Cleanup
  <1> QED  BY <1>3, <1>4, <1>5, <1>6, <1>7, <1>8, <1>9 DEF SellerStep

\* Every step of a partial Telegram sale keeps the types.
LEMMA PartType == ASSUME TypeInv, PartStep PROVE TypeInv'
  <1>1. PosOK /\ BuysOK /\ JobsOK /\ ChainOK /\ QueueOK /\ FbOK
    BY TypeParts
  <1>2. TypeOK /\ "tg" \in Sellers
    BY DEF TypeInv, Sellers
  <1>3. CASE MarkForPart
    BY <1>1, <1>2, <1>3, ClaimType, BuysSame, ChainSame, QueueSame, FbSame, TypePartsNext
       DEF MarkForPart
  <1>4. CASE SendPart
    <2> DEFINE g == job["tg"].grp
               sold == ApplyPartialSell(pos[g], job["tg"].amt)
               kept == RestoreAfterSellAttempt(pos[g], job["tg"].prev)
    <2>1. pc["tg"] \notin {"idle", "cleanup"}
      BY <1>4 DEF SendPart
    <2>2. g \in Groups /\ sold \in Position /\ kept \in Position
      BY <1>1, <1>2, <2>1, AtWork, PositionOps, SomeState
    <2>3. (sold.st = "Absent" => sold = Absent) /\ (kept.st = "Absent" => kept = Absent)
      BY <1>1, <1>2, <2>1, AtWork, PositionPresence, SomeState
    <2>4. pos' = [pos EXCEPT ![g] = sold] \/ pos' = [pos EXCEPT ![g] = kept]
      BY <1>4 DEF SendPart
    <2>5. PosOK'
      <3> HIDE DEF sold, kept, g
      <3> QED  BY <1>1, <2>2, <2>3, <2>4, PosUpdate
    <2>6. ChainOK'
      BY <1>1, <1>2, <1>4, StraysGrow DEF SendPart, ChainOK
    <2>7. JobsOK'
      BY <1>1, <1>2, <1>4, IdleJobs DEF SendPart
    <2> QED
      BY <1>1, <1>4, <2>5, <2>6, <2>7, BuysSame, QueueSame, FbSame, TypePartsNext
         DEF SendPart
  <1> QED  BY <1>3, <1>4 DEF PartStep

\* The chain and the account stream keep the types: balances are not negative.
LEMMA ChainType ==
  ASSUME TypeInv,
         \/ \E b \in Buys : LandBuy(b)
         \/ \E s \in Sellers : LandSale(s)
         \/ \E amt \in BagToSet(strays) : LandStray(amt)
         \/ BalanceUpdate
  PROVE  TypeInv'
  <1>1. PosOK /\ BuysOK /\ JobsOK /\ ChainOK /\ QueueOK /\ FbOK
    BY TypeParts
  <1>2. ASSUME NEW b \in Buys, LandBuy(b) PROVE TypeInv'
    <2>1. buys[b] \in BuyRecord /\ buys[b].amt \in Nat
      BY <1>1 DEF BuysOK, BuyRecord
    <2>2. ChainOK'
      BY <1>1, <1>2, <2>1 DEF LandBuy, ChainOK
    <2>3. PICK tx \in {"ok", "err"} :
            buys' = [buys EXCEPT ![b] = [buys[b] EXCEPT !.tx = tx, !.amt = 0]]
      BY <1>2 DEF LandBuy
    <2> DEFINE r == [buys[b] EXCEPT !.tx = tx, !.amt = 0]
    <2>4. r \in BuyRecord /\ r.tx # "none" /\ r.grp = buys[b].grp /\ r.pc = buys[b].pc
          /\ r.seen = buys[b].seen /\ r.pre = buys[b].pre
      BY <2>1 DEF BuyRecord, TxStatus
    <2>5. buys[b].grp \in Groups /\ (buys[b].pc = "apply" => buys[b].seen > buys[b].pre)
      BY <1>1, <1>2 DEF LandBuy, BuysOK, ConfirmTasks
    <2>6. buys' = [buys EXCEPT ![b] = r]
      BY <2>3
    <2> HIDE DEF r
    <2>7. BuysOK'
      BY <1>1, <2>4, <2>5, <2>6, BuysUpdate
    <2> QED
      BY <1>1, <1>2, <2>2, <2>7, PosSame, JobsSame, QueueSame, FbSame, TypePartsNext
         DEF LandBuy
  <1>3. ASSUME NEW s \in Sellers, LandSale(s) PROVE TypeInv'
    <2>1. job[s].amt \in Nat /\ pc[s] = "wait"
      BY <1>1, <1>3 DEF LandSale, JobsOK, Job
    <2>2. ChainOK'
      BY <1>1, <1>3, <2>1 DEF LandSale, ChainOK
    <2>3. PICK tx \in {"ok", "err"} : job' = [job EXCEPT ![s] = [job[s] EXCEPT !.tx = tx]]
      BY <1>3 DEF LandSale
    <2> DEFINE j == [job[s] EXCEPT !.tx = tx]
    <2>4. j \in Job /\ j.grp \in Groups /\ j.prev # "Absent"
      BY <1>1, <2>1, AtWork DEF Job, TxStatus
    <2>5. job' = [job EXCEPT ![s] = j] /\ pc' = [pc EXCEPT ![s] = "wait"] /\ "wait" \in PCs
      BY <1>1, <1>3, <2>1, <2>3 DEF LandSale, JobsOK, PCs
    <2> HIDE DEF j
    <2> QED
      BY <1>1, <1>3, <2>2, <2>4, <2>5, JobsUpdate, PosSame, BuysSame, QueueSame, FbSame,
         TypePartsNext DEF LandSale
  <1>4. ASSUME NEW amt \in BagToSet(strays), LandStray(amt) PROVE TypeInv'
    <2>1. amt \in Nat
      BY <1>1 DEF ChainOK, BagToSet
    <2>2. ChainOK'
      BY <1>1, <1>4, <2>1, BagRemove DEF LandStray, ChainOK
    <2> QED
      BY <1>1, <1>4, <2>2, PosSame, BuysSame, JobsSame, QueueSame, FbSame, TypePartsNext
         DEF LandStray
  <1>5. CASE BalanceUpdate
    <2>1. ChainOK'
      BY <1>1, <1>5 DEF BalanceUpdate, ChainOK
    <2> QED
      BY <1>1, <1>5, <2>1, PosSame, BuysSame, JobsSame, QueueSame, FbSame, TypePartsNext
         DEF BalanceUpdate
  <1> QED  BY <1>2, <1>3, <1>4, <1>5

\* TypeInv is inductive.
LEMMA TypeStep == TypeInv /\ [Next]_vars => TypeInv'
  <1> SUFFICES ASSUME TypeInv, [Next]_vars PROVE TypeInv'
    OBVIOUS
  <1>1. CASE UNCHANGED vars
    BY <1>1, TypeParts, PosSame, BuysSame, JobsSame, ChainSame, QueueSame, FbSame,
       TypePartsNext DEF vars
  <1>2. CASE Next
    BY <1>2, BuyType, FallbackType, ExitsType, TgStartType, TakeType, SellerType, PartType,
       ConfirmType, ChainType DEF Next
  <1> QED  BY <1>1, <1>2

\* Every behaviour keeps the types: no amount and no balance ever goes below
\* zero, and every task at work has a position it started on.
THEOREM TypeCorrect == Spec => []TypeInv
  <1>1. Init => TypeInv
    BY InitType
  <1>2. TypeInv /\ [Next]_vars => TypeInv'
    BY TypeStep
  <1> QED  BY <1>1, <1>2, PTL DEF Spec

\* In particular, TypeOK: amounts and balances never go below zero.
THEOREM TypeSafe == Spec => []TypeOK
  <1>1. TypeInv => TypeOK
    BY DEF TypeInv
  <1> QED  BY <1>1, TypeCorrect, PTL

(***************************************************************************)
(* Exclusion and finality.  Towards one group a step is one of four: quiet *)
(* (nobody starts to sell, the position only fails, is confirmed or is     *)
(* dropped), a claim by mark_selling, a release, or a buy.                 *)
(***************************************************************************)

GroupSafe(g) ==
  BoughtOnce(g) =>
    /\ \A s \in Sellers : SellsNow(s, g) => pos[g].st \in {"Selling", "Failed", "Absent"}
    /\ \A s, t \in Sellers : SellsNow(s, g) /\ SellsNow(t, g) => s = t
    /\ pos[g].sold => /\ pos[g].st \in {"Closed", "Failed"}
                      /\ \A s \in Sellers : ~SellsNow(s, g)

GroupIdle(g) ==
  (\A b \in Buys : ~BoughtBy(b, g)) =>
    pos[g].st = "Absent" /\ \A s \in Sellers : job[s].grp # g

\* SaleInv is a statement about each group by itself.
LEMMA SaleParts == SaleInv <=> \A g \in Groups : GroupSafe(g) /\ GroupIdle(g)
  BY DEF SaleInv, GroupSafe, GroupIdle, UnboughtIsIdle, SectionMarked, SellExclusion,
         SoldUnowned, ClosedIsFinal

\* The same for the next state.
LEMMA SalePartsNext == (\A g \in Groups : GroupSafe(g)' /\ GroupIdle(g)') => SaleInv'
  BY DEF SaleInv, GroupSafe, GroupIdle, UnboughtIsIdle, SectionMarked, SellExclusion,
         SoldUnowned, ClosedIsFinal

\* What happens to a position while nobody starts or ends a sale of it.
Quiet(p, q) ==
  \/ q.st = "Absent" /\ ~q.sold
  \/ /\ q.sold = p.sold
     /\ \/ q.st = p.st
        \/ p.st # "Absent" /\ q.st = "Failed"
        \/ p.st = "Confirming" /\ q.st = "Active"

\* What the end of a sale may leave behind.
Released(p, q) ==
  /\ q.sold => p.sold \/ q.st = "Closed"
  /\ p.st = "Absent" => q.st = "Absent"

\* What each operation of position.rs does to a position's state and sold mark.
LEMMA PositionEffects ==
  ASSUME NEW p \in Position, p.st = "Absent" => p = Absent, NEW a \in Nat, NEW st \in States
  PROVE  /\ Quiet(p, p) /\ Quiet(p, Absent)
         /\ Quiet(p, MarkActive(p, a)) /\ Quiet(p, MarkFailed(p))
         /\ Quiet(p, RecordZeroBalanceSkip(p))
         /\ Quiet(p, MarkFailed(RecordZeroBalanceSkip(p)))
         /\ MarkSelling(p).st = "Selling" /\ MarkSelling(p).sold = p.sold
         /\ Released(p, MarkClosed(p)) /\ Released(p, ApplyPartialSell(p, a))
         /\ Released(p, RestoreAfterSellAttempt(p, st)) /\ Released(p, SuspendAutoSell(p, st))
  <1> USE DEF Position, Quiet, Released
  <1>1. Quiet(p, p) /\ Quiet(p, Absent)
    BY DEF Absent
  <1>2. Quiet(p, MarkActive(p, a))
    BY DEF MarkActive
  <1>3. Quiet(p, MarkFailed(p))
    BY DEF MarkFailed
  <1>4. Quiet(p, RecordZeroBalanceSkip(p))
    BY DEF RecordZeroBalanceSkip
  <1>5. Quiet(p, MarkFailed(RecordZeroBalanceSkip(p)))
    BY DEF MarkFailed, RecordZeroBalanceSkip
  <1>6. MarkSelling(p).st = "Selling" /\ MarkSelling(p).sold = p.sold
    BY DEF MarkSelling
  <1>7. Released(p, MarkClosed(p))
    BY DEF MarkClosed
  <1>8. Released(p, ApplyPartialSell(p, a))
    BY DEF ApplyPartialSell, Absent
  <1>9. Released(p, RestoreAfterSellAttempt(p, st))
    BY DEF RestoreAfterSellAttempt
  <1>10. Released(p, SuspendAutoSell(p, st))
    BY DEF SuspendAutoSell
  <1> QED  BY <1>1, <1>2, <1>3, <1>4, <1>5, <1>6, <1>7, <1>8, <1>9, <1>10

\* Only a buy changes which group bought.
SameBuyers == \A b \in Buys : \A g \in Groups : BoughtBy(b, g)' <=> BoughtBy(b, g)

\* A task works on for a group with the snapshot it took of a position there.
TookOrKept(t, g) ==
  job'[t].grp = g =>
    \/ job[t].grp = g /\ job'[t].prev = job[t].prev
    \/ /\ ~InSection(t)' /\ pos'[g] = pos[g]
       /\ job'[t].prev = pos[g].st /\ pos[g].st # "Absent"

\* Nor does any step but a buy put a position where none was.  One position
\* changes at a time.
Common ==
  /\ SameBuyers
  /\ \A g \in Groups : pos[g].st = "Absent" => pos'[g].st = "Absent"
  /\ \A g \in Groups, t \in Sellers : TookOrKept(t, g)
  /\ \A g, h \in Groups : pos'[g] # pos[g] /\ pos'[h] # pos[h] => g = h

SameSale(t, g) == SellsNow(t, g)' <=> SellsNow(t, g)

QuietMove ==
  /\ Common
  /\ \A t \in Sellers, g \in Groups : SameSale(t, g)
  /\ \A g \in Groups : Quiet(pos[g], pos'[g])

\* A move of one task towards one group leaves the others alone.
OnlyFor(s, g) ==
  /\ Common
  /\ \A h \in Groups : h # g => pos'[h] = pos[h]
  /\ \A t \in Sellers, h \in Groups : <<t, h>> # <<s, g>> => SameSale(t, h)

ClaimMove(s, g) ==
  /\ OnlyFor(s, g)
  /\ ~SellsNow(s, g) /\ SellsNow(s, g)'
  /\ pos[g].st \in {"Active", "Confirming"}
  /\ pos'[g].st = "Selling" /\ pos'[g].sold = pos[g].sold

\* What s leaves behind is Selling only if it restores that, or had its part refused.
LetsGo(s, q) == SaleFits(s) /\ q.st = "Selling" => job[s].prev = "Selling"

ReleaseMove(s, g) ==
  /\ OnlyFor(s, g)
  /\ SellsNow(s, g) /\ ~SellsNow(s, g)'
  /\ Released(pos[g], pos'[g]) /\ LetsGo(s, pos'[g])

Move ==
  QuietMove \/ \E s \in Sellers, g \in Groups : ClaimMove(s, g) \/ ReleaseMove(s, g)

\* The parts of TypeInv the arguments below use.
LEMMA AllTyped ==
  ASSUME TypeInv
  PROVE  /\ \A g \in Groups : pos[g] \in Position /\ (pos[g].st = "Absent" => pos[g] = Absent)
         /\ \A s \in Sellers : job[s] \in Job /\ pc[s] \in PCs
         /\ pos \in [Groups -> Position] /\ job \in [Sellers -> Job]
         /\ pc \in [Sellers -> PCs] /\ buys \in [Buys -> BuyRecord]
  BY DEF TypeInv, TypeOK, AbsentIsEmpty

\* A quiet move keeps a group safe.
LEMMA QuietKeeps ==
  ASSUME SaleInv, NEW g \in Groups, QuietMove
  PROVE  GroupSafe(g)'
  BY SaleParts DEF GroupSafe, BoughtOnce, QuietMove, Common, SameSale, SameBuyers, Quiet

\* A move towards another group keeps a group safe.
LEMMA OthersKeep ==
  ASSUME SaleInv, NEW g \in Groups, NEW s \in Sellers, NEW h \in Groups, h # g, OnlyFor(s, h)
  PROVE  GroupSafe(g)'
  <1>1. pos'[g] = pos[g] /\ \A t \in Sellers : SameSale(t, g)
    BY DEF OnlyFor
  <1> QED
    BY <1>1, SaleParts DEF GroupSafe, BoughtOnce, OnlyFor, Common, SameSale, SameBuyers

\* A granted mark_selling keeps a group safe: nobody else was selling.
LEMMA ClaimKeeps ==
  ASSUME SaleInv, NEW g \in Groups, NEW s \in Sellers, ClaimMove(s, g)
  PROVE  GroupSafe(g)'
  <1>1. \A t \in Sellers : t # s /\ SellsNow(t, g)' => SellsNow(t, g)
    BY DEF ClaimMove, OnlyFor, SameSale
  <1> QED
    BY <1>1, SaleParts DEF GroupSafe, BoughtOnce, ClaimMove, OnlyFor, Common, SameBuyers

\* The end of a sale keeps a group safe.
LEMMA ReleaseKeeps ==
  ASSUME SaleInv, NEW g \in Groups, NEW s \in Sellers, ReleaseMove(s, g)
  PROVE  GroupSafe(g)'
  <1>1. \A t \in Sellers : SellsNow(t, g)' => SellsNow(t, g)
    BY DEF ReleaseMove, OnlyFor, SameSale
  <1> QED
    BY <1>1, SaleParts
       DEF GroupSafe, BoughtOnce, ReleaseMove, OnlyFor, Common, SameBuyers, Released

\* A step that adds neither buy, position nor task keeps an unbought group idle.
LEMMA IdleKeeps ==
  ASSUME SaleInv, NEW g \in Groups, Common
  PROVE  GroupIdle(g)'
  BY SaleParts DEF GroupIdle, Common, SameBuyers, TookOrKept

\* No move breaks SaleInv.
LEMMA MoveSafe == ASSUME SaleInv, Move PROVE SaleInv'
  <1>1. Common
    BY DEF Move, QuietMove, ClaimMove, ReleaseMove, OnlyFor
  <1>2. ASSUME NEW g \in Groups PROVE GroupSafe(g)'
    <2>1. CASE QuietMove
      BY <2>1, QuietKeeps
    <2>2. ASSUME NEW s \in Sellers, NEW h \in Groups, ClaimMove(s, h) \/ ReleaseMove(s, h)
          PROVE  GroupSafe(g)'
      <3>1. CASE h # g
        BY <2>2, <3>1, OthersKeep DEF ClaimMove, ReleaseMove
      <3>2. CASE h = g
        BY <2>2, <3>2, ClaimKeeps, ReleaseKeeps
      <3> QED  BY <3>1, <3>2
    <2> QED  BY <2>1, <2>2 DEF Move
  <1> QED  BY <1>1, <1>2, IdleKeeps, SalePartsNext

\* A step that leaves the buys alone changes no buyer.
LEMMA SameBuyersFrame == ASSUME UNCHANGED buys PROVE SameBuyers
  BY DEF SameBuyers, BoughtBy

\* At most one position changes, quietly.
QuietChange ==
  /\ \A g \in Groups : Quiet(pos[g], pos'[g])
  /\ \A g, h \in Groups : pos'[g] # pos[g] /\ pos'[h] # pos[h] => g = h

\* A step that leaves the selling tasks alone and the positions quiet.
LEMMA QuietStep ==
  ASSUME TypeInv, SameBuyers, UNCHANGED <<pc, job>>, QuietChange
  PROVE  Move
  <1>1. \A t \in Sellers, g \in Groups : SameSale(t, g)
    BY DEF SameSale, SellsNow, InSection
  <1>2. Common
    BY DEF Common, QuietChange, Quiet, TookOrKept
  <1> QED  BY <1>1, <1>2 DEF Move, QuietMove, QuietChange

\* One position changes, quietly.
LEMMA QuietUpdate ==
  ASSUME TypeInv, NEW g \in Groups, NEW p, pos' = [pos EXCEPT ![g] = p], Quiet(pos[g], p)
  PROVE  QuietChange
  <1>1. \A h \in Groups : Quiet(pos[h], pos[h])
    BY AllTyped, PositionEffects, SomeState
  <1>2. \A h \in Groups : pos'[h] = IF h = g THEN p ELSE pos[h]
    BY AllTyped
  <1> QED  BY <1>1, <1>2 DEF QuietChange

\* Leaving every position alone is quiet.
LEMMA QuietNothing == ASSUME TypeInv, UNCHANGED pos PROVE QuietChange
  BY AllTyped, PositionEffects, SomeState DEF QuietChange

\* A buy adds one buyer and replaces the position of its group.
LEMMA BuyEffects ==
  ASSUME TypeInv, NEW g \in Groups, Buy(g)
  PROVE  /\ \E b \in Buys :
              /\ ~BoughtBy(b, g) /\ BoughtBy(b, g)'
              /\ \A c \in Buys \ {b}, h \in Groups : BoughtBy(c, h)' <=> BoughtBy(c, h)
              /\ \A h \in Groups \ {g} : ~BoughtBy(b, h) /\ ~BoughtBy(b, h)'
         /\ pos'[g].st = "Confirming" /\ ~pos'[g].sold
         /\ \A h \in Groups \ {g} : pos'[h] = pos[h]
         /\ \A t \in Sellers, h \in Groups : SameSale(t, h)
         /\ UNCHANGED <<pc, job>>
  <1>1. PICK b \in Buys, amt \in BuyAmounts, est \in Estimates :
          LET pre == IF cache = NoEntry THEN 0 ELSE cache IN
          /\ buys[b].tx = "none"
          /\ pos' = [pos EXCEPT ![g] = NewPosition(b, est, pre)]
          /\ buys' = [buys EXCEPT ![b] =
                        [grp |-> g, tx |-> "sent", amt |-> amt, est |-> est,
                         pre |-> pre, pc |-> "poll", seen |-> 0]]
    BY DEF Buy
  <1>2. UNCHANGED <<pc, job>>
    BY DEF Buy
  <1>3. ~BoughtBy(b, g) /\ BoughtBy(b, g)'
    BY <1>1, AllTyped DEF BoughtBy
  <1>4. \A c \in Buys \ {b}, h \in Groups : BoughtBy(c, h)' <=> BoughtBy(c, h)
    BY <1>1, AllTyped DEF BoughtBy
  <1>5. \A h \in Groups \ {g} : ~BoughtBy(b, h) /\ ~BoughtBy(b, h)'
    BY <1>1, AllTyped DEF BoughtBy
  <1>6. /\ pos'[g].st = "Confirming" /\ ~pos'[g].sold
        /\ \A h \in Groups \ {g} : pos'[h] = pos[h]
    BY <1>1, AllTyped DEF NewPosition
  <1>7. \A t \in Sellers, h \in Groups : SameSale(t, h)
    BY <1>2 DEF SameSale, SellsNow, InSection
  <1> QED  BY <1>2, <1>3, <1>4, <1>5, <1>6, <1>7

\* A buy of one group leaves the others as they are.
LEMMA BuyOthers ==
  ASSUME TypeInv, NEW g \in Groups, Buy(g), NEW h \in Groups, h # g
  PROVE  /\ \A b \in Buys : BoughtBy(b, h)' <=> BoughtBy(b, h)
         /\ BoughtOnce(h)' <=> BoughtOnce(h)
  <1>1. \A b \in Buys : BoughtBy(b, h)' <=> BoughtBy(b, h)
    BY BuyEffects
  <1> QED  BY <1>1 DEF BoughtOnce

\* A second buy voids the premise of everything said of a group's one position.
LEMMA BuyTwice ==
  ASSUME TypeInv, NEW g \in Groups, Buy(g), NEW c \in Buys, BoughtBy(c, g)
  PROVE  ~BoughtOnce(g)'
  <1>1. PICK b \in Buys :
          /\ ~BoughtBy(b, g) /\ BoughtBy(b, g)'
          /\ \A d \in Buys \ {b}, h \in Groups : BoughtBy(d, h)' <=> BoughtBy(d, h)
    BY BuyEffects
  <1>2. c # b /\ BoughtBy(c, g)'
    BY <1>1
  <1> QED  BY <1>1, <1>2 DEF BoughtOnce

\* A buy: the first of its group meets no task, a later one voids the premise.
LEMMA BuySale == ASSUME TypeInv, SaleInv, NEW g \in Groups, Buy(g) PROVE SaleInv'
  <1>1. ASSUME NEW h \in Groups, h # g PROVE GroupSafe(h)' /\ GroupIdle(h)'
    <2>1. GroupSafe(h) /\ GroupIdle(h) /\ pos'[h] = pos[h] /\ UNCHANGED job
      BY <1>1, SaleParts, BuyEffects
    <2>2. \A s \in Sellers : SameSale(s, h)
      BY BuyEffects
    <2> QED  BY <1>1, <2>1, <2>2, BuyOthers DEF GroupSafe, GroupIdle, SameSale
  <1>2. GroupIdle(g)'
    BY BuyEffects DEF GroupIdle
  <1>3. GroupSafe(g)'
    <2>1. CASE \E c \in Buys : BoughtBy(c, g)
      BY <2>1, BuyTwice DEF GroupSafe
    <2>2. CASE \A c \in Buys : ~BoughtBy(c, g)
      <3>1. \A s \in Sellers : ~SellsNow(s, g)
        BY <2>2, SaleParts DEF GroupIdle, SellsNow
      <3>2. \A s \in Sellers : ~SellsNow(s, g)'
        BY <3>1, BuyEffects DEF SameSale
      <3> QED  BY <3>2, BuyEffects DEF GroupSafe
    <2> QED  BY <2>1, <2>2
  <1> QED  BY <1>1, <1>2, <1>3, SalePartsNext

\* A confirmation or a failure report is quiet, also when it comes late.
LEMMA ConfirmSale ==
  ASSUME TypeInv, NEW b \in Buys, ConfirmStep(b) \/ LandBuy(b) PROVE Move
  <1>1. UNCHANGED <<pc, job>>
    BY DEF ConfirmStep, ConfirmSees, ConfirmSuccess, ConfirmFailed, LandBuy
  <1>2. SameBuyers
    <2>1. buys' = [buys EXCEPT ![b] = buys'[b]]
      BY AllTyped
         DEF ConfirmStep, ConfirmSees, ConfirmSuccess, ConfirmFailed, ConfirmOver, LandBuy
    <2>2. /\ buys'[b].grp = buys[b].grp
          /\ buys'[b].tx # "none" <=> buys[b].tx # "none"
      BY AllTyped
         DEF ConfirmStep, ConfirmSees, ConfirmSuccess, ConfirmFailed, ConfirmOver, LandBuy,
             BuyRecord
    <2> QED  BY <2>1, <2>2, AllTyped DEF SameBuyers, BoughtBy
  <1>3. QuietChange
    <2>1. CASE UNCHANGED pos
      BY <2>1, QuietNothing
    <2> DEFINE g == buys[b].grp
    <2>2. CASE ConfirmSuccess(b)
      <3>1. g \in Groups /\ AssignedAmount(b) \in Nat
        BY <2>2 DEF ConfirmSuccess, TypeInv, TypeOK, ConfirmTasks, BuyRecord, AssignedAmount
      <3>2. Quiet(pos[g], MarkActive(pos[g], AssignedAmount(b)))
        BY <3>1, AllTyped, PositionEffects, SomeState
      <3> QED  BY <2>2, <3>1, <3>2, QuietUpdate DEF ConfirmSuccess
    <2>3. CASE ConfirmFailed(b)
      <3>1. g \in Groups
        BY <2>3 DEF ConfirmFailed, TypeInv, ConfirmTasks
      <3>2. Quiet(pos[g], MarkFailed(pos[g]))
        BY <3>1, AllTyped, PositionEffects, SomeState
      <3> QED  BY <2>3, <3>1, <3>2, QuietUpdate DEF ConfirmFailed
    <2> QED  BY <2>1, <2>2, <2>3 DEF ConfirmStep, ConfirmSees, LandBuy
  <1> QED  BY <1>1, <1>2, <1>3, QuietStep

\* The fallback monitor is quiet.
LEMMA FallbackSale ==
  ASSUME TypeInv, (\E g \in Groups : FallbackRead(g) \/ Retain(g)) \/ FallbackApply
  PROVE  Move
  <1>1. UNCHANGED <<pc, job>> /\ SameBuyers
    BY SameBuyersFrame DEF FallbackRead, Retain, FallbackApply
  <1>2. QuietChange
    <2>1. CASE UNCHANGED pos
      BY <2>1, QuietNothing
    <2>2. CASE \E g \in Groups : Retain(g)
      <3>1. PICK g \in Groups : pos' = [pos EXCEPT ![g] = Absent]
        BY <2>2 DEF Retain
      <3>2. Quiet(pos[g], Absent)
        BY AllTyped, PositionEffects, SomeState
      <3> QED  BY <3>1, <3>2, QuietUpdate
    <2>3. CASE FallbackApply /\ pos' # pos
      <3>1. fb.grp \in Groups
        BY <2>3 DEF FallbackApply, TypeInv
      <3>2. Quiet(pos[fb.grp], MarkFailed(pos[fb.grp]))
        BY <3>1, AllTyped, PositionEffects, SomeState
      <3>3. pos' = [pos EXCEPT ![fb.grp] = MarkFailed(pos[fb.grp])]
        BY <2>3 DEF FallbackApply
      <3> QED  BY <3>1, <3>2, <3>3, QuietUpdate
    <2> QED  BY <2>1, <2>2, <2>3 DEF FallbackRead
  <1> QED  BY <1>1, <1>2, QuietStep

\* Steps of one selling task: what is common to all of them.
TaskStep(s) ==
  /\ UNCHANGED buys
  /\ \A t \in Sellers : t # s => job'[t] = job[t] /\ pc'[t] = pc[t]
  /\ \A g \in Groups : g # job[s].grp => pos'[g] = pos[g]
  /\ \A g \in Groups : TookOrKept(s, g)

\* A step of one task concerns no sale of another one.
LEMMA TaskOthers ==
  ASSUME NEW s \in Sellers, TaskStep(s), NEW g \in Groups, NEW t \in Sellers, t # s
  PROVE  SameSale(t, g)
  BY DEF TaskStep, SameSale, SellsNow, InSection

\* It has a position where there was one, and touches no other.
LEMMA TaskCommon ==
  ASSUME NEW s \in Sellers, TaskStep(s),
         \A g \in Groups : pos[g].st = "Absent" => pos'[g].st = "Absent"
  PROVE  Common
  <1>1. SameBuyers
    BY SameBuyersFrame DEF TaskStep
  <1> QED  BY <1>1 DEF TaskStep, Common, TookOrKept

\* A task step that neither begins nor ends a sale is a move.
LEMMA TaskQuiet ==
  ASSUME NEW s \in Sellers, TaskStep(s), QuietChange,
         InSection(s)' <=> InSection(s), InSection(s) => job'[s].grp = job[s].grp
  PROVE  Move
  <1>1. Common
    BY TaskCommon DEF QuietChange, Quiet
  <1>2. \A t \in Sellers, g \in Groups : SameSale(t, g)
    BY TaskOthers DEF SameSale, SellsNow
  <1> QED  BY <1>1, <1>2 DEF Move, QuietMove, QuietChange

\* What a task step for one group means for the others.
LEMMA TaskOnlyFor ==
  ASSUME NEW s \in Sellers, TaskStep(s), NEW g \in Groups, job[s].grp = g,
         InSection(s)' => job'[s].grp = g,
         pos[g].st = "Absent" => pos'[g].st = "Absent"
  PROVE  OnlyFor(s, g)
  <1>1. \A h \in Groups : h # g => pos'[h] = pos[h]
    BY DEF TaskStep
  <1>2. Common
    BY <1>1, TaskCommon
  <1>3. \A h \in Groups : h # g => SameSale(s, h)
    BY DEF SameSale, SellsNow
  <1> QED  BY <1>1, <1>2, <1>3, TaskOthers DEF OnlyFor

\* A task step that ends its sale is a move.
LEMMA TaskRelease ==
  ASSUME NEW s \in Sellers, TaskStep(s), job[s].grp \in Groups,
         InSection(s), ~InSection(s)',
         Released(pos[job[s].grp], pos'[job[s].grp]), LetsGo(s, pos'[job[s].grp])
  PROVE  Move
  <1>1. PICK g \in Groups : g = job[s].grp
    OBVIOUS
  <1>2. OnlyFor(s, g)
    BY <1>1, TaskOnlyFor DEF Released
  <1>3. SellsNow(s, g) /\ ~SellsNow(s, g)'
    BY <1>1 DEF SellsNow
  <1> QED  BY <1>1, <1>2, <1>3 DEF Move, ReleaseMove

\* A task step that is granted mark_selling is a move.
LEMMA TaskClaim ==
  ASSUME TypeInv, NEW s \in Sellers, TaskStep(s), job[s].grp \in Groups,
         job'[s].grp = job[s].grp, ~InSection(s), InSection(s)',
         MarkSellingOk(pos[job[s].grp]),
         pos'[job[s].grp] = MarkSelling(pos[job[s].grp])
  PROVE  Move
  <1>0. PICK g \in Groups : g = job[s].grp
    OBVIOUS
  <1>1. pos[g].st \in {"Active", "Confirming"}
    BY <1>0 DEF MarkSellingOk
  <1>2. pos'[g].st = "Selling" /\ pos'[g].sold = pos[g].sold
    BY <1>0, AllTyped, PositionEffects, SomeState
  <1>3. OnlyFor(s, g)
    BY <1>0, <1>1, TaskOnlyFor
  <1>4. ~SellsNow(s, g) /\ SellsNow(s, g)'
    BY <1>0 DEF SellsNow
  <1> QED  BY <1>1, <1>2, <1>3, <1>4 DEF Move, ClaimMove

\* A task that starts takes a position that is there.
LEMMA StartSale ==
  ASSUME TypeInv, TakeSignal \/ \E g \in Groups : TgSellAll(g) \/ TgSellPart(g)
  PROVE  Move
  <1>1. UNCHANGED <<pos, buys>>
    BY DEF TakeSignal, TgSellAll, TgSellPart
  <1>2. QuietChange
    BY <1>1, QuietNothing
  <1>3. CASE UNCHANGED <<pc, job>>
    BY <1>1, <1>2, <1>3, SameBuyersFrame, QuietStep
  <1>4. ASSUME NEW s \in Sellers, NEW g \in Groups, pos[g].st # "Absent",
               NEW j, j.grp = g, j.prev = pos[g].st, job' = [job EXCEPT ![s] = j],
               pc[s] = "idle", NEW q \in {"read", "pmark"}, pc' = [pc EXCEPT ![s] = q]
        PROVE  Move
    <2>1. ~InSection(s) /\ ~InSection(s)'
      BY <1>4, AllTyped DEF InSection
    <2>2. TaskStep(s)
      BY <1>1, <1>4, <2>1, AllTyped DEF TaskStep, TookOrKept
    <2> QED  BY <1>2, <2>1, <2>2, TaskQuiet
  <1>5. CASE TakeSignal /\ ~UNCHANGED <<pc, job>>
    <2>1. queue # <<>> /\ queue \in Seq(Signal)
      BY <1>5 DEF TakeSignal, TypeInv, TypeOK
    <2>2. Head(queue).grp \in Groups
      <3>1. Head(queue) \in Signal
        BY <2>1
      <3> QED  BY <3>1 DEF Signal
    <2> DEFINE g == Head(queue).grp
               j == [NoJob EXCEPT !.grp = g, !.prev = pos[g].st, !.tok = pos[g].tok,
                                  !.manual = Head(queue).manual, !.whole = Head(queue).whole]
    <2>3. pos[g].st # "Absent" /\ job' = [job EXCEPT !["exec"] = j]
          /\ pc["exec"] = "idle" /\ pc' = [pc EXCEPT !["exec"] = "read"]
      BY <1>5 DEF TakeSignal, Start
    <2>4. j.grp = g /\ j.prev = pos[g].st
      BY DEF NoJob
    <2> HIDE DEF j
    <2> QED  BY <1>4, <2>2, <2>3, <2>4 DEF Sellers
  <1>6. CASE \E g \in Groups : TgSellAll(g)
    <2>1. PICK g \in Groups : TgSellAll(g)
      BY <1>6
    <2> DEFINE j == [NoJob EXCEPT !.grp = g, !.prev = pos[g].st, !.tok = pos[g].tok,
                                  !.manual = TRUE, !.whole = TRUE]
    <2>2. job' = [job EXCEPT !["tg"] = j]
          /\ pc["tg"] = "idle" /\ pc' = [pc EXCEPT !["tg"] = "read"]
      BY <2>1 DEF TgSellAll, Start
    <2>3. j.grp = g /\ j.prev = pos[g].st
      BY DEF NoJob
    <2>4. pos[g].st # "Absent"
      BY <2>1, HeldIsPresent, TypeParts DEF TgSellAll
    <2> HIDE DEF j
    <2> QED  BY <1>4, <2>2, <2>3, <2>4 DEF Sellers
  <1>7. CASE \E g \in Groups : TgSellPart(g)
    <2>1. PICK g \in Groups : TgSellPart(g)
      BY <1>7
    <2>2. PICK percent \in Percents :
            job' = [job EXCEPT !["tg"] =
                 [NoJob EXCEPT !.grp = g, !.prev = pos[g].st, !.tok = pos[g].tok,
                               !.amt = (pos[g].tok * percent) \div 100,
                               !.manual = TRUE, !.whole = FALSE]]
      BY <2>1 DEF TgSellPart
    <2> DEFINE amt == (pos[g].tok * percent) \div 100
               j == [NoJob EXCEPT !.grp = g, !.prev = pos[g].st, !.tok = pos[g].tok,
                                  !.amt = amt, !.manual = TRUE, !.whole = FALSE]
    <2>3. job' = [job EXCEPT !["tg"] = j]
          /\ pc["tg"] = "idle" /\ pc' = [pc EXCEPT !["tg"] = "pmark"]
      BY <2>1, <2>2 DEF TgSellPart
    <2> HIDE DEF amt
    <2>4. j.grp = g /\ j.prev = pos[g].st
      BY DEF NoJob
    <2>5. pos[g].st # "Absent"
      BY <2>1, HeldIsPresent, TypeParts DEF TgSellPart
    <2> HIDE DEF j
    <2> QED  BY <1>4, <2>3, <2>4, <2>5 DEF Sellers
  <1> QED  BY <1>3, <1>5, <1>6, <1>7

\* The balance query, with its failure after repeated zero balances, is a move.
LEMMA ReadSale == ASSUME TypeInv, NEW s \in Sellers, ReadBalance(s) PROVE Move
  <1> DEFINE g == job[s].grp
             p == RecordZeroBalanceSkip(pos[g])
  <1>1. pc[s] = "read" /\ g \in Groups /\ UNCHANGED buys
    BY TypeParts, AtWork DEF ReadBalance
  <1>2. CASE UNCHANGED pos /\ pc' = [pc EXCEPT ![s] = "mark"]
             /\ \E j : /\ j.grp = g /\ j.prev = job[s].prev
                      /\ job' = [job EXCEPT ![s] = j]
    <2>1. TaskStep(s)
      BY <1>1, <1>2, AllTyped DEF TaskStep, TookOrKept
    <2>2. ~InSection(s) /\ ~InSection(s)'
      BY <1>1, <1>2, AllTyped DEF InSection
    <2> QED  BY <1>2, <2>1, <2>2, QuietNothing, TaskQuiet
  <1>3. CASE Idle(s) /\ \E q \in {p, MarkFailed(p)} : pos' = [pos EXCEPT ![g] = q]
    <2>1. PICK q \in {p, MarkFailed(p)} : pos' = [pos EXCEPT ![g] = q]
      BY <1>3
    <2>2. Quiet(pos[g], p) /\ Quiet(pos[g], MarkFailed(p))
      BY <1>1, AllTyped, PositionEffects, SomeState
    <2>3. QuietChange
      <3> HIDE DEF g, p
      <3> QED  BY <1>1, <2>1, <2>2, QuietUpdate
    <2>4. TaskStep(s)
      <3>1. \A h \in Groups : h # g => pos'[h] = pos[h]
        BY <2>1, AllTyped
      <3>2. \A t \in Sellers : t # s => job'[t] = job[t] /\ pc'[t] = pc[t]
        BY <1>3, AllTyped DEF Idle
      <3>3. \A h \in Groups : job'[s].grp # h
        BY <1>3, AllTyped, GroupsAssumption DEF Idle, NoJob
      <3> QED  BY <1>1, <3>1, <3>2, <3>3 DEF TaskStep, TookOrKept
    <2>5. ~InSection(s) /\ ~InSection(s)'
      BY <1>1, <1>3, AllTyped DEF Idle, InSection
    <2> QED  BY <2>3, <2>4, <2>5, TaskQuiet
  <1>4. PICK b \in Balances : \E amt \in SaleAmounts(FullAmount(job[s].tok, b), job[s].whole) :
          IF amt = 0
          THEN LET r == RecordZeroBalanceSkip(pos[g]) IN
               /\ pos' = [pos EXCEPT ![g] = IF r.skips >= MaxSkips THEN MarkFailed(r) ELSE r]
               /\ Idle(s)
          ELSE /\ job' = [job EXCEPT ![s].tok = 0, ![s].whole = TRUE,
                                     ![s].amt = amt, ![s].after = b - amt]
               /\ pc' = [pc EXCEPT ![s] = "mark"]
               /\ UNCHANGED pos
    BY DEF ReadBalance
  <1>5. PICK amt \in SaleAmounts(FullAmount(job[s].tok, b), job[s].whole) :
          IF amt = 0
          THEN LET r == RecordZeroBalanceSkip(pos[g]) IN
               /\ pos' = [pos EXCEPT ![g] = IF r.skips >= MaxSkips THEN MarkFailed(r) ELSE r]
               /\ Idle(s)
          ELSE /\ job' = [job EXCEPT ![s].tok = 0, ![s].whole = TRUE,
                                     ![s].amt = amt, ![s].after = b - amt]
               /\ pc' = [pc EXCEPT ![s] = "mark"]
               /\ UNCHANGED pos
    BY <1>4
  <1>6. CASE amt = 0
    BY <1>3, <1>5, <1>6
  <1>7. CASE amt # 0
    <2> DEFINE j == [job[s] EXCEPT !.tok = 0, !.whole = TRUE, !.amt = amt, !.after = b - amt]
    <2>1. job' = [job EXCEPT ![s] = j]
      BY <1>5, <1>7
    <2>2. j.grp = g /\ j.prev = job[s].prev
      BY AllTyped DEF Job
    <2> HIDE DEF j
    <2> QED  BY <1>2, <1>5, <1>7, <2>1, <2>2
  <1> QED  BY <1>6, <1>7

\* mark_selling is a move.
LEMMA ClaimSale ==
  ASSUME TypeInv, NEW s \in Sellers, pc[s] \in {"mark", "pmark"},
         NEW next \in {"send", "psend"}, Claim(s, next), UNCHANGED buys
  PROVE  Move
  <1> DEFINE g == job[s].grp
  <1>1. g \in Groups
    BY TypeParts, AtWork
  <1>2. CASE MarkSellingOk(pos[g])
    <2> DEFINE j == [job[s] EXCEPT !.n = 1]
    <2>1. /\ pos' = [pos EXCEPT ![g] = MarkSelling(pos[g])]
          /\ job' = [job EXCEPT ![s] = j]
          /\ pc' = [pc EXCEPT ![s] = next]
      BY <1>2 DEF Claim
    <2>2. j.grp = g /\ j.prev = job[s].prev
      BY AllTyped DEF Job
    <2> HIDE DEF j
    <2>3. TaskStep(s) /\ job'[s].grp = g /\ ~InSection(s) /\ InSection(s)'
      BY <1>1, <2>1, <2>2, AllTyped DEF TaskStep, TookOrKept, InSection
    <2>4. pos'[g] = MarkSelling(pos[g])
      BY <1>1, <2>1, AllTyped
    <2> QED  BY <1>1, <1>2, <2>3, <2>4, TaskClaim
  <1>3. CASE ~MarkSellingOk(pos[g])
    <2>1. Idle(s) /\ UNCHANGED pos
      BY <1>3 DEF Claim
    <2>2. \A h \in Groups : job'[s].grp # h
      BY <2>1, AllTyped, GroupsAssumption DEF Idle, NoJob
    <2>3. TaskStep(s) /\ ~InSection(s) /\ ~InSection(s)'
      BY <2>1, <2>2, AllTyped DEF TaskStep, TookOrKept, Idle, InSection
    <2> QED  BY <2>1, <2>3, QuietNothing, TaskQuiet
  <1> QED  BY <1>2, <1>3

\* The task goes on with its sale and leaves the position alone.
LEMMA GoOnSale ==
  ASSUME TypeInv, NEW s \in Sellers, InSection(s), UNCHANGED <<pos, buys>>,
         NEW j, j.grp = job[s].grp, j.prev = job[s].prev, job' = [job EXCEPT ![s] = j],
         NEW q \in {"send", "wait"}, pc' = [pc EXCEPT ![s] = q]
  PROVE  Move
  <1>1. TaskStep(s) /\ job'[s].grp = job[s].grp /\ InSection(s)'
    BY AllTyped DEF TaskStep, TookOrKept, InSection
  <1> QED  BY <1>1, QuietNothing, TaskQuiet

\* The task lets go of the position.
LEMMA LetGoSale ==
  ASSUME TypeInv, NEW s \in Sellers, InSection(s), UNCHANGED buys,
         NEW q \in {"idle", "cleanup"}, pc' = [pc EXCEPT ![s] = q],
         job' = [job EXCEPT ![s] = NoJob],
         NEW p, pos' = [pos EXCEPT ![job[s].grp] = p],
         Released(pos[job[s].grp], p), LetsGo(s, p)
  PROVE  Move
  <1>1. job[s].grp \in Groups
    BY TypeParts, AtWork DEF InSection
  <1>2. \A h \in Groups : job'[s].grp # h
    BY AllTyped, GroupsAssumption DEF NoJob
  <1>3. TaskStep(s) /\ ~InSection(s)'
    BY <1>1, <1>2, AllTyped DEF TaskStep, TookOrKept, InSection
  <1>4. pos'[job[s].grp] = p
    BY <1>1, AllTyped
  <1> QED  BY <1>1, <1>3, <1>4, TaskRelease

\* Restoring the state of a stale snapshot is a move.
LEMMA GiveUpSale ==
  ASSUME TypeInv, NEW s \in Sellers, InSection(s), GiveUp(s), UNCHANGED buys
  PROVE  Move
  <1> DEFINE g == job[s].grp
             p == IF ~job[s].manual /\ pos[g].tries >= MaxAttempts
                  THEN SuspendAutoSell(pos[g], job[s].prev)
                  ELSE RestoreAfterSellAttempt(pos[g], job[s].prev)
  <1>1. g \in Groups /\ job[s].prev \in States
    BY TypeParts, AtWork DEF InSection
  <1>2. Released(pos[g], p)
    BY <1>1, AllTyped, PositionEffects, SomeState
  <1>3. LetsGo(s, p)
    BY <1>1, AllTyped DEF LetsGo, SuspendAutoSell, RestoreAfterSellAttempt, Position
  <1>4. pos' = [pos EXCEPT ![g] = p] /\ Idle(s)
    BY DEF GiveUp
  <1> HIDE DEF p
  <1> QED  BY <1>2, <1>3, <1>4, LetGoSale DEF Idle

\* So is the next attempt, or the end of the retry loop.
LEMMA NextAttemptSale ==
  ASSUME TypeInv, NEW s \in Sellers, InSection(s), NextAttempt(s), UNCHANGED buys
  PROVE  Move
  <1>1. CASE job[s].n < MaxRetries
    <2> DEFINE j == [job[s] EXCEPT !.n = job[s].n + 1]
    <2>1. job' = [job EXCEPT ![s] = j] /\ pc' = [pc EXCEPT ![s] = "send"] /\ UNCHANGED pos
      BY <1>1 DEF NextAttempt
    <2>2. j.grp = job[s].grp /\ j.prev = job[s].prev
      BY AllTyped DEF Job
    <2> HIDE DEF j
    <2> QED  BY <2>1, <2>2, GoOnSale
  <1>2. CASE ~(job[s].n < MaxRetries)
    BY <1>2, GiveUpSale DEF NextAttempt
  <1> QED  BY <1>1, <1>2

\* Sending a sale is a move.
LEMMA SentSale ==
  ASSUME TypeInv, NEW s \in Sellers, InSection(s), NEW leg \in Legs, Sent(s, leg),
         UNCHANGED buys
  PROVE  Move
  <1> DEFINE j == [job[s] EXCEPT !.leg = leg, !.tx = "sent"]
  <1>1. job' = [job EXCEPT ![s] = j] /\ pc' = [pc EXCEPT ![s] = "wait"] /\ UNCHANGED pos
    BY DEF Sent
  <1>2. j.grp = job[s].grp /\ j.prev = job[s].prev
    BY AllTyped DEF Job
  <1> HIDE DEF j
  <1> QED  BY <1>1, <1>2, GoOnSale

\* Closing a position or taking a part off it is a move.
LEMMA FinishSale ==
  ASSUME TypeInv, NEW s \in Sellers, pc[s] = "wait", Finish(s), UNCHANGED buys
  PROVE  Move
  <1> DEFINE g == job[s].grp
             p == IF job[s].after = 0 THEN MarkClosed(pos[g])
                  ELSE ApplyPartialSell(pos[g], job[s].amt)
  <1>1. g \in Groups /\ job[s].amt \in Nat /\ InSection(s)
    BY TypeParts, AtWork DEF InSection
  <1>2. Released(pos[g], p)
    BY <1>1, AllTyped, PositionEffects, SomeState
  <1>3. LetsGo(s, p)
    BY <1>1, AllTyped DEF LetsGo, SaleFits, MarkClosed, ApplyPartialSell, Position
  <1>4. pos' = [pos EXCEPT ![g] = p] /\ job' = [job EXCEPT ![s] = NoJob]
    BY DEF Finish
  <1>5. PICK q \in {"idle", "cleanup"} : pc' = [pc EXCEPT ![s] = q]
    BY DEF Finish
  <1> HIDE DEF p
  <1> QED  BY <1>1, <1>2, <1>3, <1>4, <1>5, LetGoSale

\* Every step of handle_sell_signal is a move.
LEMMA SellerSale ==
  ASSUME TypeInv, NEW s \in Sellers, SellerStep(s) \/ LandSale(s) PROVE Move
  <1>1. CASE ReadBalance(s)
    BY <1>1, ReadSale
  <1>2. CASE MarkForSale(s)
    BY <1>2, ClaimSale DEF MarkForSale
  <1>3. CASE SendSale(s)
    BY <1>3, SentSale, NextAttemptSale DEF SendSale, InSection, Legs
  <1>4. CASE SaleConfirmed(s)
    BY <1>4, FinishSale DEF SaleConfirmed
  <1>5. CASE SaleErrorSeen(s)
    BY <1>5, SentSale, GiveUpSale DEF SaleErrorSeen, InSection, Legs
  <1>6. CASE SaleTimedOut(s)
    BY <1>6, NextAttemptSale, GiveUpSale DEF SaleTimedOut, InSection
  <1>7. CASE Cleanup(s)
    <2>1. \A h \in Groups : job'[s].grp # h
      BY <1>7, AllTyped, GroupsAssumption DEF Cleanup, Idle, NoJob
    <2>2. TaskStep(s) /\ ~InSection(s) /\ ~InSection(s)'
      BY <1>7, <2>1, AllTyped DEF Cleanup, Idle, TaskStep, TookOrKept, InSection
    <2> QED  BY <1>7, <2>2, QuietNothing, TaskQuiet DEF Cleanup
  <1>8. CASE LandSale(s)
    <2>1. PICK tx \in {"ok", "err"} : job' = [job EXCEPT ![s] = [job[s] EXCEPT !.tx = tx]]
      BY <1>8 DEF LandSale
    <2> DEFINE j == [job[s] EXCEPT !.tx = tx]
    <2>2. /\ j.grp = job[s].grp /\ j.prev = job[s].prev
          /\ job' = [job EXCEPT ![s] = j]
      BY <2>1, AllTyped DEF Job
    <2>3. pc' = [pc EXCEPT ![s] = "wait"] /\ InSection(s) /\ UNCHANGED <<pos, buys>>
      BY <1>8, AllTyped DEF LandSale, InSection
    <2> HIDE DEF j
    <2> QED  BY <2>2, <2>3, GoOnSale
  <1> QED  BY <1>1, <1>2, <1>3, <1>4, <1>5, <1>6, <1>7, <1>8 DEF SellerStep

\* Every step of a partial Telegram sale is a move.
LEMMA PartSale == ASSUME TypeInv, PartStep PROVE Move
  <1>1. "tg" \in Sellers
    BY DEF Sellers
  <1>2. CASE MarkForPart
    BY <1>1, <1>2, ClaimSale DEF MarkForPart
  <1>3. CASE SendPart
    <2> DEFINE g == job["tg"].grp
               sold == ApplyPartialSell(pos[g], job["tg"].amt)
               kept == RestoreAfterSellAttempt(pos[g], job["tg"].prev)
    <2>1. InSection("tg") /\ UNCHANGED buys
      BY <1>3 DEF SendPart, InSection
    <2>2. g \in Groups /\ job["tg"].amt \in Nat /\ job["tg"].prev \in States
      BY <1>1, <2>1, TypeParts, AtWork DEF InSection
    <2>3. Released(pos[g], sold) /\ Released(pos[g], kept)
      BY <2>2, AllTyped, PositionEffects, SomeState
    <2>4. LetsGo("tg", sold) /\ LetsGo("tg", kept)
      BY <1>3, <2>2, AllTyped
         DEF SendPart, LetsGo, SaleFits, ApplyPartialSell, RestoreAfterSellAttempt, Position
    <2>5. pos' = [pos EXCEPT ![g] = sold] \/ pos' = [pos EXCEPT ![g] = kept]
      BY <1>3 DEF SendPart
    <2>6. pc' = [pc EXCEPT !["tg"] = "idle"] /\ job' = [job EXCEPT !["tg"] = NoJob]
      BY <1>3 DEF SendPart, Idle
    <2> HIDE DEF sold, kept
    <2> QED  BY <1>1, <2>1, <2>3, <2>4, <2>5, <2>6, LetGoSale
  <1> QED  BY <1>2, <1>3 DEF PartStep

\* SaleInv holds before the first buy.
LEMMA InitSale == Init => SaleInv
  <1> SUFFICES ASSUME Init, NEW g \in Groups PROVE GroupSafe(g) /\ GroupIdle(g)
    BY SaleParts
  <1>1. pos[g].st = "Absent" /\ ~pos[g].sold
    BY DEF Init, Absent
  <1>2. \A s \in Sellers : job[s].grp # g
    BY GroupsAssumption DEF Init, NoJob
  <1> QED  BY <1>1, <1>2 DEF GroupSafe, GroupIdle, SellsNow

\* Every step is a move or a buy.
LEMMA MoveStep == ASSUME TypeInv, [Next]_vars PROVE Move \/ \E g \in Groups : Buy(g)
  <1>1. ASSUME UNCHANGED <<pos, buys, pc, job>> PROVE Move
    BY <1>1, SameBuyersFrame, QuietNothing, QuietStep
  <1>2. CASE UNCHANGED vars
    BY <1>1, <1>2 DEF vars
  <1>3. CASE \/ \E g \in Groups : Exits(g)
             \/ \E amt \in BagToSet(strays) : LandStray(amt)
             \/ BalanceUpdate
    BY <1>1, <1>3 DEF Exits, PriceExit, CappedExit, ManualExit, Emit, LandStray, BalanceUpdate
  <1>4. CASE (\E g \in Groups : FallbackRead(g) \/ Retain(g)) \/ FallbackApply
    BY <1>4, FallbackSale
  <1>5. CASE TakeSignal \/ \E g \in Groups : TgSellAll(g) \/ TgSellPart(g)
    BY <1>5, StartSale
  <1>6. CASE PartStep \/ \E s \in Sellers : SellerStep(s) \/ LandSale(s)
    BY <1>6, SellerSale, PartSale
  <1>7. CASE \E b \in Buys : ConfirmStep(b) \/ LandBuy(b)
    BY <1>7, ConfirmSale
  <1> QED  BY <1>2, <1>3, <1>4, <1>5, <1>6, <1>7 DEF Next

\* SaleInv is inductive relative to TypeInv.
LEMMA SaleStep == TypeInv /\ SaleInv /\ [Next]_vars => SaleInv'
  BY MoveStep, MoveSafe, BuySale

\* SaleInv holds in every behaviour.
LEMMA SaleCorrect == Spec => []SaleInv
  <1>1. Init => SaleInv
    BY InitSale
  <1>2. TypeInv /\ SaleInv /\ [Next]_vars => SaleInv'
    BY SaleStep
  <1> QED  BY <1>1, <1>2, TypeCorrect, PTL DEF Spec

\* mark_selling is a lock: unless the group buys the mint again meanwhile, no
\* two tasks ever sell one position at a time.
THEOREM ExclusiveSale == Spec => []SellExclusion
  <1>1. SaleInv => SellExclusion
    BY DEF SaleInv
  <1> QED  BY <1>1, SaleCorrect, PTL

\* A position closed by a sale is never opened again, for any number of groups,
\* retries and tasks, unless the group buys the mint again.
THEOREM FinalClose == Spec => []ClosedIsFinal
  <1>1. SaleInv => ClosedIsFinal
    BY DEF SaleInv
  <1> QED  BY <1>1, SaleCorrect, PTL

(***************************************************************************)
(* The end of a sale.  Without the Telegram task no snapshot that is ever  *)
(* restored says Selling: a sale starts from Active or Confirming, and     *)
(* only a task that took such a snapshot can be granted mark_selling.      *)
(***************************************************************************)

\* Without a bot the Telegram task never starts.
LEMMA TgIdle ==
  ASSUME TypeInv, ~TgEnabled, pc["tg"] = "idle", [Next]_vars
  PROVE  pc'["tg"] = "idle"
  <1>1. "exec" # "tg" /\ pc \in [Sellers -> PCs] /\ Sellers = {"exec", "tg"}
    BY DEF TypeInv, TypeOK, Sellers
  <1>2. CASE UNCHANGED pc
    BY <1>2
  <1>3. CASE TakeSignal
    BY <1>1, <1>3 DEF TakeSignal, Start
  <1>4. ASSUME NEW s \in Sellers, SellerStep(s) \/ LandSale(s) PROVE pc'["tg"] = "idle"
    <2>1. s = "exec"
      BY <1>1, <1>4 DEF SellerStep, ReadBalance, MarkForSale, SendSale, SaleConfirmed,
                        SaleErrorSeen, SaleTimedOut, Cleanup, LandSale
    <2>2. CASE ReadBalance(s) \/ MarkForSale(s)
      BY <1>1, <2>1, <2>2 DEF ReadBalance, MarkForSale, Claim, Idle
    <2>3. CASE SendSale(s) \/ SaleErrorSeen(s) \/ SaleTimedOut(s)
      BY <1>1, <2>1, <2>3
         DEF SendSale, SaleErrorSeen, SaleTimedOut, Sent, NextAttempt, GiveUp, Idle
    <2>4. CASE SaleConfirmed(s) \/ Cleanup(s) \/ LandSale(s)
      BY <1>1, <2>1, <2>4 DEF SaleConfirmed, Finish, Cleanup, Idle, LandSale
    <2> QED  BY <1>4, <2>2, <2>3, <2>4 DEF SellerStep
  <1>5. ~PartStep
    BY DEF PartStep, MarkForPart, SendPart
  <1>6. CASE \/ \E g \in Groups : Buy(g) \/ FallbackRead(g) \/ Retain(g) \/ Exits(g)
                                  \/ TgSellAll(g) \/ TgSellPart(g)
             \/ FallbackApply \/ BalanceUpdate
             \/ \E b \in Buys : ConfirmStep(b) \/ LandBuy(b)
             \/ \E amt \in BagToSet(strays) : LandStray(amt)
    <2>1. UNCHANGED pc
      BY <1>6 DEF Buy, FallbackRead, Retain, Exits, PriceExit, CappedExit, ManualExit, Emit,
                  TgSellAll, TgSellPart, FallbackApply, BalanceUpdate, ConfirmStep,
                  ConfirmSees, ConfirmSuccess, ConfirmFailed, LandBuy, LandStray
    <2> QED  BY <1>2, <2>1
  <1>7. UNCHANGED vars => UNCHANGED pc
    BY DEF vars
  <1> QED  BY <1>2, <1>3, <1>4, <1>5, <1>6, <1>7 DEF Next

\* What SnapshotSellable says of one group.
Sellable(g) ==
  BoughtOnce(g) /\ job["exec"].grp = g =>
    \/ job["exec"].prev \in {"Active", "Confirming"}
    \/ ~InSection("exec") /\ ~MarkSellingOk(pos[g])

\* A move of the signal consumer, or of no seller, keeps it.
LEMMA SellableMove ==
  ASSUME NEW g \in Groups, Sellable(g), Move, ~InSection("tg"), ~InSection("tg")'
  PROVE  Sellable(g)'
  <1> USE DEF Sellers
  <1>1. Common
    BY DEF Move, QuietMove, ClaimMove, ReleaseMove, OnlyFor
  <1>2. SUFFICES ASSUME BoughtOnce(g), job'["exec"].grp = g,
                        job["exec"].grp = g, job'["exec"].prev = job["exec"].prev,
                        ~(job["exec"].prev \in {"Active", "Confirming"})
                 PROVE  ~InSection("exec")' /\ ~MarkSellingOk(pos'[g])
    <2>1. BoughtOnce(g)' => BoughtOnce(g)
      BY <1>1 DEF Common, SameBuyers, BoughtOnce
    <2>2. TookOrKept("exec", g)
      BY <1>1 DEF Common
    <2> QED  BY <2>1, <2>2 DEF Sellable, TookOrKept, MarkSellingOk
  <1>3. ~InSection("exec") /\ ~MarkSellingOk(pos[g])
    BY <1>2 DEF Sellable
  <1>4. ASSUME NEW s \in Sellers, NEW h \in Groups, ClaimMove(s, h) \/ ReleaseMove(s, h)
        PROVE  s = "exec" /\ h # g /\ ClaimMove(s, h)
    BY <1>2, <1>3, <1>4 DEF ClaimMove, ReleaseMove, SellsNow, MarkSellingOk
  <1>5. CASE QuietMove
    <2>1. SameSale("exec", g) /\ Quiet(pos[g], pos'[g])
      BY <1>5 DEF QuietMove
    <2> QED  BY <1>2, <1>3, <2>1 DEF SameSale, SellsNow, Quiet, MarkSellingOk
  <1>6. ASSUME NEW h \in Groups, h # g, ClaimMove("exec", h) PROVE FALSE
    BY <1>2, <1>6 DEF ClaimMove, SellsNow
  <1> QED  BY <1>4, <1>5, <1>6 DEF Move

\* SnapshotSellable is inductive relative to TypeInv and SaleInv.
LEMMA SnapshotStep ==
  ASSUME ~TgEnabled
  PROVE  TypeInv /\ SaleInv /\ SnapshotSellable /\ [Next]_vars => SnapshotSellable'
  <1> SUFFICES ASSUME TypeInv, SaleInv, SnapshotSellable, [Next]_vars PROVE SnapshotSellable'
    OBVIOUS
  <1>1. pc["tg"] = "idle" /\ pc'["tg"] = "idle"
    BY TgIdle DEF SnapshotSellable
  <1>2. ASSUME NEW g \in Groups PROVE Sellable(g)'
    <2>1. Sellable(g)
      BY DEF SnapshotSellable, Sellable
    <2>2. CASE Move
      BY <1>1, <2>1, <2>2, SellableMove DEF InSection
    <2>3. ASSUME NEW h \in Groups, Buy(h) PROVE Sellable(g)'
      <3>1. UNCHANGED <<pc, job>>
        BY <2>3, BuyEffects
      <3>2. CASE g # h
        <4>1. pos'[g] = pos[g]
          BY <2>3, <3>2, BuyEffects
        <4> QED  BY <2>1, <2>3, <3>1, <3>2, <4>1, BuyOthers
                 DEF Sellable, InSection, MarkSellingOk
      <3>3. CASE g = h
        <4>1. CASE \E c \in Buys : BoughtBy(c, g)
          BY <2>3, <3>3, <4>1, BuyTwice DEF Sellable
        <4>2. CASE \A c \in Buys : ~BoughtBy(c, g)
          <5>1. job["exec"].grp # g
            BY <4>2, SaleParts DEF GroupIdle, Sellers
          <5> QED  BY <3>1, <5>1 DEF Sellable
        <4> QED  BY <4>1, <4>2
      <3> QED  BY <3>2, <3>3
    <2> QED  BY <2>2, <2>3, MoveStep
  <1> QED  BY <1>1, <1>2 DEF SnapshotSellable, Sellable

\* Without the Telegram task a sale that is over has not left its position
\* Selling, whatever confirmation, failure and further signals came meanwhile,
\* unless apply_partial_sell refused its part or the group bought again.
THEOREM SaleEndsUnmarked ==
  ASSUME ~TgEnabled
  PROVE  Spec => SaleLetsGo
  <1>1. Init => SnapshotSellable
    BY GroupsAssumption DEF Init, SnapshotSellable, NoJob, Sellers
  <1>2. TypeInv /\ SaleInv /\ SnapshotSellable /\ [Next]_vars => SnapshotSellable'
    BY SnapshotStep
  <1>3. TypeInv /\ SnapshotSellable /\ [Next]_vars =>
          [\A g \in Groups, s \in Sellers :
             BoughtOnce(g) /\ SellsNow(s, g) /\ SaleFits(s) /\ ~SellsNow(s, g)'
               => pos'[g].st # "Selling"]_vars
    <2> SUFFICES ASSUME TypeInv, SnapshotSellable, [Next]_vars,
                        NEW g \in Groups, NEW s \in Sellers,
                        BoughtOnce(g), SellsNow(s, g), SaleFits(s), ~SellsNow(s, g)'
                 PROVE  pos'[g].st # "Selling"
      OBVIOUS
    <2>1. ~SameSale(s, g)
      BY DEF SameSale
    <2>2. ~\E h \in Groups : Buy(h)
      BY <2>1, BuyEffects
    <2>3. ReleaseMove(s, g)
      <3>1. PICK t \in Sellers, h \in Groups : ClaimMove(t, h) \/ ReleaseMove(t, h)
        BY <2>1, <2>2, MoveStep DEF Move, QuietMove
      <3>2. t = s /\ h = g
        BY <2>1, <3>1 DEF ClaimMove, ReleaseMove, OnlyFor
      <3> QED  BY <3>1, <3>2 DEF ClaimMove
    <2>4. s = "exec"
      BY DEF SnapshotSellable, SellsNow, InSection, Sellers
    <2>5. job["exec"].prev \in {"Active", "Confirming"}
      BY <2>4 DEF SnapshotSellable, SellsNow
    <2> QED  BY <2>3, <2>4, <2>5 DEF ReleaseMove, LetsGo
  <1> QED  BY <1>1, <1>2, <1>3, TypeCorrect, SaleCorrect, PTL DEF Spec, SaleLetsGo

(***************************************************************************)
(* A sale is finite.  Attempts are counted up to MaxRetries, and a failed  *)
(* one is followed by another or by the end.                               *)
(***************************************************************************)

\* A task in the retry loop is at an attempt it may make.
Counted(s) == pc[s] \in {"send", "wait"} => job[s].n <= MaxRetries

AllCounted == \A s \in Sellers : Counted(s)

\* StepsLeft by control point, and that some steps are left to a task at a sale.
LEMMA StepsLeftIs ==
  ASSUME TypeInv, NEW s \in Sellers, Counted(s)
  PROVE  /\ MaxRetries \in Nat \ {0} /\ pc[s] \in PCs
         /\ pc[s] = "read" => StepsLeft(s) = 3 * MaxRetries + 3
         /\ pc[s] = "mark" => StepsLeft(s) = 3 * MaxRetries + 2
         /\ pc[s] \in {"send", "wait"} => job[s].n \in 0..MaxRetries
         /\ pc[s] = "send" => StepsLeft(s) = 3 * (MaxRetries - job[s].n) + 4
         /\ pc[s] = "wait" => StepsLeft(s) = 3 * (MaxRetries - job[s].n)
                                             + (IF job[s].leg = "pump" THEN 3 ELSE 2)
         /\ pc[s] = "pmark" => StepsLeft(s) = 2
         /\ pc[s] \in {"psend", "cleanup"} => StepsLeft(s) = 1
         /\ pc[s] = "idle" => StepsLeft(s) = 0
  <1>1. MaxRetries \in Nat \ {0} /\ pc[s] \in PCs /\ job[s].n \in Nat
    BY AllTyped, BoundsAssumption DEF Job
  <1> QED  BY <1>1 DEF StepsLeft, Counted, PCs

\* The same for the next state.
LEMMA StepsLeftNext ==
  ASSUME NEW s \in Sellers
  PROVE  /\ pc'[s] = "mark" => StepsLeft(s)' = 3 * MaxRetries + 2
         /\ pc'[s] = "send" => StepsLeft(s)' = 3 * (MaxRetries - job'[s].n) + 4
         /\ pc'[s] = "wait" => StepsLeft(s)' = 3 * (MaxRetries - job'[s].n)
                                               + (IF job'[s].leg = "pump" THEN 3 ELSE 2)
         /\ pc'[s] \in {"psend", "cleanup"} => StepsLeft(s)' = 1
         /\ pc'[s] = "idle" => StepsLeft(s)' = 0
  BY DEF StepsLeft

\* Where its own step takes a task at a sale: on to the sale, to an attempt or
\* past one, or out.
Turn(s) ==
  \/ pc[s] = "read" /\ pc'[s] = "mark"
  \/ pc[s] = "mark" /\ pc'[s] = "send" /\ job'[s].n = 1
  \/ pc[s] = "send" /\ pc'[s] = "wait" /\ job'[s].n = job[s].n
  \/ /\ pc[s] \in {"send", "wait"} /\ pc'[s] = "send"
     /\ job[s].n < MaxRetries /\ job'[s].n = job[s].n + 1
  \/ /\ pc[s] = "wait" /\ job[s].leg = "pump"
     /\ pc'[s] = "wait" /\ job'[s].leg = "rescue" /\ job'[s].n = job[s].n
  \/ pc[s] = "wait" /\ pc'[s] = "cleanup"
  \/ pc[s] = "pmark" /\ pc'[s] = "psend"
  \/ pc[s] # "idle" /\ pc'[s] = "idle"

\* A turn brings the end nearer, and no attempt too many.
LEMMA TurnNears ==
  ASSUME TypeInv, NEW s \in Sellers, Counted(s), Turn(s)
  PROVE  StepsLeft(s)' < StepsLeft(s) /\ Counted(s)'
  <1> DEFINE now == StepsLeft(s)
             next == StepsLeft(s)'
  <1>1. /\ MaxRetries \in Nat \ {0} /\ pc[s] \in PCs
        /\ pc[s] = "read" => now = 3 * MaxRetries + 3
        /\ pc[s] = "mark" => now = 3 * MaxRetries + 2
        /\ pc[s] \in {"send", "wait"} => job[s].n \in 0..MaxRetries
        /\ pc[s] = "send" => now = 3 * (MaxRetries - job[s].n) + 4
        /\ pc[s] = "wait" => now = 3 * (MaxRetries - job[s].n)
                                   + (IF job[s].leg = "pump" THEN 3 ELSE 2)
        /\ pc[s] = "pmark" => now = 2
        /\ pc[s] \in {"psend", "cleanup"} => now = 1
    BY StepsLeftIs
  <1>2. /\ pc'[s] = "mark" => next = 3 * MaxRetries + 2
        /\ pc'[s] = "send" => next = 3 * (MaxRetries - job'[s].n) + 4
        /\ pc'[s] = "wait" => next = 3 * (MaxRetries - job'[s].n)
                                     + (IF job'[s].leg = "pump" THEN 3 ELSE 2)
        /\ pc'[s] \in {"psend", "cleanup"} => next = 1
        /\ pc'[s] = "idle" => next = 0
    BY StepsLeftNext
  <1> HIDE DEF now, next
  <1>3. next < now
    BY <1>1, <1>2 DEF Turn, PCs
  <1>4. Counted(s)'
    BY <1>1 DEF Turn, Counted
  <1> QED  BY <1>3, <1>4 DEF now, next

\* Every step of handle_sell_signal and handle_partial_sell is a turn.
LEMMA OwnStepTurns ==
  ASSUME TypeInv, NEW s \in Sellers, OwnStep(s)
  PROVE  Turn(s) /\ \A t \in Sellers : t # s => pc'[t] = pc[t] /\ job'[t] = job[t]
  <1> DEFINE Alone == \A t \in Sellers : t # s => pc'[t] = pc[t] /\ job'[t] = job[t]
  <1>1. pc \in [Sellers -> PCs] /\ job \in [Sellers -> Job] /\ job[s] \in Job
    BY AllTyped
  <1>2. ASSUME Idle(s), pc[s] # "idle" PROVE Turn(s) /\ Alone
    BY <1>1, <1>2 DEF Idle, Turn
  <1>3. ASSUME NEW next \in {"send", "psend"}, Claim(s, next),
               pc[s] = IF next = "send" THEN "mark" ELSE "pmark"
        PROVE  Turn(s) /\ Alone
    <2>1. CASE Idle(s)
      BY <1>2, <1>3, <2>1
    <2>2. CASE job' = [job EXCEPT ![s].n = 1] /\ pc' = [pc EXCEPT ![s] = next]
      <3>1. pc'[s] = next /\ job'[s].n = 1 /\ Alone
        BY <1>1, <2>2 DEF Job
      <3> QED  BY <1>3, <3>1 DEF Turn
    <2> QED  BY <1>3, <2>1, <2>2 DEF Claim
  <1>4. ASSUME pc[s] \in {"send", "wait"}, NextAttempt(s) PROVE Turn(s) /\ Alone
    <2>1. CASE job[s].n < MaxRetries
      <3>1. pc'[s] = "send" /\ job'[s].n = job[s].n + 1 /\ Alone
        BY <1>1, <1>4, <2>1 DEF NextAttempt, Job
      <3> QED  BY <1>4, <2>1, <3>1 DEF Turn
    <2>2. CASE ~(job[s].n < MaxRetries)
      BY <1>2, <1>4, <2>2 DEF NextAttempt, GiveUp
    <2> QED  BY <2>1, <2>2
  <1>5. ASSUME NEW leg \in Legs, Sent(s, leg)
        PROVE  pc'[s] = "wait" /\ job'[s].n = job[s].n /\ job'[s].leg = leg /\ Alone
    BY <1>1, <1>5 DEF Sent, Job
  <1>6. CASE ReadBalance(s)
    <2>1. pc[s] = "read"
      BY <1>6 DEF ReadBalance
    <2>2. PICK b \in Balances :
            \E amt \in SaleAmounts(FullAmount(job[s].tok, b), job[s].whole) :
              IF amt = 0 THEN Idle(s)
              ELSE /\ job' = [job EXCEPT ![s].tok = 0, ![s].whole = TRUE,
                                        ![s].amt = amt, ![s].after = b - amt]
                   /\ pc' = [pc EXCEPT ![s] = "mark"]
      BY <1>6 DEF ReadBalance
    <2>3. PICK amt \in SaleAmounts(FullAmount(job[s].tok, b), job[s].whole) :
            IF amt = 0 THEN Idle(s)
            ELSE /\ job' = [job EXCEPT ![s].tok = 0, ![s].whole = TRUE,
                                      ![s].amt = amt, ![s].after = b - amt]
                 /\ pc' = [pc EXCEPT ![s] = "mark"]
      BY <2>2
    <2>4. CASE amt = 0
      BY <1>2, <2>1, <2>3, <2>4
    <2>5. CASE amt # 0
      BY <1>1, <2>1, <2>3, <2>5 DEF Turn
    <2> QED  BY <2>4, <2>5
  <1>7. CASE MarkForSale(s)
    BY <1>3, <1>7 DEF MarkForSale
  <1>8. CASE SendSale(s)
    <2>1. pc[s] = "send" /\ (NextAttempt(s) \/ \E leg \in Legs : Sent(s, leg))
      BY <1>8 DEF SendSale, Legs
    <2> QED  BY <1>4, <1>5, <2>1 DEF Turn
  <1>9. CASE SaleConfirmed(s)
    BY <1>1, <1>9 DEF SaleConfirmed, Finish, Turn
  <1>10. CASE SaleErrorSeen(s)
    <2>1. pc[s] = "wait" /\ "rescue" \in Legs
      BY <1>10 DEF SaleErrorSeen, Legs
    <2>2. CASE GiveUp(s)
      BY <1>2, <2>1, <2>2 DEF GiveUp
    <2>3. CASE job[s].leg = "pump" /\ Sent(s, "rescue")
      BY <1>5, <2>1, <2>3 DEF Turn
    <2> QED  BY <1>10, <2>2, <2>3 DEF SaleErrorSeen
  <1>11. CASE SaleTimedOut(s)
    BY <1>2, <1>4, <1>11 DEF SaleTimedOut, GiveUp
  <1>12. CASE Cleanup(s)
    BY <1>2, <1>12 DEF Cleanup
  <1>13. CASE s = "tg" /\ MarkForPart
    BY <1>3, <1>13 DEF MarkForPart
  <1>14. CASE s = "tg" /\ SendPart
    BY <1>2, <1>14 DEF SendPart
  <1> QED
    BY <1>6, <1>7, <1>8, <1>9, <1>10, <1>11, <1>12, <1>13, <1>14
       DEF OwnStep, SellerStep, PartStep

\* What any other step leaves a task: where it is in its sale, or at the
\* beginning of one.
LEMMA OthersLeaveTurn ==
  ASSUME TypeInv, [Next]_vars, NEW s \in Sellers, ~OwnStep(s)
  PROVE  \/ pc'[s] = pc[s] /\ job'[s].n = job[s].n /\ job'[s].leg = job[s].leg
         \/ pc[s] = "idle" /\ pc'[s] \in {"read", "pmark"}
  <1>1. pc \in [Sellers -> PCs] /\ job \in [Sellers -> Job] /\ job[s] \in Job
    BY AllTyped
  <1>2. ASSUME UNCHANGED <<pc, job>>
        PROVE  pc'[s] = pc[s] /\ job'[s].n = job[s].n /\ job'[s].leg = job[s].leg
    BY <1>2
  <1>3. CASE \/ \E g \in Groups : Buy(g) \/ FallbackRead(g) \/ Retain(g) \/ Exits(g)
             \/ FallbackApply \/ BalanceUpdate
             \/ \E b \in Buys : ConfirmStep(b) \/ LandBuy(b)
             \/ \E amt \in BagToSet(strays) : LandStray(amt)
             \/ UNCHANGED vars
    <2>1. UNCHANGED <<pc, job>>
      BY <1>3 DEF Buy, FallbackRead, Retain, Exits, PriceExit, CappedExit, ManualExit, Emit,
                  FallbackApply, BalanceUpdate, ConfirmStep, ConfirmSees, ConfirmSuccess,
                  ConfirmFailed, LandBuy, LandStray, vars
    <2> QED  BY <1>2, <2>1
  <1>4. CASE TakeSignal
    BY <1>1, <1>4 DEF TakeSignal, Start
  <1>5. CASE \E g \in Groups : TgSellAll(g) \/ TgSellPart(g)
    BY <1>1, <1>5 DEF TgSellAll, Start, TgSellPart
  <1>6. ASSUME NEW t \in Sellers, LandSale(t)
        PROVE  pc'[s] = pc[s] /\ job'[s].n = job[s].n /\ job'[s].leg = job[s].leg
    BY <1>1, <1>6 DEF LandSale, Job
  <1>7. ASSUME NEW t \in Sellers, OwnStep(t)
        PROVE  pc'[s] = pc[s] /\ job'[s].n = job[s].n /\ job'[s].leg = job[s].leg
    BY <1>7, OwnStepTurns
  <1>8. ASSUME PartStep
        PROVE  pc'[s] = pc[s] /\ job'[s].n = job[s].n /\ job'[s].leg = job[s].leg
    BY <1>7, <1>8 DEF OwnStep, Sellers
  <1> QED  BY <1>3, <1>4, <1>5, <1>6, <1>7, <1>8 DEF Next, OwnStep

\* The retry loop never makes more than MaxRetries attempts.
LEMMA CountedStep == TypeInv /\ AllCounted /\ [Next]_vars => AllCounted'
  <1> SUFFICES ASSUME TypeInv, AllCounted, [Next]_vars, NEW s \in Sellers PROVE Counted(s)'
    BY DEF AllCounted
  <1>1. Counted(s)
    BY DEF AllCounted
  <1>2. CASE OwnStep(s)
    BY <1>1, <1>2, OwnStepTurns, TurnNears
  <1>3. CASE ~OwnStep(s)
    BY <1>1, <1>3, OthersLeaveTurn DEF Counted
  <1> QED  BY <1>2, <1>3

\* A sale takes at most 3 * MaxRetries + 3 steps of its task, and no step of a
\* confirm task, the monitor, the chain or the other seller adds to them: what is
\* left of SaleEnds is that the task goes on being scheduled.
THEOREM SaleIsFinite == Spec => SaleNearsEnd
  <1>1. Init => AllCounted
    BY DEF Init, AllCounted, Counted
  <1>2. TypeInv /\ AllCounted /\ [Next]_vars => AllCounted'
    BY CountedStep
  <1>3. TypeInv /\ AllCounted /\ [Next]_vars =>
          [\A s \in Sellers : pc[s] # "idle" =>
             IF OwnStep(s) THEN StepsLeft(s)' < StepsLeft(s)
             ELSE StepsLeft(s)' = StepsLeft(s)]_vars
    <2> SUFFICES ASSUME TypeInv, AllCounted, [Next]_vars,
                        NEW s \in Sellers, pc[s] # "idle"
                 PROVE  IF OwnStep(s) THEN StepsLeft(s)' < StepsLeft(s)
                        ELSE StepsLeft(s)' = StepsLeft(s)
      OBVIOUS
    <2>1. CASE OwnStep(s)
      BY <2>1, OwnStepTurns, TurnNears DEF AllCounted
    <2>2. CASE ~OwnStep(s)
      BY <2>2, OthersLeaveTurn DEF StepsLeft
    <2> QED  BY <2>1, <2>2
  <1> QED  BY <1>1, <1>2, <1>3, TypeCorrect, PTL DEF Spec, SaleNearsEnd

(***************************************************************************)
(* The sellers keep the promise of Sales.  The moves above are its steps:  *)
(* a claim begins a sale, a release ends it, a quiet move drops a position *)
(* or is nothing that Sales can see.                                       *)
(***************************************************************************)

Phases == [g \in Groups |-> Phase(g)]

Deals == {b \in Sellers \X Groups : SellsNow(b[1], b[2])}

Gone(p) == p.st = "Absent" \/ p.sold

\* Who sells in Sales is at a sale here.
LEMMA DealsAre ==
  /\ \A s \in Sellers, g \in Groups : <<s, g>> \in Deals <=> SellsNow(s, g)
  /\ \A g \in Groups : Promise!Sold(g) <=> \E s \in Sellers : SellsNow(s, g)
  BY DEF Deals, Promise!Sold

\* A move neither makes a group a buyer nor brings a gone position back: a held
\* position is held or over after it, and nothing else changes its phase.
LEMMA PhaseMoves ==
  ASSUME SameBuyers, NEW g \in Groups, BoughtOnce(g) /\ Gone(pos[g]) => Gone(pos'[g])
  PROVE  Phase(g)' = Phase(g) \/ (Phase(g) = "held" /\ Phase(g)' = "over")
  <1>1. \A b \in Buys : BoughtBy(b, g)' <=> BoughtBy(b, g)
    BY DEF SameBuyers
  <1>2. BoughtOnce(g)' <=> BoughtOnce(g)
    BY <1>1 DEF BoughtOnce
  <1> QED  BY <1>1, <1>2 DEF Phase, Gone

\* A position that stays as it is stays in its phase.
LEMMA PhaseStays ==
  ASSUME SameBuyers, NEW g \in Groups, pos'[g] = pos[g]
  PROVE  Phase(g)' = Phase(g)
  <1>1. \A b \in Buys : BoughtBy(b, g)' <=> BoughtBy(b, g)
    BY DEF SameBuyers
  <1>2. BoughtOnce(g)' <=> BoughtOnce(g)
    BY <1>1 DEF BoughtOnce
  <1> QED  BY <1>1, <1>2 DEF Phase

\* The phases after a step that changes the phase of one group at most.
LEMMA PhasesUpdate ==
  ASSUME NEW g \in Groups, \A h \in Groups \ {g} : Phase(h)' = Phase(h)
  PROVE  /\ Phases' = [Phases EXCEPT ![g] = Phase(g)']
         /\ Phase(g)' = Phase(g) => Phases' = Phases
         /\ Phases[g] = Phase(g)
  BY DEF Phases

\* A quiet move drops a position, or Sales sees nothing of it.
LEMMA QuietDrops ==
  ASSUME QuietMove
  PROVE  UNCHANGED <<Phases, Deals>> \/ \E g \in Groups : Promise!Drop(g)
  <1>1. Deals' = Deals
    BY DEF Deals, QuietMove, SameSale
  <1>2. SameBuyers
    BY DEF QuietMove, Common
  <1>3. CASE \A g \in Groups : pos'[g] = pos[g]
    <2>1. \A g \in Groups : Phase(g)' = Phase(g)
      BY <1>2, <1>3, PhaseStays
    <2> QED  BY <1>1, <2>1 DEF Phases
  <1>4. ASSUME NEW g \in Groups, pos'[g] # pos[g]
        PROVE  UNCHANGED <<Phases, Deals>> \/ Promise!Drop(g)
    <2>1. \A h \in Groups \ {g} : Phase(h)' = Phase(h)
      BY <1>2, <1>4, PhaseStays DEF QuietMove, Common
    <2>2. Gone(pos[g]) => Gone(pos'[g])
      BY DEF QuietMove, Common, Quiet, Gone
    <2>3. Phase(g)' = Phase(g) \/ (Phase(g) = "held" /\ Phase(g)' = "over")
      BY <1>2, <2>2, PhaseMoves
    <2> QED  BY <1>1, <2>1, <2>3, PhasesUpdate DEF Promise!Drop, Phases, Deals
  <1> QED  BY <1>3, <1>4

\* A granted mark_selling begins a sale that Sales allows: the position is held
\* and nobody sells it, or its group is excused.
LEMMA ClaimBegins ==
  ASSUME SaleInv, NEW s \in Sellers, NEW g \in Groups, ClaimMove(s, g)
  PROVE  Promise!Begin(s, g)
  <1>1. OnlyFor(s, g) /\ SameBuyers
    BY DEF ClaimMove, OnlyFor, Common
  <1>2. GroupSafe(g) /\ GroupIdle(g)
    BY SaleParts
  <1>3. \E b \in Buys : BoughtBy(b, g)
    BY <1>2 DEF GroupIdle, ClaimMove
  <1>4. Phase(g) = "excused" \/ (Phase(g) = "held" /\ \A t \in Sellers : ~SellsNow(t, g))
    BY <1>2, <1>3 DEF Phase, GroupSafe, ClaimMove
  <1>5. Deals' = Deals \cup {<<s, g>>}
    BY <1>1 DEF Deals, OnlyFor, SameSale, ClaimMove
  <1>6. Phases' = Phases
    <2>1. \A h \in Groups \ {g} : Phase(h)' = Phase(h)
      BY <1>1, PhaseStays DEF OnlyFor
    <2>2. ~Gone(pos'[g]) <=> ~Gone(pos[g])
      BY DEF ClaimMove, Gone
    <2>3. (\A b \in Buys : BoughtBy(b, g)' <=> BoughtBy(b, g))
          /\ (BoughtOnce(g)' <=> BoughtOnce(g))
      BY <1>1 DEF SameBuyers, BoughtOnce
    <2>4. Phase(g)' = Phase(g)
      BY <2>2, <2>3 DEF Phase, Gone
    <2> QED  BY <2>1, <2>4, PhasesUpdate
  <1> QED  BY <1>4, <1>5, <1>6, DealsAre, PhasesUpdate DEF Promise!Begin, Phases, Deals

\* The end of a sale ends it in Sales, where it may have been the last one.
LEMMA ReleaseEnds ==
  ASSUME SaleInv, NEW s \in Sellers, NEW g \in Groups, ReleaseMove(s, g)
  PROVE  Promise!End(s, g)
  <1>1. OnlyFor(s, g) /\ SameBuyers
    BY DEF ReleaseMove, OnlyFor, Common
  <1>2. <<s, g>> \in Deals
    BY DealsAre DEF ReleaseMove
  <1>3. Deals' = Deals \ {<<s, g>>}
    BY <1>1 DEF Deals, OnlyFor, SameSale, ReleaseMove
  <1>4. \A h \in Groups \ {g} : Phase(h)' = Phase(h)
    BY <1>1, PhaseStays DEF OnlyFor
  <1>5. BoughtOnce(g) => ~pos[g].sold
    BY SaleParts DEF GroupSafe, ReleaseMove
  <1>6. BoughtOnce(g) /\ Gone(pos[g]) => Gone(pos'[g])
    BY <1>5 DEF ReleaseMove, Released, Gone
  <1>7. Phase(g)' = Phase(g) \/ (Phase(g) = "held" /\ Phase(g)' = "over")
    BY <1>1, <1>6, PhaseMoves
  <1> QED  BY <1>2, <1>3, <1>4, <1>7, PhasesUpdate DEF Promise!End, Phases, Deals

\* The first buy of a group gives it a position, a later one excuses it.
LEMMA BuyBuys ==
  ASSUME TypeInv, NEW g \in Groups, Buy(g)
  PROVE  Promise!Buy(g)
  <1>1. Deals' = Deals
    <2>1. \A s \in Sellers, h \in Groups : SellsNow(s, h)' <=> SellsNow(s, h)
      BY BuyEffects DEF SameSale
    <2> QED  BY <2>1 DEF Deals
  <1>2. ASSUME NEW h \in Groups \ {g} PROVE Phase(h)' = Phase(h)
    <2>1. pos'[h] = pos[h]
      BY BuyEffects
    <2> QED  BY <2>1, BuyOthers DEF Phase
  <1>3. PICK b \in Buys :
          /\ ~BoughtBy(b, g) /\ BoughtBy(b, g)'
          /\ \A c \in Buys \ {b}, h \in Groups : BoughtBy(c, h)' <=> BoughtBy(c, h)
    BY BuyEffects
  <1>4. Phase(g)' = IF Phase(g) = "none" THEN "held" ELSE "excused"
    <2>1. CASE \A c \in Buys : ~BoughtBy(c, g)
      <3>1. BoughtOnce(g)'
        BY <1>3, <2>1 DEF BoughtOnce
      <3>2. pos'[g].st # "Absent" /\ ~pos'[g].sold
        BY BuyEffects
      <3> QED  BY <1>3, <2>1, <3>1, <3>2 DEF Phase
    <2>2. CASE \E c \in Buys : BoughtBy(c, g)
      <3>1. ~BoughtOnce(g)' /\ Phase(g) # "none"
        BY <2>2, BuyTwice DEF Phase
      <3> QED  BY <1>3, <3>1 DEF Phase
    <2> QED  BY <2>1, <2>2
  <1> QED  BY <1>1, <1>2, <1>4, PhasesUpdate DEF Promise!Buy, Phases, Deals

\* The tasks that sell implement Sales: with states, snapshots, retries and the
\* confirmation beside them, for any number of groups and buys, nobody sells
\* beside another or what was sold, unless the group buys the mint again.
THEOREM SalesImplemented == Spec => ImplementsSales
  <1>1. Init => Promise!Init
    <2> SUFFICES ASSUME Init PROVE Promise!Init
      OBVIOUS
    <2>1. \A g \in Groups, b \in Buys : ~BoughtBy(b, g)
      BY DEF Init, NoBuy, BoughtBy
    <2>2. Phases = [g \in Groups |-> "none"]
      BY <2>1 DEF Phases, Phase
    <2>3. \A s \in Sellers, g \in Groups : ~SellsNow(s, g)
      BY DEF Init, SellsNow, InSection
    <2>4. Deals = {}
      BY <2>3 DEF Deals
    <2> QED  BY <2>2, <2>4 DEF Promise!Init, Phases, Deals
  <1>2. TypeInv /\ SaleInv /\ [Next]_vars => [Promise!Next]_(Promise!svars)
    <2> SUFFICES ASSUME TypeInv, SaleInv, [Next]_vars
                 PROVE  Promise!Next \/ UNCHANGED Promise!svars
      OBVIOUS
    <2>1. CASE QuietMove
      BY <2>1, QuietDrops DEF Promise!Next, Promise!svars, Phases, Deals
    <2>2. ASSUME NEW s \in Sellers, NEW g \in Groups, ClaimMove(s, g) \/ ReleaseMove(s, g)
          PROVE  Promise!Next
      BY <2>2, ClaimBegins, ReleaseEnds DEF Promise!Next
    <2>3. ASSUME NEW g \in Groups, Buy(g) PROVE Promise!Next
      BY <2>3, BuyBuys DEF Promise!Next
    <2> QED  BY <2>1, <2>2, <2>3, MoveStep DEF Move
  <1> QED  BY <1>1, <1>2, TypeCorrect, SaleCorrect, PTL DEF Spec, ImplementsSales, Promise!Spec

(***************************************************************************)
(* Active needs a landing.  Until a buy lands every balance is zero, so    *)
(* that no confirm task finds one and no sale gets beyond asking for it;   *)
(* only a part sold by button does not ask.                                *)
(***************************************************************************)

SomeLanded == \E b \in Buys : buys[b].tx = "ok"

NothingThere ==
  /\ bal = 0 /\ cache \in {0, NoEntry}
  /\ \A b \in Buys : buys[b].pc # "apply"
  /\ \A s \in Sellers : pc[s] \in {"idle", "read", "pmark", "psend"}
  /\ pc["exec"] \in {"idle", "read"}

LandInv == SomeLanded \/ NothingThere

\* What a buy writes.
LEMMA BuyWrites ==
  ASSUME NEW g \in Groups, Buy(g)
  PROVE  \E b \in Buys, amt \in BuyAmounts, est \in Estimates :
           LET pre == IF cache = NoEntry THEN 0 ELSE cache IN
           /\ pos' = [pos EXCEPT ![g] = NewPosition(b, est, pre)]
           /\ buys' = [buys EXCEPT ![b] =
                         [grp |-> g, tx |-> "sent", amt |-> amt, est |-> est,
                          pre |-> pre, pc |-> "poll", seen |-> 0]]
  BY DEF Buy

\* A buy that has landed stays so.
LEMMA StaysLanded ==
  ASSUME TypeInv, SomeLanded, [Next]_vars
  PROVE  SomeLanded'
  <1>0. buys \in [Buys -> BuyRecord]
    BY DEF TypeInv, TypeOK
  <1>1. PICK l \in Buys : buys[l].tx = "ok"
    BY DEF SomeLanded
  <1>2. SUFFICES buys'[l].tx = "ok"
    BY <1>1 DEF SomeLanded
  <1>3. CASE UNCHANGED buys
    BY <1>1, <1>3
  <1>4. ASSUME NEW g \in Groups, Buy(g) PROVE buys'[l].tx = "ok"
    <2>1. PICK b \in Buys : buys[b].tx = "none" /\ \E r : buys' = [buys EXCEPT ![b] = r]
      BY <1>4 DEF Buy
    <2> QED  BY <1>0, <1>1, <2>1
  <1>5. ASSUME NEW b \in Buys, ConfirmStep(b) PROVE buys'[l].tx = "ok"
    <2>1. CASE ConfirmSees(b)
      BY <1>0, <1>1, <2>1 DEF ConfirmSees, BuyRecord
    <2>2. CASE ConfirmSuccess(b) \/ ConfirmFailed(b)
      BY <1>0, <1>1, <2>2 DEF ConfirmSuccess, ConfirmFailed, ConfirmOver, BuyRecord
    <2> QED  BY <1>5, <2>1, <2>2 DEF ConfirmStep
  <1>6. ASSUME NEW b \in Buys, LandBuy(b) PROVE buys'[l].tx = "ok"
    <2>1. b # l
      BY <1>1, <1>6 DEF LandBuy
    <2> QED  BY <1>0, <1>1, <1>6, <2>1 DEF LandBuy
  <1>7. CASE \/ \E g \in Groups : FallbackRead(g) \/ Retain(g) \/ Exits(g)
                                  \/ TgSellAll(g) \/ TgSellPart(g)
             \/ FallbackApply \/ TakeSignal \/ BalanceUpdate
             \/ \E amt \in BagToSet(strays) : LandStray(amt)
    <2>1. ASSUME NEW g \in Groups, FallbackRead(g) \/ Retain(g) \/ Exits(g)
                                   \/ TgSellAll(g) \/ TgSellPart(g)
          PROVE  UNCHANGED buys
      <3>1. FallbackRead(g) \/ Retain(g) => UNCHANGED buys
        BY DEF FallbackRead, Retain
      <3>2. Exits(g) => UNCHANGED buys
        BY DEF Exits, PriceExit, CappedExit, ManualExit, Emit
      <3>3. TgSellAll(g) => UNCHANGED buys
        BY DEF TgSellAll
      <3>4. TgSellPart(g) => UNCHANGED buys
        BY DEF TgSellPart
      <3> QED  BY <2>1, <3>1, <3>2, <3>3, <3>4
    <2>2. FallbackApply \/ TakeSignal \/ BalanceUpdate => UNCHANGED buys
      BY DEF FallbackApply, TakeSignal, BalanceUpdate
    <2>3. ASSUME NEW amt \in BagToSet(strays), LandStray(amt) PROVE UNCHANGED buys
      BY <2>3 DEF LandStray
    <2> QED  BY <1>3, <1>7, <2>1, <2>2, <2>3
  <1>8. CASE PartStep \/ \E s \in Sellers : SellerStep(s) \/ LandSale(s)
    <2>1. UNCHANGED buys
      BY <1>8 DEF PartStep, MarkForPart, SendPart, SellerStep, ReadBalance, MarkForSale,
                  SendSale, SaleConfirmed, SaleErrorSeen, SaleTimedOut, Cleanup, LandSale
    <2> QED  BY <1>3, <2>1
  <1>9. UNCHANGED vars => UNCHANGED buys
    BY DEF vars
  <1> QED  BY <1>3, <1>4, <1>5, <1>6, <1>7, <1>8, <1>9 DEF Next

\* What a step may do while nothing is there.
Becomes(g) == pos[g].st # "Active" /\ pos'[g].st = "Active"

NothingHappens ==
  /\ SomeLanded' \/ NothingThere'
  /\ (\A g \in Groups : ~Becomes(g)) \/ SendPart

\* Before a buy lands no balance is seen: nothing is confirmed, no sale goes beyond
\* its first look, and nothing becomes Active but by a part sold by button.
LEMMA NothingStep ==
  ASSUME TypeInv, NothingThere, [Next]_vars
  PROVE  NothingHappens
  <1> USE DEF NothingThere, NothingHappens, Becomes
  <1>0. /\ buys \in [Buys -> BuyRecord] /\ pos \in [Groups -> Position]
        /\ pc \in [Sellers -> PCs] /\ job \in [Sellers -> Job]
        /\ Sellers = {"exec", "tg"}
    BY DEF TypeInv, TypeOK, Sellers
  <1>1. CASE UNCHANGED <<pos, buys, bal, cache, pc>>
    BY <1>1
  <1>2. ASSUME NEW g \in Groups, Buy(g) PROVE NothingHappens
    <2>1. PICK b \in Buys, amt \in BuyAmounts, est \in Estimates :
            /\ pos' = [pos EXCEPT ![g] =
                         NewPosition(b, est, IF cache = NoEntry THEN 0 ELSE cache)]
            /\ buys' = [buys EXCEPT ![b] =
                          [grp |-> g, tx |-> "sent", amt |-> amt, est |-> est,
                           pre |-> IF cache = NoEntry THEN 0 ELSE cache,
                           pc |-> "poll", seen |-> 0]]
      BY <1>2, BuyWrites
    <2>2. \A c \in Buys : buys'[c].pc # "apply"
      BY <1>0, <2>1
    <2>3. \A h \in Groups : ~Becomes(h)
      BY <1>0, <2>1 DEF NewPosition
    <2> QED  BY <1>2, <2>2, <2>3 DEF Buy
  <1>3. ASSUME NEW b \in Buys, ConfirmStep(b) PROVE NothingHappens
    <2>1. ~ConfirmSees(b)
      BY <1>0 DEF ConfirmSees, Seen, NoEntry, BuyRecord
    <2>2. ~ConfirmSuccess(b)
      BY DEF ConfirmSuccess
    <2>3. ConfirmFailed(b)
      BY <1>3, <2>1, <2>2 DEF ConfirmStep
    <2>4. \A c \in Buys : buys'[c].pc # "apply"
      BY <1>0, <2>3 DEF ConfirmFailed, ConfirmOver, BuyRecord
    <2>5. \A h \in Groups : ~Becomes(h)
      BY <1>0, <2>3 DEF ConfirmFailed, MarkFailed, Position
    <2> QED  BY <2>3, <2>4, <2>5 DEF ConfirmFailed
  <1>4. ASSUME NEW b \in Buys, LandBuy(b) PROVE NothingHappens
    <2>1. \A h \in Groups : ~Becomes(h)
      BY <1>4 DEF LandBuy
    <2>2. CASE buys' = [buys EXCEPT ![b].tx = "ok", ![b].amt = 0]
      <3>1. buys'[b].tx = "ok"
        BY <1>0, <2>2 DEF BuyRecord
      <3> QED  BY <2>1, <3>1 DEF SomeLanded
    <2>3. CASE buys' = [buys EXCEPT ![b].tx = "err", ![b].amt = 0] /\ UNCHANGED bal
      <3>1. \A c \in Buys : buys'[c].pc # "apply"
        BY <1>0, <2>3 DEF BuyRecord
      <3> QED  BY <1>4, <2>1, <2>3, <3>1 DEF LandBuy
    <2> QED  BY <1>4, <2>2, <2>3 DEF LandBuy
  <1>5. CASE FallbackApply \/ \E g \in Groups : Retain(g)
    <2>1. \A h \in Groups : ~Becomes(h)
      <3>1. CASE FallbackApply
        BY <1>0, <3>1 DEF FallbackApply, MarkFailed, Position
      <3>2. CASE \E g \in Groups : Retain(g)
        BY <1>0, <3>2 DEF Retain, Absent
      <3> QED  BY <1>5, <3>1, <3>2
    <2> QED  BY <1>5, <2>1 DEF FallbackApply, Retain
  <1>6. CASE TakeSignal \/ \E g \in Groups : TgSellAll(g) \/ TgSellPart(g)
    <2>1. UNCHANGED <<pos, buys, bal, cache>>
      <3>1. TakeSignal => UNCHANGED <<pos, buys, bal, cache>>
        BY DEF TakeSignal
      <3>2. ASSUME NEW g \in Groups, TgSellAll(g) PROVE UNCHANGED <<pos, buys, bal, cache>>
        BY <3>2 DEF TgSellAll
      <3>3. ASSUME NEW g \in Groups, TgSellPart(g) PROVE UNCHANGED <<pos, buys, bal, cache>>
        BY <3>3 DEF TgSellPart
      <3> QED  BY <1>6, <3>1, <3>2, <3>3
    <2>2. pc' = pc \/ pc' = [pc EXCEPT !["exec"] = "read"]
                   \/ \E next \in {"read", "pmark"} : pc' = [pc EXCEPT !["tg"] = next]
      <3>1. TakeSignal => pc' = pc \/ pc' = [pc EXCEPT !["exec"] = "read"]
        BY DEF TakeSignal, Start
      <3>2. ASSUME NEW g \in Groups, TgSellAll(g) PROVE pc' = [pc EXCEPT !["tg"] = "read"]
        BY <3>2 DEF TgSellAll, Start
      <3>3. ASSUME NEW g \in Groups, TgSellPart(g) PROVE pc' = [pc EXCEPT !["tg"] = "pmark"]
        BY <3>3 DEF TgSellPart
      <3> QED  BY <1>6, <3>1, <3>2, <3>3
    <2>3. /\ \A s \in Sellers : pc'[s] \in {"idle", "read", "pmark", "psend"}
          /\ pc'["exec"] \in {"idle", "read"}
      BY <1>0, <2>2
    <2> QED  BY <2>1, <2>3
  <1>7. ASSUME NEW s \in Sellers, ReadBalance(s) PROVE NothingHappens
    <2> DEFINE g == job[s].grp
               q == RecordZeroBalanceSkip(pos[g])
    <2>1. PICK b \in Balances : \E amt \in SaleAmounts(FullAmount(job[s].tok, b), job[s].whole) :
            IF amt = 0
            THEN /\ pos' = [pos EXCEPT ![g] = IF q.skips >= MaxSkips THEN MarkFailed(q) ELSE q]
                 /\ Idle(s)
            ELSE TRUE
      BY <1>7 DEF ReadBalance
    <2>2. b = 0
      BY DEF Balances
    <2>3. FullAmount(job[s].tok, b) = 0
      BY <1>0, <2>2 DEF FullAmount, Job
    <2>4. SaleAmounts(FullAmount(job[s].tok, b), job[s].whole) = {0}
      BY <2>3 DEF SaleAmounts
    <2>5. /\ pos' = [pos EXCEPT ![g] = IF q.skips >= MaxSkips THEN MarkFailed(q) ELSE q]
          /\ pc' = [pc EXCEPT ![s] = "idle"]
      BY <2>1, <2>4 DEF Idle
    <2>6. g \in Groups => /\ q.st = "Active" => pos[g].st = "Active"
                          /\ MarkFailed(q).st # "Active"
      BY <1>0 DEF RecordZeroBalanceSkip, MarkFailed, Position
    <2> HIDE DEF q
    <2>7. \A h \in Groups : ~Becomes(h)
      BY <1>0, <2>5, <2>6
    <2>8. /\ \A t \in Sellers : pc'[t] \in {"idle", "read", "pmark", "psend"}
          /\ pc'["exec"] \in {"idle", "read"}
      BY <1>0, <2>5
    <2> QED  BY <1>7, <2>7, <2>8 DEF ReadBalance
  <1>8. ASSUME NEW s \in Sellers, SellerStep(s) \/ LandSale(s) PROVE ReadBalance(s)
    BY <1>8 DEF SellerStep, MarkForSale, SendSale, SaleConfirmed, SaleErrorSeen,
                SaleTimedOut, Cleanup, LandSale
  <1>9. CASE MarkForPart
    <2> DEFINE p == pos[job["tg"].grp]
    <2>0. pos' = pos \/ pos' = [pos EXCEPT ![job["tg"].grp] = MarkSelling(p)]
      BY <1>9 DEF MarkForPart, Claim
    <2>4. job["tg"].grp \in Groups => MarkSelling(p).st = "Selling"
      BY <1>0 DEF MarkSelling, Position
    <2>1. \A h \in Groups : ~Becomes(h)
      BY <1>0, <2>0, <2>4
    <2>2. /\ \A s \in Sellers : pc'[s] \in {"idle", "read", "pmark", "psend"}
          /\ pc'["exec"] \in {"idle", "read"}
      BY <1>0, <1>9 DEF MarkForPart, Claim, Idle
    <2> QED  BY <1>9, <2>1, <2>2 DEF MarkForPart
  <1>10. CASE SendPart
    <2>1. /\ \A s \in Sellers : pc'[s] \in {"idle", "read", "pmark", "psend"}
          /\ pc'["exec"] \in {"idle", "read"}
      BY <1>0, <1>10 DEF SendPart, Idle
    <2> QED  BY <1>10, <2>1 DEF SendPart
  <1>11. CASE BalanceUpdate \/ \E amt \in BagToSet(strays) : LandStray(amt)
    <2>1. bal' = 0
      <3>1. BagToSet(strays) \subseteq Nat
        BY DEF TypeInv, TypeOK, BagToSet
      <3>2. ASSUME NEW amt \in BagToSet(strays), LandStray(amt) PROVE bal' = 0
        <4>1. amt \in Nat /\ amt <= 0 /\ bal' = 0 - amt
          BY <3>1, <3>2 DEF LandStray
        <4> QED  BY <4>1
      <3>3. BalanceUpdate => bal' = 0
        BY DEF BalanceUpdate
      <3> QED  BY <1>11, <3>2, <3>3
    <2>2. cache' \in {0, NoEntry} /\ UNCHANGED <<pos, buys, pc>>
      BY <1>11 DEF BalanceUpdate, LandStray
    <2> QED  BY <2>1, <2>2
  <1>12. CASE \E g \in Groups : FallbackRead(g) \/ Exits(g)
    <2>1. UNCHANGED <<pos, buys, bal, cache, pc>>
      BY <1>12 DEF FallbackRead, Exits, PriceExit, CappedExit, ManualExit, Emit
    <2> QED  BY <1>1, <2>1
  <1>13. CASE UNCHANGED vars
    BY <1>1, <1>13 DEF vars
  <1> QED
    BY <1>2, <1>3, <1>4, <1>5, <1>6, <1>7, <1>8, <1>9, <1>10, <1>11, <1>12, <1>13
    DEF Next, PartStep

\* No position counts as bought before a buy of its mint has landed, unless a part
\* of it was sold by button: for any number of groups and buys on the one account,
\* with the bot or without.
THEOREM ActiveOnceLanded == Spec => ActiveNeedsLanding
  <1>1. Init => LandInv
    BY DEF Init, LandInv, NothingThere, NoBuy, NoEntry, Sellers
  <1>2. TypeInv /\ LandInv /\ [Next]_vars => LandInv'
    BY StaysLanded, NothingStep DEF LandInv, NothingHappens
  <1>3. TypeInv /\ LandInv /\ [Next]_vars =>
          [\A g \in Groups : pos[g].st # "Active" /\ pos'[g].st = "Active" =>
             SendPart \/ \E b \in Buys : buys[b].tx = "ok"]_vars
    BY NothingStep DEF LandInv, SomeLanded, NothingHappens, Becomes
  <1> QED  BY <1>1, <1>2, <1>3, TypeCorrect, PTL DEF Spec, ActiveNeedsLanding

=============================================================================
