-------------------------- MODULE MonitoringProofs --------------------------
(***************************************************************************)
(* Proofs about Monitoring, for any number of groups, wallets and faults:  *)
(* types, the stream's memory of what it asked for, and its wake-up.  What *)
(* the groups need is proved in GroupsProofs.                              *)
(***************************************************************************)
EXTENDS Monitoring, GroupsProofs

(***************************************************************************)
(* The invariant                                                           *)
(***************************************************************************)

\* The list, the stream and the copying task.
StreamInv ==
  /\ targets \subseteq Wallets
  /\ sub \in Stream!Subscriber
  /\ sync \in {"tick", "notify"}
  /\ FilterIsRemembered

MonitorInv == EditorInv /\ StreamInv

LEMMA InvIsType == MonitorInv => TypeOK
  BY DEF MonitorInv, EditorInv, EditorType, StreamInv, TypeOK, GoodBook

\* Only wallets are followed.
LEMMA TargetsAreWallets ==
  ASSUME NEW b, IsBook(b)
  PROVE  AllTargetWallets(b) \subseteq Wallets
  BY BookFacts DEF AllTargetWallets, Group

\* It holds when the bot starts for the first time.
LEMMA MonitorInit == Init => MonitorInv
<1> SUFFICES ASSUME Init PROVE MonitorInv
  OBVIOUS
<1> USE DEF Init
<1>1. EditorInv
  BY EditorStarts
<1>2. sub \in Stream!Subscriber /\ sub.at = "check"
  BY DEF Stream!Subscriber, Stream!Starting
<1>3. StreamInv
  BY <1>1, <1>2, TargetsAreWallets DEF StreamInv, FilterIsRemembered, EditorInv, GoodBook
<1> QED BY <1>1, <1>3 DEF MonitorInv

\* A step of the stream.
LEMMA StreamStep ==
  ASSUME StreamInv, Stream!StreamNext, UNCHANGED sync
  PROVE  StreamInv'
<1> USE DEF StreamInv, FilterIsRemembered, Stream!Subscriber
<1>1. CASE Stream!CheckTargets
  BY <1>1 DEF Stream!CheckTargets, Stream!SubGoto
<1>2. CASE Stream!Wait
  BY <1>2 DEF Stream!Wait, Stream!SubGoto
<1>3. CASE Stream!CopyTargets
  BY <1>3 DEF Stream!CopyTargets
<1>4. CASE Stream!Connected
  BY <1>4 DEF Stream!Connected
<1>5. CASE Stream!NotConnected
  BY <1>5 DEF Stream!NotConnected, Stream!Ended, Stream!Starting
<1>6. CASE Stream!Resubscribe
  BY <1>6 DEF Stream!Resubscribe
<1>7. CASE Stream!ConnectionBreaks
  BY <1>7 DEF Stream!ConnectionBreaks
<1>8. CASE Stream!StreamEnds
  BY <1>8 DEF Stream!StreamEnds, Stream!Ended, Stream!Starting
<1>9. CASE Stream!StartOver
  BY <1>9 DEF Stream!StartOver, Stream!SubGoto
<1> QED BY <1>1, <1>2, <1>3, <1>4, <1>5, <1>6, <1>7, <1>8, <1>9 DEF Stream!StreamNext

\* The copying task changes the list, then wakes the stream.
LEMMA SyncStep ==
  ASSUME StreamInv, IsBook(book), SyncTargets \/ SyncNotify
  PROVE  StreamInv'
<1>1. CASE SyncTargets
  BY <1>1, TargetsAreWallets DEF StreamInv, FilterIsRemembered, SyncTargets
<1>2. CASE SyncNotify
  BY <1>2 DEF StreamInv, FilterIsRemembered, SyncNotify, Stream!NotifyWaiters,
              Stream!Subscriber, Stream!Starting
<1> QED BY <1>1, <1>2

\* Every step keeps the invariant.
LEMMA MonitorStep == MonitorInv /\ [Next]_vars => MonitorInv'
<1> SUFFICES ASSUME MonitorInv, [Next]_vars PROVE MonitorInv'
  OBVIOUS
<1> USE DEF MonitorInv
<1>1. ASSUME [GroupsNext \/ Restart]_gvars PROVE EditorInv'
  BY <1>1, EditorStep
<1>2. ASSUME UNCHANGED <<svars, sync>> PROVE StreamInv'
  BY <1>2 DEF svars, StreamInv, FilterIsRemembered, Stream!Subscriber
<1>3. CASE GroupsNext /\ UNCHANGED <<svars, sync>>
  BY <1>1, <1>2, <1>3
<1>4. CASE Stream!StreamNext /\ UNCHANGED <<gvars, sync>>
  BY <1>1, <1>4, StreamStep
<1>5. CASE SyncTargets \/ SyncNotify
  <2>1. UNCHANGED gvars /\ IsBook(book)
    BY <1>5 DEF SyncTargets, SyncNotify, EditorInv, GoodBook
  <2> QED BY <1>1, <1>5, <2>1, SyncStep
<1>6. CASE RestartAll
  <2>1. EditorInv'
    BY <1>1, <1>6 DEF RestartAll
  <2>2. StreamInv'
    BY <1>6, <2>1, TargetsAreWallets DEF RestartAll, EditorInv, GoodBook, StreamInv,
       FilterIsRemembered, Stream!Subscriber, Stream!Starting
  <2> QED BY <2>1, <2>2
<1>7. CASE UNCHANGED vars
  BY <1>1, <1>2, <1>7 DEF vars
<1> QED BY <1>3, <1>4, <1>5, <1>6, <1>7 DEF Next

\* MonitorInv is an invariant.
LEMMA MonitorAlways == Spec => []MonitorInv
  BY MonitorInit, MonitorStep, PTL DEF Spec

(***************************************************************************)
(* Theorems                                                                *)
(***************************************************************************)

\* The variables keep their types (GroupManager, run, GrpcSubscriber).
THEOREM TypeCorrect == Spec => []TypeOK
  BY MonitorAlways, InvIsType, PTL

\* The stream knows what it asked the server for (the resubscription in
\* subscribe).
THEOREM FilterKnown == Spec => []FilterIsRemembered
<1>1. MonitorInv => FilterIsRemembered
  BY DEF MonitorInv, StreamInv
<1> QED BY MonitorAlways, <1>1, PTL

\* The stream and the copying task leave the groups to their own steps: what
\* GroupsProofs proves of the groups holds here too.
LEMMA GroupsApart == Spec => GroupsSpec
<1>1. Init => GroupsInit
  BY DEF Init
<1>2. [Next]_vars => [GroupsNext \/ Restart]_gvars
  BY DEF Next, vars, SyncTargets, SyncNotify, RestartAll
<1> QED BY <1>1, <1>2, PTL DEF Spec, GroupsSpec

\* Nobody but the copying task changes the list, and it notifies the stream then;
\* nobody but the stream begins to wait, and it looks at the list first.
LEMMA WakeUpStep == MonitorInv /\ WakeUpDue /\ [Next]_vars => WakeUpDue'
<1> SUFFICES ASSUME MonitorInv, WakeUpDue, [Next]_vars PROVE WakeUpDue'
  OBVIOUS
<1>1. sub \in Stream!Subscriber
  BY InvIsType DEF TypeOK
<1>2. CASE UNCHANGED <<targets, sub, sync>>
  BY <1>2 DEF WakeUpDue
<1>3. CASE Stream!StreamNext /\ UNCHANGED <<gvars, sync>>
  <2> USE DEF Stream!SubGoto, Stream!Subscriber
  <2>1. CASE Stream!CheckTargets \/ Stream!Wait
    BY <1>1, <1>3, <2>1 DEF Stream!CheckTargets, Stream!Wait, WakeUpDue
  <2>2. CASE Stream!CopyTargets \/ Stream!Connected \/ Stream!StartOver
    BY <1>1, <2>2 DEF Stream!CopyTargets, Stream!Connected, Stream!StartOver, WakeUpDue
  <2>3. CASE Stream!NotConnected \/ Stream!StreamEnds
    BY <2>3 DEF Stream!NotConnected, Stream!StreamEnds, Stream!Ended, Stream!Starting, WakeUpDue
  <2>4. CASE Stream!Resubscribe \/ Stream!ConnectionBreaks
    BY <1>1, <2>4 DEF Stream!Resubscribe, Stream!ConnectionBreaks, WakeUpDue
  <2> QED BY <1>3, <2>1, <2>2, <2>3, <2>4 DEF Stream!StreamNext
<1>4. CASE SyncTargets
  BY <1>4 DEF SyncTargets, WakeUpDue
<1>5. CASE SyncNotify
  BY <1>1, <1>5 DEF SyncNotify, Stream!NotifyWaiters, Stream!Starting, Stream!Subscriber, WakeUpDue
<1>6. CASE RestartAll
  BY <1>6 DEF RestartAll, Stream!Starting, WakeUpDue
<1> QED BY <1>2, <1>3, <1>4, <1>5, <1>6 DEF Next, vars, svars

\* A stream without wallets, while there are some to follow, is about to be
\* notified, or has missed it: there is no third way to wait (notify_waiters,
\* update_target_wallets).
THEOREM WakeUpIsDue == Spec => []WakeUpDue
<1>1. Init => WakeUpDue
  BY DEF Init, Stream!Starting, WakeUpDue
<1> QED BY <1>1, WakeUpStep, MonitorAlways, PTL DEF Spec

=============================================================================
