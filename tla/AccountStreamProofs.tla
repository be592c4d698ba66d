------------------------ MODULE AccountStreamProofs ------------------------
(***************************************************************************)
(* Proofs about AccountStream, for any mints and any number of tasks that  *)
(* track, untrack and prune: types, that no balance is left behind, that   *)
(* no wake-up is lost, and when a count can stand for a set of accounts.   *)
(***************************************************************************)
EXTENDS AccountStream, FiniteSetTheorems, TLAPS

\* The maps can hold no more than two accounts for each mint.
LEMMA AccountsFinite ==
  ASSUME NEW S \in SUBSET Accounts
  PROVE  IsFiniteSet(S) /\ Cardinality(S) \in Nat
  <1>1. IsFiniteSet(Kinds)
    <2>1. IsFiniteSet({}) /\ Kinds = ({} \cup {"bc"}) \cup {"ata"}
      BY FS_EmptySet DEF Kinds
    <2> QED  BY <2>1, FS_AddElement
  <1>2. IsFiniteSet(Accounts)
    BY <1>1, MintsAssumption, FS_Product DEF Accounts
  <1> QED  BY <1>2, FS_Subset, FS_CardinalityType

\* The pair of a task at work is an account.
LEMMA PairsAreAccounts ==
  ASSUME TypeOK
  PROVE  /\ \A t \in Trackers : tracker[t].at # "idle" => Mine(t) \in Accounts
         /\ \A u \in Untrackers : untracker[u].at # "idle" => Its(u) \in Accounts
  BY DEF TypeOK, Task, Mine, Its, Accounts

\* A task may move on to any step of its own, with the mint it has.
LEMMA TaskMoves ==
  ASSUME NEW steps, NEW r \in Task(steps), NEW step \in steps, NEW kind \in Kinds
  PROVE  /\ [r EXCEPT !.at = step] \in Task(steps)
         /\ [r EXCEPT !.at = step, !.kind = kind] \in Task(steps)
         /\ [r EXCEPT !.at = step].mint = r.mint
         /\ [r EXCEPT !.at = step, !.kind = kind].mint = r.mint
  BY DEF Task

\* The tracking part of TypeOK.
TrackersOK ==
  /\ tracker \in [Trackers -> Task(TrackSteps)]
  /\ \A t \in Trackers : tracker[t].at # "idle" => tracker[t].mint \in Mints

\* The untracking part of TypeOK.
UntrackersOK ==
  /\ untracker \in [Untrackers -> Task(UntrackSteps)]
  /\ \A u \in Untrackers : untracker[u].at # "idle" <=> untracker[u].mint \in Mints

\* The maps.
MapsOK ==
  /\ known \subseteq Accounts /\ subscribed \subseteq Accounts
  /\ touched \subseteq Mints /\ stale \subseteq touched /\ balances \subseteq Mints

\* The stream.
StreamOK ==
  /\ permit \in BOOLEAN
  /\ stream \in Stream
  /\ stream.count = Cardinality(stream.filter) \/ stream.broken

\* TypeOK in parts.
LEMMA TypeParts == TypeOK <=> TrackersOK /\ UntrackersOK /\ MapsOK /\ StreamOK
  BY DEF TypeOK, TrackersOK, UntrackersOK, MapsOK, StreamOK

\* The same for the next state.
LEMMA TypePartsNext == TrackersOK' /\ UntrackersOK' /\ MapsOK' /\ StreamOK' => TypeOK'
  BY DEF TypeOK, TrackersOK, UntrackersOK, MapsOK, StreamOK

\* Parts that a step leaves alone.
LEMMA PartsSame ==
  /\ TrackersOK /\ UNCHANGED tracker => TrackersOK'
  /\ UntrackersOK /\ UNCHANGED untracker => UntrackersOK'
  /\ MapsOK /\ UNCHANGED <<known, subscribed, touched, stale, balances>> => MapsOK'
  /\ StreamOK /\ UNCHANGED <<permit, stream>> => StreamOK'
  BY DEF TrackersOK, UntrackersOK, MapsOK, StreamOK

\* A tracking task replaced by one that has its mint.
LEMMA TrackerUpdate ==
  ASSUME TrackersOK, NEW t \in Trackers, NEW r \in Task(TrackSteps),
         r.at # "idle" => r.mint \in Mints, tracker' = [tracker EXCEPT ![t] = r]
  PROVE  TrackersOK'
  BY DEF TrackersOK

\* An untracking task replaced by one that has its mint.
LEMMA UntrackerUpdate ==
  ASSUME UntrackersOK, NEW u \in Untrackers, NEW r \in Task(UntrackSteps),
         r.at # "idle" <=> r.mint \in Mints, untracker' = [untracker EXCEPT ![u] = r]
  PROVE  UntrackersOK'
  BY DEF UntrackersOK

\* The record of a task at rest.
LEMMA RestingTask ==
  /\ NoTask \in Task(TrackSteps) /\ NoTask \in Task(UntrackSteps)
  /\ NoTask.at = "idle" /\ NoTask.mint \notin Mints
  BY NoMintAssumption DEF NoTask, Task, TrackSteps, UntrackSteps, Kinds

\* Tracking keeps the types.
LEMMA TrackType ==
  ASSUME TypeOK, NEW t \in Trackers,
         TrackStep(t) \/ \E m \in Mints : StartTrack(t, m)
  PROVE  TypeOK'
  <1>1. TrackersOK /\ UntrackersOK /\ MapsOK /\ StreamOK
    BY TypeParts
  <1>2. tracker[t] \in Task(TrackSteps) /\ (tracker[t].at # "idle" => tracker[t].mint \in Mints)
    BY <1>1 DEF TrackersOK
  <1>3. CASE \E m \in Mints : StartTrack(t, m)
    <2>1. PICK m \in Mints : StartTrack(t, m)
      BY <1>3
    <2>2. [at |-> "map", kind |-> "bc", mint |-> m] \in Task(TrackSteps)
      BY DEF Task, TrackSteps, Kinds
    <2>3. TrackersOK'
      BY <1>1, <2>1, <2>2, TrackerUpdate DEF StartTrack
    <2> QED  BY <1>1, <2>1, <2>3, PartsSame, TypePartsNext DEF StartTrack
  <1>4. ASSUME NEW step \in TrackSteps, TrackGoto(t, step), tracker[t].at # "idle"
        PROVE  TrackersOK'
    BY <1>1, <1>2, <1>4, TaskMoves, TrackerUpdate DEF TrackGoto, Kinds
  <1>5. CASE TrackMap(t)
    <2>1. MapsOK'
      BY <1>1, <1>5, PairsAreAccounts DEF TrackMap, MapsOK
    <2> QED  BY <1>1, <1>4, <1>5, <2>1, PartsSame, TypePartsNext DEF TrackMap, TrackSteps
  <1>6. CASE TrackTouch(t)
    <2>1. MapsOK'
      BY <1>1, <1>2, <1>6 DEF TrackTouch, MapsOK
    <2> QED  BY <1>1, <1>4, <1>6, <2>1, PartsSame, TypePartsNext DEF TrackTouch, TrackSteps
  <1>7. CASE TrackSubscribe(t)
    <2>1. MapsOK'
      BY <1>1, <1>7, PairsAreAccounts DEF TrackSubscribe, MapsOK
    <2> QED  BY <1>1, <1>4, <1>7, <2>1, PartsSame, TypePartsNext DEF TrackSubscribe, TrackSteps
  <1>8. CASE TrackNotify(t)
    <2> DEFINE r == IF tracker[t].kind = "bc" THEN [tracker[t] EXCEPT !.at = "map", !.kind = "ata"]
                    ELSE NoTask
    <2>1. r \in Task(TrackSteps) /\ (r.at # "idle" => r.mint \in Mints)
      <3>1. [tracker[t] EXCEPT !.at = "map", !.kind = "ata"] \in Task(TrackSteps)
            /\ [tracker[t] EXCEPT !.at = "map", !.kind = "ata"].mint = tracker[t].mint
        BY <1>2 DEF Task, TrackSteps, Kinds
      <3>2. tracker[t].mint \in Mints
        BY <1>2, <1>8 DEF TrackNotify
      <3> QED  BY <3>1, <3>2, RestingTask
    <2>2. tracker' = [tracker EXCEPT ![t] = r]
      BY <1>8 DEF TrackNotify
    <2> HIDE DEF r
    <2>3. TrackersOK'
      BY <1>1, <2>1, <2>2, TrackerUpdate
    <2>4. StreamOK'
      BY <1>1, <1>8 DEF TrackNotify, Notify, StreamOK
    <2> QED  BY <1>1, <1>8, <2>3, <2>4, PartsSame, TypePartsNext DEF TrackNotify
  <1> QED  BY <1>3, <1>5, <1>6, <1>7, <1>8 DEF TrackStep

\* Untracking keeps the types.
LEMMA UntrackType ==
  ASSUME TypeOK, NEW u \in Untrackers,
         UntrackStep(u) \/ \E m \in Mints : CleanUp(u, m) \/ Prune(u, m)
  PROVE  TypeOK'
  <1>1. TrackersOK /\ UntrackersOK /\ MapsOK /\ StreamOK
    BY TypeParts
  <1>2. untracker[u] \in Task(UntrackSteps) /\ (untracker[u].at # "idle" <=> untracker[u].mint \in Mints)
    BY <1>1 DEF UntrackersOK
  <1>3. CASE \E m \in Mints : CleanUp(u, m) \/ Prune(u, m)
    <2>1. PICK m \in Mints : StartUntrack(u, m) /\ balances' \subseteq balances
      BY <1>3 DEF CleanUp, Prune
    <2>2. [at |-> "look", kind |-> "bc", mint |-> m] \in Task(UntrackSteps)
      BY DEF Task, UntrackSteps, Kinds
    <2>3. UntrackersOK'
      BY <1>1, <2>1, <2>2, UntrackerUpdate DEF StartUntrack
    <2>4. MapsOK'
      BY <1>1, <2>1 DEF StartUntrack, MapsOK
    <2> QED  BY <1>1, <2>1, <2>3, <2>4, PartsSame, TypePartsNext DEF StartUntrack
  <1>4. ASSUME NEW step \in UntrackSteps \ {"idle"}, UntrackGoto(u, step), untracker[u].at # "idle"
        PROVE  UntrackersOK'
    <2>1. /\ [untracker[u] EXCEPT !.at = step] \in Task(UntrackSteps)
          /\ [untracker[u] EXCEPT !.at = step].mint \in Mints
          /\ [untracker[u] EXCEPT !.at = step].at = step
      BY <1>2, <1>4 DEF Task
    <2> QED  BY <1>1, <1>4, <2>1, UntrackerUpdate DEF UntrackGoto
  <1>5. ASSUME NextKind(u), untracker[u].at # "idle"
        PROVE  UntrackersOK'
    <2> DEFINE r == IF untracker[u].kind = "bc"
                    THEN [untracker[u] EXCEPT !.at = "look", !.kind = "ata"]
                    ELSE [untracker[u] EXCEPT !.at = "drop"]
    <2>1. r \in Task(UntrackSteps) /\ r.mint \in Mints /\ r.at # "idle"
      BY <1>2, <1>5 DEF Task, UntrackSteps, Kinds
    <2>2. untracker' = [untracker EXCEPT ![u] = r]
      BY <1>5 DEF NextKind
    <2> HIDE DEF r
    <2> QED  BY <1>1, <2>1, <2>2, UntrackerUpdate
  <1>6. CASE UntrackLook(u)
    BY <1>1, <1>4, <1>5, <1>6, PartsSame, TypePartsNext DEF UntrackLook, UntrackSteps
  <1>7. CASE Unmap(u)
    <2>1. MapsOK'
      BY <1>1, <1>7 DEF Unmap, MapsOK
    <2> QED  BY <1>1, <1>4, <1>7, <2>1, PartsSame, TypePartsNext DEF Unmap, UntrackSteps
  <1>8. CASE Unsubscribe(u)
    <2>1. MapsOK'
      BY <1>1, <1>8 DEF Unsubscribe, MapsOK
    <2> QED  BY <1>1, <1>5, <1>8, <2>1, PartsSame, TypePartsNext DEF Unsubscribe
  <1>9. CASE DropBalance(u)
    <2>1. MapsOK'
      BY <1>1, <1>9 DEF DropBalance, MapsOK
    <2> QED  BY <1>1, <1>4, <1>9, <2>1, PartsSame, TypePartsNext DEF DropBalance, UntrackSteps
  <1>10. CASE Untouch(u)
    <2>1. MapsOK'
      BY <1>1, <1>10 DEF Untouch, MapsOK
    <2>2. UntrackersOK'
      BY <1>1, <1>10, RestingTask, UntrackerUpdate DEF Untouch
    <2> QED  BY <1>1, <1>10, <2>1, <2>2, PartsSame, TypePartsNext DEF Untouch
  <1> QED  BY <1>3, <1>6, <1>7, <1>8, <1>9, <1>10 DEF UntrackStep

\* The stream keeps the types: what it counts is what it requested.
LEMMA StreamType ==
  ASSUME TypeOK, StreamStep \/ Connected \/ Disconnected
  PROVE  TypeOK'
  <1>1. TrackersOK /\ UntrackersOK /\ MapsOK /\ StreamOK
    BY TypeParts
  <1>2. stream \in Stream /\ subscribed \subseteq Accounts /\ Cardinality(subscribed) \in Nat
    BY <1>1, AccountsFinite DEF StreamOK, MapsOK
  <1>3. StreamOK'
    <2>1. ASSUME NEW step \in {"check", "empty", "wait", "list", "connect", "live"},
                 StreamGoto(step), permit' \in BOOLEAN
          PROVE  StreamOK'
      BY <1>1, <1>2, <2>1 DEF StreamGoto, StreamOK, Stream
    <2>2. CASE Check \/ Wait \/ Wake \/ Connected
      BY <1>1, <2>1, <2>2 DEF Check, Wait, Wake, Connected, StreamOK
    <2>3. CASE List
      BY <1>1, <1>2, <2>3 DEF List, StreamOK, Stream
    <2>4. CASE Resubscribe
      BY <1>1, <1>2, <2>4 DEF Resubscribe, StreamOK, Stream
    <2>5. CASE Disconnected
      BY <1>1, <2>5, FS_EmptySet DEF Disconnected, NoStream, StreamOK, Stream
    <2> QED  BY <2>2, <2>3, <2>4, <2>5 DEF StreamStep
  <1>4. UNCHANGED <<known, subscribed, touched, stale, balances, tracker, untracker>>
    BY DEF StreamStep, Check, Wait, Wake, List, Resubscribe, Connected, Disconnected
  <1> QED  BY <1>1, <1>3, <1>4, PartsSame, TypePartsNext

\* An update of a balance and the passing of time keep the types.
LEMMA UpdateType ==
  ASSUME TypeOK, NEW m \in Mints, BalanceUpdate(m) \/ GrowStale(m)
  PROVE  TypeOK'
  <1>1. TrackersOK /\ UntrackersOK /\ MapsOK /\ StreamOK
    BY TypeParts
  <1>2. MapsOK'
    BY <1>1 DEF BalanceUpdate, GrowStale, MapsOK
  <1> QED
    BY <1>1, <1>2, PartsSame, TypePartsNext DEF BalanceUpdate, GrowStale

\* Whatever the tasks and the stream do, every variable keeps its type, and the
\* remembered number is that of the accounts in the last request that was sent.
THEOREM StreamTypes == Spec => []TypeOK
  <1>1. Init => TypeOK
    <2> SUFFICES ASSUME Init PROVE TypeOK
      OBVIOUS
    <2>1. TrackersOK /\ UntrackersOK
      BY RestingTask DEF Init, TrackersOK, UntrackersOK
    <2>2. MapsOK /\ StreamOK
      BY FS_EmptySet DEF Init, MapsOK, StreamOK, NoStream, Stream
    <2> QED  BY <2>1, <2>2, TypeParts
  <1>2. TypeOK /\ [Next]_vars => TypeOK'
    <2> SUFFICES ASSUME TypeOK, [Next]_vars PROVE TypeOK'
      OBVIOUS
    <2>1. CASE UNCHANGED vars
      BY <2>1, TypeParts, PartsSame, TypePartsNext DEF vars
    <2>2. CASE Next
      BY <2>2, TrackType, UntrackType, StreamType, UpdateType DEF Next, Untrackers
    <2> QED  BY <2>1, <2>2
  <1> QED  BY <1>1, <1>2, PTL DEF Spec

(***************************************************************************)
(* Balances.  A balance leaves with its account: the task that takes the   *)
(* account out of the map is the one that will drop the balance.           *)
(***************************************************************************)

\* A step that adds no balance and takes no token account out of the map keeps
\* every balance owned, if tasks about to drop one stay so.
LEMMA OwnersStay ==
  ASSUME BalanceOwned, balances' \subseteq balances,
         \A m \in balances' : <<"ata", m>> \in known => <<"ata", m>> \in known',
         \A m \in balances' : \A u \in Untrackers : ToDrop(u, m) => ToDrop(u, m)'
  PROVE  BalanceOwned'
  BY DEF BalanceOwned

\* BalanceOwned is inductive relative to TypeOK.
LEMMA OwnedStep == TypeOK /\ BalanceOwned /\ [Next]_vars => BalanceOwned'
  <1> SUFFICES ASSUME TypeOK, BalanceOwned, [Next]_vars PROVE BalanceOwned'
    OBVIOUS
  <1>1. CASE UNCHANGED <<untracker, balances>> /\ known \subseteq known'
    BY <1>1, OwnersStay DEF ToDrop
  <1>2. ASSUME NEW m \in Mints, BalanceUpdate(m)
        PROVE  BalanceOwned'
    BY <1>2 DEF BalanceUpdate, Followed, BalanceOwned, ToDrop
  <1>3. ASSUME NEW u \in Untrackers,
               UntrackStep(u) \/ \E m \in Mints : CleanUp(u, m) \/ Prune(u, m)
        PROVE  BalanceOwned'
    <2>1. untracker \in [Untrackers -> Task(UntrackSteps)]
      BY DEF TypeOK
    <2>2. ASSUME NEW r, untracker' = [untracker EXCEPT ![u] = r],
                 \A m \in balances' : ToDrop(u, m) => ToDrop(u, m)'
          PROVE  \A m \in balances' : \A v \in Untrackers : ToDrop(v, m) => ToDrop(v, m)'
      BY <2>1, <2>2 DEF ToDrop
    <2>3. CASE \E m \in Mints : CleanUp(u, m) \/ Prune(u, m)
      <3>1. PICK m \in Mints : StartUntrack(u, m) /\ balances' \subseteq balances
        BY <2>3 DEF CleanUp, Prune
      <3>2. \A n \in balances' : ~ToDrop(u, n)
        BY <3>1 DEF StartUntrack, ToDrop
      <3> QED  BY <2>2, <3>1, <3>2, OwnersStay DEF StartUntrack
    <2>4. CASE UntrackLook(u)
      <3>1. \A n \in balances' : ~ToDrop(u, n)
        BY <2>4 DEF UntrackLook, ToDrop
      <3> QED  BY <2>2, <2>4, <3>1, OwnersStay DEF UntrackLook, UntrackGoto, NextKind
    <2>5. CASE Unmap(u)
      <3>1. \A n \in balances' : ~ToDrop(u, n)
        BY <2>5 DEF Unmap, ToDrop
      <3>2. untracker' = [untracker EXCEPT ![u] = [untracker[u] EXCEPT !.at = "unsubscribe"]]
        BY <2>5 DEF Unmap, UntrackGoto
      <3>3. \A n \in balances' : \A v \in Untrackers : ToDrop(v, n) => ToDrop(v, n)'
        BY <2>2, <3>1, <3>2
      <3>4. ASSUME NEW n \in balances', <<"ata", n>> \in known, <<"ata", n>> \notin known'
            PROVE  ToDrop(u, n)'
        <4>1. untracker[u].kind = "ata" /\ untracker[u].mint = n
          BY <2>5, <3>4 DEF Unmap, Its
        <4> QED  BY <2>1, <3>2, <4>1 DEF ToDrop, Task
      <3> QED  BY <2>5, <3>3, <3>4 DEF Unmap, BalanceOwned
    <2>6. CASE Unsubscribe(u)
      <3> DEFINE r == IF untracker[u].kind = "bc"
                      THEN [untracker[u] EXCEPT !.at = "look", !.kind = "ata"]
                      ELSE [untracker[u] EXCEPT !.at = "drop"]
      <3>1. untracker' = [untracker EXCEPT ![u] = r]
        BY <2>6 DEF Unsubscribe, NextKind
      <3>2. \A n \in balances' : ToDrop(u, n) => ToDrop(u, n)'
        BY <2>1, <2>6, <3>1 DEF Unsubscribe, ToDrop, Task
      <3> HIDE DEF r
      <3>3. \A n \in balances' : \A v \in Untrackers : ToDrop(v, n) => ToDrop(v, n)'
        BY <2>2, <3>1, <3>2
      <3> QED  BY <2>6, <3>3, OwnersStay DEF Unsubscribe
    <2>7. CASE DropBalance(u)
      <3>1. \A n \in balances' : ~ToDrop(u, n)
        BY <2>7 DEF DropBalance, ToDrop
      <3> QED  BY <2>2, <2>7, <3>1, OwnersStay DEF DropBalance, UntrackGoto
    <2>8. CASE Untouch(u)
      <3>1. \A n \in balances' : ~ToDrop(u, n)
        BY <2>8 DEF Untouch, ToDrop
      <3> QED  BY <2>2, <2>8, <3>1, OwnersStay DEF Untouch
    <2> QED  BY <1>3, <2>3, <2>4, <2>5, <2>6, <2>7, <2>8 DEF UntrackStep
  <1>4. ASSUME NEW t \in Trackers, TrackStep(t) \/ \E m \in Mints : StartTrack(t, m)
        PROVE  BalanceOwned'
    BY <1>1, <1>4
       DEF TrackStep, StartTrack, TrackMap, TrackTouch, TrackSubscribe, TrackNotify
  <1>5. CASE StreamStep \/ Connected \/ Disconnected
    BY <1>1, <1>5 DEF StreamStep, Check, Wait, Wake, List, Resubscribe, Connected, Disconnected
  <1>6. ASSUME NEW m \in Mints, GrowStale(m)
        PROVE  BalanceOwned'
    BY <1>1, <1>6 DEF GrowStale
  <1>7. CASE UNCHANGED vars
    BY <1>1, <1>7 DEF vars
  <1> QED  BY <1>2, <1>3, <1>4, <1>5, <1>6, <1>7 DEF Next, Untrackers

\* No balance of an untracked mint outlives the untracking, whatever updates,
\* other untracking tasks and new trades of the mint come in between.
THEOREM BalancesLeave == Spec => []NoBalanceLeft
  <1>1. Init => BalanceOwned
    BY DEF Init, BalanceOwned
  <1>2. BalanceOwned => NoBalanceLeft
    BY DEF BalanceOwned, NoBalanceLeft, ToDrop, Untracked
  <1> QED  BY <1>1, <1>2, OwnedStep, StreamTypes, PTL DEF Spec

(***************************************************************************)
(* What liveness rests on.  notify_one leaves a permit, so no wake-up is   *)
(* lost between the look at the accounts and the wait; and as long as the  *)
(* accounts only grow, their number is as good as the set.                 *)
(***************************************************************************)

\* A request for the present accounts replaces the filter or is lost.
LEMMA ResubscribeEffect ==
  ASSUME stream \in Stream, Resubscribe
  PROVE  /\ stream.at = "live" /\ stream'.at = "live"
         /\ stream'.filter \in {stream.filter, subscribed}
         /\ UNCHANGED <<subscribed, tracker, permit>>
  <1>1. PICK sent \in {TRUE, FALSE} :
          stream' = [stream EXCEPT !.count = Cardinality(subscribed),
                                   !.filter = IF sent THEN subscribed ELSE @,
                                   !.broken = ~sent]
    BY DEF Resubscribe
  <1>2. stream'.at = stream.at /\ stream'.filter = IF sent THEN subscribed ELSE stream.filter
    BY <1>1 DEF Stream
  <1> QED  BY <1>2 DEF Resubscribe

\* WakeUpKept is inductive relative to TypeOK: whoever adds the first account is
\* then about to notify, and only a stream that looks again takes the permit.
LEMMA WakeUpStep == TypeOK /\ WakeUpKept /\ [Next]_vars => WakeUpKept'
  <1> SUFFICES ASSUME TypeOK, WakeUpKept, [Next]_vars PROVE WakeUpKept'
    OBVIOUS
  <1>1. tracker \in [Trackers -> Task(TrackSteps)]
    BY DEF TypeOK
  <1>2. CASE UNCHANGED <<tracker, permit, stream>> /\ subscribed' \subseteq subscribed
    BY <1>2 DEF WakeUpKept
  <1>3. ASSUME NEW t \in Trackers, TrackStep(t) \/ \E m \in Mints : StartTrack(t, m)
        PROVE  WakeUpKept'
    <2>1. CASE TrackSubscribe(t)
      <3>1. tracker'[t].at = "notify"
        BY <1>1, <2>1 DEF TrackSubscribe, TrackGoto, Task
      <3> QED  BY <3>1 DEF WakeUpKept
    <2>2. CASE TrackNotify(t)
      BY <2>2 DEF TrackNotify, Notify, WakeUpKept
    <2>3. CASE TrackMap(t) \/ TrackTouch(t) \/ \E m \in Mints : StartTrack(t, m)
      <3>1. tracker[t].at # "notify" /\ \A u \in Trackers : u # t => tracker'[u] = tracker[u]
        BY <1>1, <2>3 DEF TrackMap, TrackTouch, StartTrack, TrackGoto
      <3>2. UNCHANGED <<subscribed, permit, stream>>
        BY <2>3 DEF TrackMap, TrackTouch, StartTrack
      <3> QED  BY <3>1, <3>2 DEF WakeUpKept
    <2> QED  BY <1>3, <2>1, <2>2, <2>3 DEF TrackStep
  <1>4. ASSUME NEW u \in Untrackers,
               UntrackStep(u) \/ \E m \in Mints : CleanUp(u, m) \/ Prune(u, m)
        PROVE  WakeUpKept'
    BY <1>2, <1>4 DEF UntrackStep, UntrackLook, Unmap, Unsubscribe, DropBalance, Untouch,
                      CleanUp, Prune, StartUntrack
  <1>5. CASE StreamStep \/ Connected \/ Disconnected
    <2>1. stream \in Stream
      BY DEF TypeOK
    <2>2. CASE Check \/ Wait \/ Wake
      BY <2>1, <2>2 DEF Check, Wait, Wake, StreamGoto, WakeUpKept, Stream
    <2>3. CASE List \/ Connected \/ Disconnected
      BY <2>1, <2>3 DEF List, Connected, Disconnected, StreamGoto, WakeUpKept, NoStream, Stream
    <2>4. CASE Resubscribe
      BY <2>1, <2>4, ResubscribeEffect DEF WakeUpKept
    <2> QED  BY <1>5, <2>2, <2>3, <2>4 DEF StreamStep
  <1>6. ASSUME NEW m \in Mints, BalanceUpdate(m) \/ GrowStale(m) PROVE WakeUpKept'
    BY <1>2, <1>6 DEF BalanceUpdate, GrowStale
  <1>7. CASE UNCHANGED vars
    BY <1>2, <1>7 DEF vars
  <1> QED  BY <1>3, <1>4, <1>5, <1>6, <1>7 DEF Next, Untrackers

\* A stream that waits, or is about to, while there are accounts to follow has
\* been notified or has a tracking task that will notify it.
THEOREM NoWakeUpLost == Spec => []WakeUpKept
  <1>1. Init => WakeUpKept
    BY DEF Init, WakeUpKept, NoStream
  <1> QED  BY <1>1, WakeUpStep, StreamTypes, PTL DEF Spec

\* The accounts requested are among those to follow.
FilterBehind == stream.at \in {"connect", "live"} => stream.filter \subseteq subscribed

\* While nothing is untracked the accounts to follow only grow.
LEMMA GrowthStep == TypeOK /\ FilterBehind /\ NothingUntracked /\ [Next]_vars => FilterBehind'
  <1> SUFFICES ASSUME TypeOK, FilterBehind, NothingUntracked, [Next]_vars PROVE FilterBehind'
    OBVIOUS
  <1> USE DEF FilterBehind
  <1>1. CASE UNCHANGED stream /\ subscribed \subseteq subscribed'
    BY <1>1
  <1>2. ASSUME NEW t \in Trackers, TrackStep(t) \/ \E m \in Mints : StartTrack(t, m)
        PROVE  FilterBehind'
    BY <1>1, <1>2 DEF TrackStep, StartTrack, TrackMap, TrackTouch, TrackSubscribe, TrackNotify
  <1>3. ASSUME NEW u \in Untrackers,
               UntrackStep(u) \/ \E m \in Mints : CleanUp(u, m) \/ Prune(u, m)
        PROVE  FilterBehind'
    <2>1. ~UntrackStep(u)
      BY DEF NothingUntracked, UntrackStep, UntrackLook, Unmap, Unsubscribe, DropBalance, Untouch
    <2> QED  BY <1>1, <1>3, <2>1 DEF CleanUp, Prune, StartUntrack
  <1>4. CASE StreamStep \/ Connected \/ Disconnected
    <2>1. stream \in Stream
      BY DEF TypeOK
    <2>2. CASE Check \/ Wait \/ Wake \/ Connected
      BY <2>1, <2>2 DEF Check, Wait, Wake, Connected, StreamGoto, Stream
    <2>3. CASE List \/ Disconnected
      BY <2>3 DEF List, Disconnected, NoStream
    <2>4. CASE Resubscribe
      BY <2>1, <2>4, ResubscribeEffect
    <2> QED  BY <1>4, <2>2, <2>3, <2>4 DEF StreamStep
  <1>5. ASSUME NEW m \in Mints, BalanceUpdate(m) \/ GrowStale(m) PROVE FilterBehind'
    BY <1>1, <1>5 DEF BalanceUpdate, GrowStale
  <1>6. CASE UNCHANGED vars
    BY <1>1, <1>6 DEF vars
  <1> QED  BY <1>2, <1>3, <1>4, <1>5, <1>6 DEF Next, Untrackers

\* As long as no mint was untracked, equal numbers mean equal sets: the stream
\* asks for new accounts whenever there are some.  With untracking this fails,
\* as the run account_stream_count shows.
THEOREM CountSuffices == Spec /\ []NothingUntracked => []CountTells
  <1>1. Init => FilterBehind
    BY DEF Init, FilterBehind, NoStream
  <1>2. TypeOK /\ FilterBehind => CountTells
    <2> SUFFICES ASSUME TypeOK, FilterBehind, stream.at = "live", ~stream.broken,
                        stream.count = Cardinality(subscribed)
                 PROVE  stream.filter = subscribed
      BY DEF CountTells
    <2>1. stream.filter \subseteq subscribed /\ Cardinality(stream.filter) = Cardinality(subscribed)
      BY DEF FilterBehind, TypeOK
    <2>2. IsFiniteSet(subscribed)
      BY AccountsFinite DEF TypeOK
    <2> QED  BY <2>1, <2>2, FS_Subset
  <1> QED  BY <1>1, <1>2, GrowthStep, StreamTypes, PTL DEF Spec

=============================================================================
