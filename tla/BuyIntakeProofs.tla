-------------------------- MODULE BuyIntakeProofs --------------------------
(***************************************************************************)
(* Proofs about BuyIntake, for any tasks, keys and pools of permits.       *)
(***************************************************************************)
EXTENDS BuyIntake, TLAPS

\* A claim and a task have their types; a buy is at work on a key.
LEMMA IntakeTypes ==
  ASSUME IntakeInv
  PROVE  /\ task \in [Tasks -> Task] /\ claims \in [Keys -> Claim]
         /\ recent \subseteq Keys /\ orphans \subseteq Keys
         /\ \A t \in Tasks : task[t].st # "none" => task[t].key \in Keys /\ task[t].pool \in Pools
         /\ \A k \in Keys : claims[k].inFlight \/ claims[k].cooling => claims[k].here
  BY DEF IntakeInv, TypeOK

\* A step of one task that neither starts nor ends a buy leaves every key's
\* workers as they are.
LEMMA SameWorkers ==
  ASSUME IntakeInv, NEW t \in Tasks, NEW r \in Task,
         task' = [task EXCEPT ![t] = r],
         task[t].st \in Working <=> r.st \in Working,
         task[t].st \in Working => r.key = task[t].key
  PROVE  \A u \in Tasks, k \in Keys : Works(u, k)' <=> Works(u, k)
  BY IntakeTypes DEF Works

\* The invariant is kept by a step that leaves the workers, the flags of the
\* claims, the recent and the orphaned keys as they are.
LEMMA QuietIntake ==
  ASSUME IntakeInv, \A u \in Tasks, k \in Keys : Works(u, k)' <=> Works(u, k),
         task' \in [Tasks -> Task],
         \A t \in Tasks : task'[t].st # "none" => task'[t].key \in Keys /\ task'[t].pool \in Pools,
         claims' \in [Keys -> Claim],
         \A k \in Keys : /\ claims'[k].inFlight = claims[k].inFlight
                         /\ claims'[k].cooling = claims[k].cooling
                         /\ claims'[k].here = claims[k].here,
         UNCHANGED <<recent, orphans>>
  PROVE  IntakeInv'
  <1>1. TypeOK'
    BY IntakeTypes DEF TypeOK
  <1>2. OneBuyAtATime'
    BY DEF IntakeInv, OneBuyAtATime
  <1>3. ClaimHasOwner'
    BY DEF IntakeInv, ClaimHasOwner
  <1>4. WorkIsClaimed' /\ RecentIsCooling' /\ FlightIsNotCooling'
    BY IntakeTypes DEF IntakeInv, WorkIsClaimed, RecentIsCooling, FlightIsNotCooling
  <1> QED  BY <1>1, <1>2, <1>3, <1>4 DEF IntakeInv

\* A task that is not there is a task, and works on nothing.
LEMMA NoTaskType == NoTask \in Task /\ NoTask.st = "none" /\ NoTask.st \notin Working
  BY DEF NoTask, Task, TaskStates, Working

\* Waiting for a permit: no claim is touched.
LEMMA QueueSteps ==
  ASSUME IntakeInv, NEW t \in Tasks,
         \/ \E k \in Keys, pool \in Pools : Spawn(t, k, pool)
         \/ QueueTimeout(t) \/ GetPermit(t) \/ BuyReturns(t)
  PROVE  IntakeInv'
  <1>1. PICK r \in Task : /\ task' = [task EXCEPT ![t] = r]
                          /\ task[t].st \in Working <=> r.st \in Working
                          /\ task[t].st \in Working => r.key = task[t].key
                          /\ r.st # "none" => r.key \in Keys /\ r.pool \in Pools
    <2>1. CASE \E k \in Keys, pool \in Pools : Spawn(t, k, pool)
      <3>2. PICK k \in Keys, pool \in Pools : Spawn(t, k, pool)
        BY <2>1
      <3> DEFINE r == [st |-> "queued", key |-> k, pool |-> pool]
      <3>1. r \in Task
        BY DEF Task, TaskStates
      <3> QED  BY <3>1, <3>2 DEF Spawn, Working
    <2>2. CASE QueueTimeout(t)
      BY <2>2, NoTaskType DEF QueueTimeout, End, Working
    <2>3. CASE GetPermit(t) \/ BuyReturns(t)
      <3>1. PICK st \in TaskStates : /\ task' = [task EXCEPT ![t] = [task[t] EXCEPT !.st = st]]
                                     /\ task[t].st \in Working <=> st \in Working
                                     /\ task[t].st # "none"
        BY <2>3 DEF GetPermit, BuyReturns, Goto, TaskStates, Working
      <3> DEFINE r == [task[t] EXCEPT !.st = st]
      <3>2. r \in Task /\ r.key = task[t].key /\ r.pool = task[t].pool /\ r.st = st
        BY IntakeTypes DEF Task
      <3> QED  BY <3>1, <3>2, IntakeTypes
    <2> QED  BY <2>1, <2>2, <2>3
  <1>2. UNCHANGED <<claims, recent, orphans>>
    BY DEF Spawn, QueueTimeout, GetPermit, BuyReturns
  <1>3. \A u \in Tasks, k \in Keys : Works(u, k)' <=> Works(u, k)
    BY <1>1, SameWorkers
  <1>4. task' \in [Tasks -> Task]
        /\ \A u \in Tasks : task'[u].st # "none" => task'[u].key \in Keys /\ task'[u].pool \in Pools
    BY <1>1, IntakeTypes
  <1> QED  BY <1>2, <1>3, <1>4, IntakeTypes, QuietIntake

\* try_start_group_mint
LEMMA StartSteps ==
  ASSUME IntakeInv, NEW t \in Tasks, TryStart(t)
  PROVE  IntakeInv'
  <1> DEFINE k == task[t].key
  <1>1. /\ k \in Keys /\ task[t].st = "ready" /\ \A h \in Keys : ~Works(t, h)
        /\ UNCHANGED <<recent, orphans>>
    BY IntakeTypes DEF TryStart, Works, Working
  <1>2. CASE ~MayStart(claims[k])
    <2>1. /\ claims' = [claims EXCEPT ![k].idle = FALSE]
          /\ task' = [task EXCEPT ![t] = NoTask]
      BY <1>2 DEF TryStart, End
    <2>2. \A u \in Tasks, h \in Keys : Works(u, h)' <=> Works(u, h)
      BY <1>1, <2>1, NoTaskType, SameWorkers DEF Working
    <2>3. task' \in [Tasks -> Task]
          /\ \A u \in Tasks : task'[u].st # "none" => task'[u].key \in Keys /\ task'[u].pool \in Pools
      BY <2>1, NoTaskType, IntakeTypes
    <2>4. claims' \in [Keys -> Claim]
          /\ \A h \in Keys : /\ claims'[h].inFlight = claims[h].inFlight
                             /\ claims'[h].cooling = claims[h].cooling
                             /\ claims'[h].here = claims[h].here
      BY <1>1, <2>1, IntakeTypes DEF Claim
    <2> QED  BY <1>1, <2>2, <2>3, <2>4, QuietIntake
  <1>3. CASE MayStart(claims[k])
    <2> DEFINE c == [here |-> TRUE, inFlight |-> TRUE, cooling |-> FALSE, idle |-> FALSE]
               r == [task[t] EXCEPT !.st = "buying"]
    <2>1. claims' = [claims EXCEPT ![k] = c] /\ task' = [task EXCEPT ![t] = r]
      BY <1>3 DEF TryStart, Goto
    <2>2. c \in Claim /\ r \in Task /\ r.st = "buying" /\ r.key = k /\ r.pool = task[t].pool
      BY IntakeTypes DEF Claim, Task, TaskStates
    <2>3. c.here /\ c.inFlight /\ ~c.cooling
      OBVIOUS
    <2>4. task[t].pool \in Pools
      BY <1>1, IntakeTypes
    <2> HIDE DEF c, r
    <2>5. /\ \A u \in Tasks \ {t}, h \in Keys : Works(u, h)' <=> Works(u, h)
          /\ \A h \in Keys : Works(t, h)' <=> h = k
      BY <1>1, <2>1, <2>2, IntakeTypes DEF Works, Working
    <2>6. ~claims[k].inFlight /\ ~claims[k].cooling
      BY <1>3 DEF MayStart
    <2>7. \A h \in Keys : claims'[h] = IF h = k THEN c ELSE claims[h]
      BY <2>1, IntakeTypes
    <2>8. TypeOK'
      BY <1>1, <2>1, <2>2, <2>3, <2>4, IntakeTypes DEF TypeOK
    <2>9. OneBuyAtATime'
      <3> SUFFICES ASSUME NEW h \in Keys, h \notin orphans, NEW u \in Tasks, NEW v \in Tasks,
                          Works(u, h)', Works(v, h)'
                   PROVE  u = v
        BY <1>1 DEF OneBuyAtATime
      <3>1. CASE h = k
        <4>1. \A w \in Tasks : ~Works(w, k)
          BY <1>1, <2>6, <3>1 DEF IntakeInv, WorkIsClaimed
        <4> QED  BY <2>5, <3>1, <4>1
      <3>2. CASE h # k
        BY <2>5, <3>2 DEF IntakeInv, OneBuyAtATime
      <3> QED  BY <3>1, <3>2
    <2>10. ClaimHasOwner'
      <3> SUFFICES ASSUME NEW h \in Keys, claims'[h].inFlight
                   PROVE  \E u \in Tasks : Works(u, h)'
        BY DEF ClaimHasOwner
      <3>1. CASE h = k
        BY <2>5, <3>1
      <3>2. CASE h # k
        <4>1. PICK u \in Tasks : Works(u, h)
          BY <2>7, <3>2 DEF IntakeInv, ClaimHasOwner
        <4> QED  BY <1>1, <2>5, <4>1
      <3> QED  BY <3>1, <3>2
    <2>11. WorkIsClaimed'
      BY <1>1, <2>3, <2>5, <2>7 DEF IntakeInv, WorkIsClaimed
    <2>12. RecentIsCooling'
      BY <1>1, <2>6, <2>7, IntakeTypes DEF IntakeInv, RecentIsCooling
    <2>13. FlightIsNotCooling'
      BY <2>3, <2>7 DEF IntakeInv, FlightIsNotCooling
    <2> QED  BY <2>8, <2>9, <2>10, <2>11, <2>12, <2>13 DEF IntakeInv
  <1> QED  BY <1>2, <1>3

\* finish_group_mint
LEMMA FinishSteps ==
  ASSUME IntakeInv, NEW t \in Tasks, Finish(t)
  PROVE  IntakeInv'
  <1> DEFINE k == task[t].key
             c == Finished(claims[k], task[t].st = "sent")
  <1>1. /\ task[t].st \in {"sent", "unsent"} /\ k \in Keys /\ Works(t, k)
        /\ claims' = [claims EXCEPT ![k] = c]
        /\ task' = [task EXCEPT ![t] = NoTask]
    BY IntakeTypes DEF Finish, End, Works, Working
  <1>2. /\ recent' = IF task[t].st = "sent" THEN recent \cup {k} ELSE recent
        /\ orphans' = IF k \in recent' \/ \E u \in Tasks \ {t} : Works(u, k)
                      THEN orphans ELSE orphans \ {k}
    BY DEF Finish
  <1>3. /\ c \in Claim /\ ~c.inFlight /\ (c.cooling => c.here)
        /\ task[t].st = "sent" /\ claims[k].here => c.cooling
    BY <1>1, IntakeTypes DEF Finished, Claim, NoClaim
  <1> HIDE DEF c
  <1>4. \A h \in Keys : claims'[h] = IF h = k THEN c ELSE claims[h]
    BY <1>1, IntakeTypes
  <1>5. /\ \A u \in Tasks \ {t}, h \in Keys : Works(u, h)' <=> Works(u, h)
        /\ \A h \in Keys : ~Works(t, h)'
    BY <1>1, NoTaskType, IntakeTypes DEF Works
  <1>6. TypeOK'
    BY <1>1, <1>2, <1>3, <1>4, NoTaskType, IntakeTypes DEF TypeOK
  <1>7. k \in orphans' <=> k \in orphans /\ (k \in recent' \/ \E u \in Tasks \ {t} : Works(u, k))
    BY <1>2
  <1>8. \A h \in Keys : h # k => (h \in orphans' <=> h \in orphans) /\ (h \in recent' <=> h \in recent)
    BY <1>2
  <1>9. \A h \in Keys : h = k /\ h \notin orphans' => \A u \in Tasks : ~Works(u, h)'
    <2>1. k \notin orphans' => \A u \in Tasks \ {t} : ~Works(u, k)
      BY <1>1, <1>7 DEF IntakeInv, OneBuyAtATime
    <2> QED  BY <1>5, <2>1
  <1>10. OneBuyAtATime'
    <2> SUFFICES ASSUME NEW h \in Keys, h \notin orphans', NEW u \in Tasks, NEW v \in Tasks,
                        Works(u, h)', Works(v, h)'
                 PROVE  u = v
      BY DEF OneBuyAtATime
    <2>1. h # k
      BY <1>9
    <2>2. h \notin orphans /\ Works(u, h) /\ Works(v, h)
      BY <1>5, <1>8, <2>1
    <2> QED  BY <2>2 DEF IntakeInv, OneBuyAtATime
  <1>11. ClaimHasOwner'
    <2> SUFFICES ASSUME NEW h \in Keys, claims'[h].inFlight
                 PROVE  \E u \in Tasks : Works(u, h)'
      BY DEF ClaimHasOwner
    <2>1. h # k /\ claims[h].inFlight
      BY <1>3, <1>4
    <2>2. PICK u \in Tasks : Works(u, h)
      BY <2>1 DEF IntakeInv, ClaimHasOwner
    <2>3. u # t
      BY <1>1, <2>1, <2>2 DEF Works
    <2> QED  BY <1>5, <2>2, <2>3
  <1>12. WorkIsClaimed'
    <2> SUFFICES ASSUME NEW h \in Keys, h \notin orphans', NEW u \in Tasks, Works(u, h)'
                 PROVE  claims'[h].inFlight
      BY DEF WorkIsClaimed
    <2>1. h # k
      BY <1>9
    <2>2. h \notin orphans /\ Works(u, h)
      BY <1>5, <1>8, <2>1
    <2> QED  BY <1>4, <2>1, <2>2 DEF IntakeInv, WorkIsClaimed
  <1>13. RecentIsCooling'
    <2> SUFFICES ASSUME NEW h \in recent', h \notin orphans'
                 PROVE  claims'[h].cooling
      BY DEF RecentIsCooling
    <2>1. CASE h = k
      <3>1. k \notin orphans
        BY <1>7, <2>1
      <3>2. claims[k].inFlight /\ claims[k].here /\ ~claims[k].cooling
        BY <1>1, <3>1, IntakeTypes DEF IntakeInv, WorkIsClaimed, FlightIsNotCooling
      <3>3. k \notin recent
        BY <3>1, <3>2 DEF IntakeInv, RecentIsCooling
      <3> QED  BY <1>2, <1>3, <1>4, <1>1, <2>1, <3>2, <3>3
    <2>2. CASE h # k
      <3>1. h \in Keys /\ h \in recent /\ h \notin orphans
        BY <1>2, <1>8, <2>2, IntakeTypes
      <3> QED  BY <1>4, <2>2, <3>1 DEF IntakeInv, RecentIsCooling
    <2> QED  BY <2>1, <2>2
  <1>14. FlightIsNotCooling'
    BY <1>3, <1>4 DEF IntakeInv, FlightIsNotCooling
  <1> QED  BY <1>6, <1>10, <1>11, <1>12, <1>13, <1>14 DEF IntakeInv

\* Time passes, and the sweeper comes round.
LEMMA SweepSteps ==
  ASSUME IntakeInv, NEW k \in Keys, CooldownOver(k) \/ GoIdle(k) \/ Sweep(k)
  PROVE  IntakeInv'
  <1>1. task' = task /\ \A u \in Tasks, h \in Keys : Works(u, h)' <=> Works(u, h)
    BY DEF CooldownOver, GoIdle, Sweep, Works
  <1>2. CASE GoIdle(k)
    <2>1. claims' = [claims EXCEPT ![k].idle = TRUE] /\ UNCHANGED <<recent, orphans>>
      BY <1>2 DEF GoIdle
    <2>2. claims' \in [Keys -> Claim]
          /\ \A h \in Keys : /\ claims'[h].inFlight = claims[h].inFlight
                             /\ claims'[h].cooling = claims[h].cooling
                             /\ claims'[h].here = claims[h].here
      BY <2>1, IntakeTypes DEF Claim
    <2> QED  BY <1>1, <2>1, <2>2, IntakeTypes, QuietIntake
  <1>3. CASE CooldownOver(k)
    <2>1. /\ recent' = recent \ {k} /\ claims' = [claims EXCEPT ![k].cooling = FALSE]
          /\ orphans' = IF \E t \in Tasks : Works(t, k) THEN orphans ELSE orphans \ {k}
      BY <1>3 DEF CooldownOver
    <2>2. claims' \in [Keys -> Claim]
          /\ \A h \in Keys : /\ claims'[h].inFlight = claims[h].inFlight
                             /\ claims'[h].here = claims[h].here
                             /\ claims'[h].cooling => claims[h].cooling
                             /\ h # k => claims'[h].cooling = claims[h].cooling
      BY <2>1, IntakeTypes DEF Claim
    <2>3. \A h \in Keys, t \in Tasks : h \notin orphans' /\ Works(t, h) => h \notin orphans
      BY <2>1
    <2>4. TypeOK'
      BY <1>1, <2>1, <2>2, IntakeTypes DEF TypeOK
    <2>5. OneBuyAtATime' /\ WorkIsClaimed'
      BY <1>1, <2>2, <2>3 DEF IntakeInv, OneBuyAtATime, WorkIsClaimed
    <2>6. ClaimHasOwner'
      BY <1>1, <2>2 DEF IntakeInv, ClaimHasOwner
    <2>7. RecentIsCooling'
      BY <2>1, <2>2, IntakeTypes DEF IntakeInv, RecentIsCooling
    <2>8. FlightIsNotCooling'
      BY <2>2 DEF IntakeInv, FlightIsNotCooling
    <2> QED  BY <2>4, <2>5, <2>6, <2>7, <2>8 DEF IntakeInv
  <1>4. CASE Sweep(k)
    <2>1. /\ ~Keep(claims[k]) /\ claims' = [claims EXCEPT ![k] = NoClaim] /\ recent' = recent
          /\ orphans' = IF claims[k].inFlight /\ claims[k].idle THEN orphans \cup {k} ELSE orphans
      BY <1>4 DEF Sweep
    <2>2. NoClaim \in Claim /\ ~NoClaim.inFlight /\ ~NoClaim.cooling
      BY DEF NoClaim, Claim
    <2>3. \A h \in Keys : claims'[h] = IF h = k THEN NoClaim ELSE claims[h]
      BY <2>1, IntakeTypes
    <2>4. k \notin orphans' => ~claims[k].inFlight /\ ~claims[k].cooling
      BY <2>1 DEF Keep
    <2>5. orphans \subseteq orphans' /\ orphans' \subseteq Keys
      BY <2>1, IntakeTypes
    <2>6. TypeOK'
      BY <1>1, <2>1, <2>2, <2>3, <2>5, IntakeTypes DEF TypeOK
    <2>7. OneBuyAtATime'
      BY <1>1, <2>5 DEF IntakeInv, OneBuyAtATime
    <2>8. WorkIsClaimed'
      BY <1>1, <2>3, <2>4, <2>5 DEF IntakeInv, WorkIsClaimed
    <2>9. ClaimHasOwner' /\ FlightIsNotCooling'
      BY <1>1, <2>2, <2>3 DEF IntakeInv, ClaimHasOwner, FlightIsNotCooling
    <2>10. RecentIsCooling'
      BY <2>1, <2>3, <2>4, <2>5, IntakeTypes DEF IntakeInv, RecentIsCooling
    <2> QED  BY <2>6, <2>7, <2>8, <2>9, <2>10 DEF IntakeInv
  <1> QED  BY <1>2, <1>3, <1>4

\* IntakeInv holds before the first buy.
LEMMA InitIntake == Init => IntakeInv
  <1> SUFFICES ASSUME Init PROVE IntakeInv
    OBVIOUS
  <1>1. /\ task = [t \in Tasks |-> NoTask] /\ claims = [k \in Keys |-> NoClaim]
        /\ recent = {} /\ orphans = {}
    BY DEF Init
  <1>2. NoClaim \in Claim /\ ~NoClaim.inFlight /\ ~NoClaim.cooling
    BY DEF NoClaim, Claim
  <1>3. \A t \in Tasks, k \in Keys : ~Works(t, k)
    BY <1>1, NoTaskType DEF Works
  <1>4. TypeOK
    BY <1>1, <1>2, NoTaskType DEF TypeOK
  <1> QED
    BY <1>1, <1>2, <1>3, <1>4
    DEF IntakeInv, OneBuyAtATime, ClaimHasOwner, WorkIsClaimed, RecentIsCooling, FlightIsNotCooling

\* IntakeInv is inductive.
LEMMA IntakeStep == IntakeInv /\ [Next]_vars => IntakeInv'
  <1> SUFFICES ASSUME IntakeInv, [Next]_vars PROVE IntakeInv'
    OBVIOUS
  <1>1. CASE UNCHANGED vars
    <2>1. \A u \in Tasks, k \in Keys : Works(u, k)' <=> Works(u, k)
      BY <1>1 DEF vars, Works
    <2> QED  BY <1>1, <2>1, IntakeTypes, QuietIntake DEF vars
  <1>2. CASE \E t \in Tasks : TaskStep(t) \/ \E k \in Keys, pool \in Pools : Spawn(t, k, pool)
    BY <1>2, QueueSteps, StartSteps, FinishSteps DEF TaskStep
  <1>3. CASE \E k \in Keys : CooldownOver(k) \/ GoIdle(k) \/ Sweep(k)
    BY <1>3, SweepSteps
  <1> QED  BY <1>1, <1>2, <1>3 DEF Next

\* IntakeInv holds in every behaviour.
LEMMA IntakeCorrect == Spec => []IntakeInv
  BY InitIntake, IntakeStep, PTL DEF Spec

\* The variables of the intake have their types.
THEOREM IntakeTypeCorrect == Spec => []TypeOK
  <1>1. IntakeInv => TypeOK
    BY DEF IntakeInv
  <1> QED  BY <1>1, IntakeCorrect, PTL

\* Claims exclude: two tasks buy the same mint for the same group at one time
\* only after the sweeper has taken a running buy for a stale one.
THEOREM ExclusiveBuy == Spec => []OneBuyAtATime
  <1>1. IntakeInv => OneBuyAtATime
    BY DEF IntakeInv
  <1> QED  BY <1>1, IntakeCorrect, PTL

\* A claim in flight always belongs to a running task, sweeper or not.
THEOREM ClaimsAreOwned == Spec => []ClaimHasOwner
  <1>1. IntakeInv => ClaimHasOwner
    BY DEF IntakeInv
  <1> QED  BY <1>1, IntakeCorrect, PTL

\* The cooldown after a sent buy is kept, with the same exception.
THEOREM CooldownIsKept == Spec => CooldownKept
  <1>1. ASSUME IntakeInv, [Next]_vars
        PROVE  [\A t \in Tasks : task[t].st = "ready" /\ task'[t].st = "buying" =>
                  task[t].key \notin recent \ orphans]_vars
    <2> SUFFICES ASSUME NEW t \in Tasks, task[t].st = "ready", task'[t].st = "buying",
                        task[t].key \in recent \ orphans
                 PROVE  FALSE
      OBVIOUS
    <2>1. claims[task[t].key].cooling
      BY <1>1 DEF IntakeInv, RecentIsCooling
    <2>2. task \in [Tasks -> Task]
      BY <1>1, IntakeTypes
    <2>3. task' # task
      OBVIOUS
    <2>4. PICK u \in Tasks : TaskStep(u) \/ \E k \in Keys, pool \in Pools : Spawn(u, k, pool)
      BY <1>1, <2>3 DEF Next, vars, CooldownOver, GoIdle, Sweep
    <2>5. u = t
      BY <2>2, <2>4 DEF TaskStep, QueueTimeout, GetPermit, TryStart, BuyReturns, Finish, Spawn,
                        Goto, End
    <2>6. TryStart(t) /\ MayStart(claims[task[t].key])
      BY <2>2, <2>4, <2>5, NoTaskType
      DEF TaskStep, QueueTimeout, GetPermit, TryStart, BuyReturns, Finish, Spawn, End
    <2> QED  BY <2>1, <2>6 DEF MayStart
  <1> QED  BY <1>1, IntakeCorrect, PTL DEF Spec, CooldownKept

(***************************************************************************)
(* The intake implements Buys                                              *)
(***************************************************************************)

Pairs == {b \in Tasks \X Keys : Works(b[1], b[2])}

LEMMA PairsAre == \A t \in Tasks, k \in Keys : <<t, k>> \in Pairs <=> Works(t, k)
  BY DEF Pairs

\* Who is busy in Buys works on the key here, before and after a step.
LEMMA BusyIs ==
  /\ \A k \in Keys : Promise!Busy(k) <=> \E t \in Tasks : Works(t, k)
  /\ \A k \in Keys : Promise!Busy(k)' <=> \E t \in Tasks : Works(t, k)'
  BY DEF Promise!Busy

\* Nothing happens in Buys while the workers, the recent and the orphaned keys
\* stay as they are.
LEMMA QuietBuys ==
  ASSUME \A u \in Tasks, k \in Keys : Works(u, k)' <=> Works(u, k), UNCHANGED <<recent, orphans>>
  PROVE  UNCHANGED Promise!bvars
  <1>1. Pairs' = Pairs
    BY DEF Pairs
  <1> QED  BY <1>1 DEF Promise!bvars, Pairs

\* A task that waits, or is refused, starts no buy.
LEMMA WaitingIsQuiet ==
  ASSUME IntakeInv, NEW t \in Tasks,
         \/ \E k \in Keys, pool \in Pools : Spawn(t, k, pool)
         \/ QueueTimeout(t) \/ GetPermit(t) \/ BuyReturns(t)
         \/ TryStart(t) /\ ~MayStart(claims[task[t].key])
  PROVE  UNCHANGED Promise!bvars
  <1>1. UNCHANGED <<recent, orphans>>
    BY DEF Spawn, QueueTimeout, GetPermit, BuyReturns, TryStart
  <1>2. /\ \A u \in Tasks \ {t} : task'[u] = task[u]
        /\ task'[t].st \in Working <=> task[t].st \in Working
        /\ task[t].st \in Working => task'[t].key = task[t].key
    <2>1. CASE \E k \in Keys, pool \in Pools : Spawn(t, k, pool)
      <3>1. PICK k \in Keys, pool \in Pools : Spawn(t, k, pool)
        BY <2>1
      <3> QED  BY <3>1, IntakeTypes DEF Spawn, Working
    <2>2. CASE QueueTimeout(t) \/ (TryStart(t) /\ ~MayStart(claims[task[t].key]))
      <3>1. task' = [task EXCEPT ![t] = NoTask] /\ task[t].st \notin Working
        BY <2>2 DEF QueueTimeout, TryStart, End, Working
      <3> QED  BY <3>1, NoTaskType, IntakeTypes
    <2>3. CASE GetPermit(t) \/ BuyReturns(t)
      <3>1. PICK st \in TaskStates : /\ task' = [task EXCEPT ![t] = [task[t] EXCEPT !.st = st]]
                                     /\ task[t].st \in Working <=> st \in Working
        BY <2>3 DEF GetPermit, BuyReturns, Goto, TaskStates, Working
      <3> QED  BY <3>1, IntakeTypes DEF Task
    <2> QED  BY <2>1, <2>2, <2>3
  <1>3. \A u \in Tasks, k \in Keys : Works(u, k)' <=> Works(u, k)
    BY <1>2 DEF Works
  <1> QED  BY <1>1, <1>3, QuietBuys

\* A task that gets its claim begins a buy that Buys allows.
LEMMA StartBegins ==
  ASSUME IntakeInv, NEW t \in Tasks, TryStart(t), MayStart(claims[task[t].key])
  PROVE  Promise!Begin(t, task[t].key)
  <1> DEFINE k == task[t].key
             r == [task[t] EXCEPT !.st = "buying"]
  <1>1. /\ k \in Keys /\ \A h \in Keys : ~Works(t, h)
        /\ task' = [task EXCEPT ![t] = r] /\ UNCHANGED <<recent, orphans>>
    BY IntakeTypes DEF TryStart, Goto, Works, Working
  <1>2. k \in orphans \/ (k \notin recent /\ \A u \in Tasks : ~Works(u, k))
    BY <1>1 DEF IntakeInv, WorkIsClaimed, RecentIsCooling, MayStart
  <1>3. r.st = "buying" /\ r.key = k
    BY IntakeTypes DEF Task
  <1>4. /\ \A u \in Tasks \ {t}, h \in Keys : Works(u, h)' <=> Works(u, h)
        /\ \A h \in Keys : Works(t, h)' <=> h = k
    BY <1>1, <1>3, IntakeTypes DEF Works, Working
  <1>5. Pairs' = Pairs \cup {<<t, k>>}
    <2>1. \A u \in Tasks, h \in Keys : Works(u, h)' <=> Works(u, h) \/ (u = t /\ h = k)
      BY <1>1, <1>4
    <2> QED  BY <1>1, <2>1 DEF Pairs
  <1>6. k \in orphans \/ (~Promise!Busy(k) /\ k \notin recent)
    BY <1>1, <1>2, BusyIs
  <1> QED  BY <1>1, <1>5, <1>6 DEF Promise!Begin, Pairs

\* A task that finishes ends its buy.
LEMMA FinishEnds ==
  ASSUME IntakeInv, NEW t \in Tasks, NEW k \in Keys, k = task[t].key, Finish(t)
  PROVE  Promise!End(t, k)
  <1>1. k \in Keys /\ Works(t, k) /\ task' = [task EXCEPT ![t] = NoTask]
    BY IntakeTypes DEF Finish, End, Works, Working
  <1>2. /\ recent' \in {recent, recent \cup {k}}
        /\ orphans' = IF k \in recent' \/ \E u \in Tasks \ {t} : Works(u, k)
                      THEN orphans ELSE orphans \ {k}
    BY DEF Finish
  <1>3. /\ \A u \in Tasks \ {t}, h \in Keys : Works(u, h)' <=> Works(u, h)
        /\ \A h \in Keys : ~Works(t, h)'
    BY <1>1, NoTaskType, IntakeTypes DEF Works
  <1>4. Pairs' = Pairs \ {<<t, k>>}
    <2>1. \A u \in Tasks, h \in Keys : Works(u, h)' <=> Works(u, h) /\ ~(u = t /\ h = k)
      <3>1. \A h \in Keys : Works(t, h) => h = k
        BY DEF Works
      <3> QED  BY <1>3, <3>1
    <2> QED  BY <1>1, <2>1 DEF Pairs
  <1>5. Promise!Busy(k)' <=> \E u \in Tasks \ {t} : Works(u, k)
    BY <1>1, <1>3, BusyIs
  <1>6. <<t, k>> \in Pairs
    BY <1>1, PairsAre
  <1>7. orphans' = IF k \in recent' \/ Promise!Busy(k)' THEN orphans ELSE orphans \ {k}
    BY <1>2, <1>5
  <1> QED  BY <1>2, <1>4, <1>6, <1>7 DEF Promise!End, Pairs

\* Time and the sweeper: a rest is over, or a buy is given up.
LEMMA TimeIsPromised ==
  ASSUME IntakeInv, NEW k \in Keys, CooldownOver(k) \/ GoIdle(k) \/ Sweep(k)
  PROVE  Promise!Rested(k) \/ Promise!Excuse(k) \/ UNCHANGED Promise!bvars
  <1>1. task' = task
    BY DEF CooldownOver, GoIdle, Sweep
  <1>2. \A u \in Tasks, h \in Keys : Works(u, h)' <=> Works(u, h)
    BY <1>1 DEF Works
  <1>3. Pairs' = Pairs
    BY <1>2 DEF Pairs
  <1>4. CASE CooldownOver(k)
    <2>1. /\ k \in recent /\ recent' = recent \ {k}
          /\ orphans' = IF \E t \in Tasks : Works(t, k) THEN orphans ELSE orphans \ {k}
      BY <1>4 DEF CooldownOver
    <2> QED  BY <1>3, <2>1, BusyIs DEF Promise!Rested, Pairs
  <1>5. CASE GoIdle(k) \/ (Sweep(k) /\ ~(claims[k].inFlight /\ claims[k].idle))
    <2>1. UNCHANGED <<recent, orphans>>
      BY <1>5 DEF GoIdle, Sweep
    <2> QED  BY <1>2, <2>1, QuietBuys
  <1>6. CASE Sweep(k) /\ claims[k].inFlight /\ claims[k].idle
    <2>1. orphans' = orphans \cup {k} /\ UNCHANGED recent
      BY <1>6 DEF Sweep
    <2>2. Promise!Busy(k)
      BY <1>6, BusyIs DEF IntakeInv, ClaimHasOwner
    <2> QED  BY <1>3, <2>1, <2>2 DEF Promise!Excuse, Pairs
  <1> QED  BY <1>4, <1>5, <1>6

\* The intake of buys implements Buys: every step of it is a step of a buyer, the
\* end of a rest, an excuse, or nothing Buys can see.
THEOREM IntakeImplementsBuys == Spec => ImplementsBuys
  <1>1. Init => Promise!Init
    <2> SUFFICES ASSUME Init PROVE Promise!Init
      OBVIOUS
    <2>1. task = [t \in Tasks |-> NoTask] /\ recent = {} /\ orphans = {}
      BY DEF Init
    <2>2. \A t \in Tasks, k \in Keys : ~Works(t, k)
      BY <2>1, NoTaskType DEF Works
    <2>3. Pairs = {}
      BY <2>2 DEF Pairs
    <2> QED  BY <2>1, <2>3 DEF Promise!Init, Pairs
  <1>2. IntakeInv /\ [Next]_vars => [Promise!Next]_(Promise!bvars)
    <2> SUFFICES ASSUME IntakeInv, [Next]_vars
                 PROVE  Promise!Next \/ UNCHANGED Promise!bvars
      OBVIOUS
    <2>1. CASE UNCHANGED vars
      <3>1. \A u \in Tasks, k \in Keys : Works(u, k)' <=> Works(u, k)
        BY <2>1 DEF vars, Works
      <3> QED  BY <2>1, <3>1, QuietBuys DEF vars
    <2>2. ASSUME NEW t \in Tasks, TaskStep(t) \/ \E k \in Keys, pool \in Pools : Spawn(t, k, pool)
          PROVE  Promise!Next \/ UNCHANGED Promise!bvars
      <3>1. CASE TryStart(t) /\ MayStart(claims[task[t].key])
        <4>1. task[t].key \in Keys
          BY <3>1, IntakeTypes DEF TryStart
        <4> QED  BY <3>1, <4>1, StartBegins DEF Promise!Next
      <3>2. CASE Finish(t)
        <4>1. PICK k \in Keys : k = task[t].key
          BY <3>2, IntakeTypes DEF Finish
        <4> QED  BY <3>2, <4>1, FinishEnds DEF Promise!Next
      <3> QED  BY <2>2, <3>1, <3>2, WaitingIsQuiet DEF TaskStep
    <2>3. ASSUME NEW k \in Keys, CooldownOver(k) \/ GoIdle(k) \/ Sweep(k)
          PROVE  Promise!Next \/ UNCHANGED Promise!bvars
      BY <2>3, TimeIsPromised DEF Promise!Next
    <2> QED  BY <2>1, <2>2, <2>3 DEF Next
  <1> QED  BY <1>1, <1>2, IntakeCorrect, PTL DEF Spec, ImplementsBuys, Promise!Spec

=============================================================================
