----------------------------- MODULE DevProfile -----------------------------
(***************************************************************************)
(* Profiles of token creators from the GMGN service (GmgnProvider): a      *)
(* lookup answers from a cache and, when the cache has nothing current,    *)
(* starts a task that asks the service; a set of mints in flight keeps two *)
(* tasks from asking for the same mint; a semaphore lets one request out   *)
(* at a time.                                                              *)
(*                                                                         *)
(* Numbers are abstracted: a profile is known or not.  That a cached       *)
(* answer's time is over is a step that may come at any moment.            *)
(***************************************************************************)
EXTENDS FiniteSets

CONSTANTS
  Mints, NoMint,
  Creators,   \* creators of mints
  CreatorOf,  \* the creator the service names for a mint
  Tasks, NoTask  \* names of tasks; bound: as many run at a time

VARIABLES
  mintCache,  \* mint_cache
  devCache,   \* dev_cache: the creators with a current profile
  inFlight,   \* in_flight
  fetch,      \* the tasks
  permit      \* the task that has the semaphore's permit

pvars == <<mintCache, devCache, inFlight, fetch, permit>>

Stats  == {"none", "known"}
Social == {"none", "no", "yes"}

\* A cached answer; current until it expires.  Both parts may be "none".
Cached  == [stats: Stats, social: Social, current: BOOLEAN]
NoEntry == [stats |-> "none", social |-> "none", current |-> FALSE]

\* "ask1", "ask2": waits for the permit for token/info, for created_tokens;
\* "info", "created": has it, and the request is out; "dev": looks at
\* dev_cache; "store", "clear": the end of spawn_fetch's task.
Fetch == [at: {"none", "ask1", "info", "dev", "ask2", "created", "store", "clear"},
          mint: Mints \cup {NoMint}, stats: Stats, social: Social]

NoFetch == [at |-> "none", mint |-> NoMint, stats |-> "none", social |-> "none"]

ProfileInit ==
  /\ mintCache = [m \in Mints |-> NoEntry]
  /\ devCache = [c \in Creators |-> FALSE]
  /\ inFlight = {}
  /\ fetch = [t \in Tasks |-> NoFetch]
  /\ permit = NoTask

\* Mutation of SpawnFetch: the set of mints in flight is not asked.
SpawnFetchAlways(m) ==
  /\ inFlight' = inFlight \cup {m}
  /\ \E t \in Tasks : /\ fetch[t].at = "none"
                      /\ fetch' = [fetch EXCEPT ![t] = [NoFetch EXCEPT !.at = "ask1", !.mint = m]]
  /\ UNCHANGED <<mintCache, devCache, permit>>

\* spawn_fetch: nothing if a task is at work for the mint.
SpawnFetch(m) ==
  IF m \in inFlight THEN UNCHANGED pvars
  ELSE /\ inFlight' = inFlight \cup {m}
       /\ \E t \in Tasks : /\ fetch[t].at = "none"
                           /\ fetch' = [fetch EXCEPT ![t] = [NoFetch EXCEPT !.at = "ask1", !.mint = m]]
       /\ UNCHANGED <<mintCache, devCache, permit>>

\* do_get gets the permit ...
Acquire(t) ==
  /\ fetch[t].at \in {"ask1", "ask2"}
  /\ permit = NoTask
  /\ permit' = t
  /\ fetch' = [fetch EXCEPT ![t].at = IF @ = "ask1" THEN "info" ELSE "created"]
  /\ UNCHANGED <<mintCache, devCache, inFlight>>

\* ... and gives it back when it has its answer.
Answered(t, at, stats, social) ==
  /\ permit' = NoTask
  /\ fetch' = [fetch EXCEPT ![t] = [@ EXCEPT !.at = at, !.stats = stats, !.social = social]]
  /\ UNCHANGED <<mintCache, inFlight>>

\* token/info: no answer, or one with or without links and a creator.
InfoAnswer(t) ==
  /\ fetch[t].at = "info"
  /\ \/ Answered(t, "store", "none", "none")
     \/ \E social \in Social : Answered(t, "store", "none", social) \/ Answered(t, "dev", "none", social)
  /\ UNCHANGED devCache

CheckDevCache(t) ==
  /\ fetch[t].at = "dev"
  /\ fetch' = [fetch EXCEPT ![t] = IF devCache[CreatorOf[@.mint]]
                                   THEN [@ EXCEPT !.at = "store", !.stats = "known"]
                                   ELSE [@ EXCEPT !.at = "ask2"]]
  /\ UNCHANGED <<mintCache, devCache, inFlight, permit>>

\* created_tokens: without an answer, what token/info said stands in for it,
\* and is kept like an answer.
CreatedAnswer(t) ==
  /\ fetch[t].at = "created"
  /\ Answered(t, "store", "known", fetch[t].social)
  /\ devCache' = [devCache EXCEPT ![CreatorOf[fetch[t].mint]] = TRUE]

\* Mutation of Store: an empty answer is not kept.
StoreAnswer(t) ==
  /\ fetch[t].at = "store"
  /\ mintCache' = IF fetch[t].stats = "none" /\ fetch[t].social = "none" THEN mintCache
                  ELSE [mintCache EXCEPT ![fetch[t].mint] =
                          [stats |-> fetch[t].stats, social |-> fetch[t].social, current |-> TRUE]]
  /\ fetch' = [fetch EXCEPT ![t].at = "clear"]
  /\ UNCHANGED <<devCache, inFlight, permit>>

Store(t) ==
  /\ fetch[t].at = "store"
  /\ mintCache' = [mintCache EXCEPT ![fetch[t].mint] =
                     [stats |-> fetch[t].stats, social |-> fetch[t].social, current |-> TRUE]]
  /\ fetch' = [fetch EXCEPT ![t].at = "clear"]
  /\ UNCHANGED <<devCache, inFlight, permit>>

Clear(t) ==
  /\ fetch[t].at = "clear"
  /\ inFlight' = inFlight \ {fetch[t].mint}
  /\ fetch' = [fetch EXCEPT ![t] = NoFetch]
  /\ UNCHANGED <<mintCache, devCache, permit>>

\* Sixty seconds for an empty answer, an hour for any other: longer than it
\* takes a task to go on from Store to Clear.
Expire(m) ==
  /\ mintCache[m].current
  /\ \A t \in Tasks : fetch[t].at = "clear" => fetch[t].mint # m
  /\ mintCache' = [mintCache EXCEPT ![m].current = FALSE]
  /\ UNCHANGED <<devCache, inFlight, fetch, permit>>

ExpireDev(c) ==
  /\ devCache[c]
  /\ devCache' = [devCache EXCEPT ![c] = FALSE]
  /\ UNCHANGED <<mintCache, inFlight, fetch, permit>>

FetchStep(t) ==
  Acquire(t) \/ InfoAnswer(t) \/ CheckDevCache(t) \/ CreatedAnswer(t) \/ Store(t) \/ Clear(t)

ProfileNext ==
  \/ \E t \in Tasks : FetchStep(t)
  \/ \E m \in Mints : Expire(m)
  \/ \E c \in Creators : ExpireDev(c)

=============================================================================
