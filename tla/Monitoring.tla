----------------------------- MODULE Monitoring -----------------------------
(***************************************************************************)
(* From an edited group to the wallets that are followed: the groups and   *)
(* the Telegram task (Groups), the stream (TradeStream), and the task      *)
(* between them that copies the groups' wallets to the stream's list every *)
(* 200 ms.                                                                 *)
(***************************************************************************)
EXTENDS Groups

VARIABLES
  targets, sub,  \* of the stream
  sync           \* the copying task: "tick", or "notify" when the list was changed

Stream == INSTANCE TradeStream

svars == <<targets, sub>>
vars  == <<gvars, svars, sync>>

Init ==
  /\ GroupsInit
  /\ targets = AllTargetWallets(book)
  /\ sub = Stream!Starting
  /\ sync = "tick"

\* Mutation of SyncTargets: a list that only lost wallets is kept.
SyncGrowth ==
  /\ sync = "tick"
  /\ ~(AllTargetWallets(book) \subseteq targets)
  /\ targets' = AllTargetWallets(book)
  /\ sync' = "notify"
  /\ UNCHANGED <<gvars, sub>>

\* update_target_wallets, up to the release of the lock ...
SyncTargets ==
  /\ sync = "tick"
  /\ AllTargetWallets(book) # targets
  /\ targets' = AllTargetWallets(book)
  /\ sync' = "notify"
  /\ UNCHANGED <<gvars, sub>>

\* ... and after it.
SyncNotify ==
  /\ sync = "notify"
  /\ Stream!NotifyWaiters
  /\ sync' = "tick"
  /\ UNCHANGED <<gvars, targets>>

\* The process starts again: all tasks do.
RestartAll ==
  /\ Restart
  /\ targets' = AllTargetWallets(book')
  /\ sub' = Stream!Starting
  /\ sync' = "tick"

Next ==
  \/ GroupsNext /\ UNCHANGED <<svars, sync>>
  \/ Stream!StreamNext /\ UNCHANGED <<gvars, sync>>
  \/ SyncTargets
  \/ SyncNotify
  \/ RestartAll

Spec == Init /\ [][Next]_vars

\* The tasks of the process run; nothing is assumed of Telegram.  An attempt
\* to connect may fail, but not for ever; a broken connection is noticed, by
\* the transport's keep-alive.
Fairness ==
  /\ WF_vars(SyncTargets \/ SyncNotify)
  /\ WF_vars(Stream!StreamMoves /\ UNCHANGED <<gvars, sync>>)
  /\ SF_vars(Stream!Connected /\ UNCHANGED <<gvars, sync>>)
  /\ WF_vars(sub.broken /\ Stream!StreamEnds /\ UNCHANGED <<gvars, sync>>)

FairSpec == Spec /\ Fairness

(***************************************************************************)
(* Properties                                                              *)
(***************************************************************************)

\* Types.
TypeOK ==
  /\ IsBook(book)
  /\ file.is \in {"absent", "torn", "whole"} /\ IsBook(file.book)
  /\ batch \in Seq(Commands)
  /\ tg \in Telegram /\ tg.done <= Len(batch)
  /\ unsaved \in BOOLEAN
  /\ \A b \in once : IsBook(b)
  /\ faults \in 0..MaxFaults
  /\ targets \subseteq Wallets
  /\ sub \in Stream!Subscriber
  /\ sync \in {"tick", "notify"}

\* What the stream compares the list with is what the server was told: a
\* request that could not be sent is not taken for sent.
FilterIsRemembered == sub.at = "live" => sub.asked = sub.filter

\* A wallet that is and stays in a group comes to be followed, unless subscribe
\* has missed the wake-up for the first wallets, which came between its look at
\* the list and its call of notified().
WalletFollowed ==
  \A w \in Wallets :
    w \in AllTargetWallets(book) ~>
      \/ w \in sub.filter
      \/ w \notin AllTargetWallets(book)
      \/ sub.missed

\* The safe half of WalletFollowed: a stream that has no wallets, or waits for
\* some, while there are some, is about to be notified or has missed it.
WakeUpDue ==
  sub.at \in {"empty", "wait"} /\ targets # {} => sync = "notify" \/ sub.missed

\* A wallet that has left its groups is no longer followed.
LeaverDropped ==
  \A w \in Wallets :
    w \notin AllTargetWallets(book) ~>
      (w \notin sub.filter \/ w \in AllTargetWallets(book))

=============================================================================
