---------------------------- MODULE TradeStream ----------------------------
(***************************************************************************)
(* The stream of the followed wallets' transactions (GrpcSubscriber): the  *)
(* list of target wallets, and the task that waits for wallets, connects,  *)
(* asks for their transactions, and asks anew when the list has changed.   *)
(***************************************************************************)
EXTENDS FiniteSets

CONSTANTS Wallets

VARIABLES
  targets,  \* target_wallets
  sub       \* the task in subscribe, and the connection it has

svars == <<targets, sub>>

\* "check": looks whether there are wallets; "empty": there were none,
\* notified() is not called yet; "wait": it is; "read": there were some, the
\* list is about to be copied; "connect"; "live"; "down": ended, to start over
\* after two seconds.
\* asked: last_wallets; filter: what the server was last told on this
\* connection; broken: the connection is gone, though the stream still runs.
\* missed (history): a wake-up came between the look and notified().
Subscriber == [at: {"check", "empty", "wait", "read", "connect", "live", "down"},
               asked: SUBSET Wallets, filter: SUBSET Wallets, broken: BOOLEAN, missed: BOOLEAN]

Starting == [at |-> "check", asked |-> {}, filter |-> {}, broken |-> FALSE,
             missed |-> FALSE]

Ended == [Starting EXCEPT !.at = "down"]

SubGoto(step) == sub' = [sub EXCEPT !.at = step]

\* Mutation of NotifyWaiters: nobody is woken.
NotifyNobody == UNCHANGED sub

\* notify_waiters wakes a task that waits and leaves no permit for a later one.
\* A live stream looks at the list every 200 ms anyway.
NotifyWaiters ==
  sub' = CASE sub.at = "wait"  -> Starting
           [] sub.at = "empty" -> [sub EXCEPT !.missed = TRUE]
           [] OTHER            -> sub

CheckTargets ==
  /\ sub.at = "check"
  /\ SubGoto(IF targets = {} THEN "empty" ELSE "read")
  /\ UNCHANGED targets

Wait == sub.at = "empty" /\ SubGoto("wait") /\ UNCHANGED targets

\* initial_wallets, a second look at the list.
CopyTargets ==
  /\ sub.at = "read"
  /\ sub' = [sub EXCEPT !.at = "connect", !.asked = targets]
  /\ UNCHANGED targets

Connected ==
  /\ sub.at = "connect"
  /\ sub' = [sub EXCEPT !.at = "live", !.filter = sub.asked]
  /\ UNCHANGED targets

NotConnected == sub.at = "connect" /\ sub' = Ended /\ UNCHANGED targets

\* Mutation of Resubscribe: the list counts as asked for though sending failed.
ResubscribeBlindly ==
  /\ sub.at = "live"
  /\ targets # sub.asked
  /\ sub' = [sub EXCEPT !.asked = targets, !.filter = IF sub.broken THEN @ ELSE targets]
  /\ UNCHANGED targets

\* The 200 ms check, or the notification.  On a broken connection the request
\* cannot be sent, and last_wallets stays.
Resubscribe ==
  /\ sub.at = "live" /\ ~sub.broken
  /\ targets # sub.asked
  /\ sub' = [sub EXCEPT !.asked = targets, !.filter = targets]
  /\ UNCHANGED targets

ConnectionBreaks ==
  /\ sub.at = "live"
  /\ sub' = [sub EXCEPT !.broken = TRUE]
  /\ UNCHANGED targets

\* An error or the end of the stream, which a broken connection leads to.
StreamEnds ==
  /\ sub.at = "live"
  /\ sub' = Ended
  /\ UNCHANGED targets

StartOver == sub.at = "down" /\ SubGoto("check") /\ UNCHANGED targets

StreamNext ==
  \/ CheckTargets \/ Wait \/ CopyTargets
  \/ Connected \/ NotConnected
  \/ Resubscribe \/ ConnectionBreaks \/ StreamEnds
  \/ StartOver

\* The steps of the task that nothing but the scheduler delays.
StreamMoves == CheckTargets \/ Wait \/ CopyTargets \/ Resubscribe \/ StartOver

=============================================================================
