------------------------------- MODULE Buying -------------------------------
(***************************************************************************)
(* The tasks of BuyIntake, and the instructions of Pumpfun they are there  *)
(* for.  Which of the trades, curves and accounts of Pumpfun a task finds  *)
(* in execute_buy is left open: it may find any of them.                   *)
(***************************************************************************)
EXTENDS BuyIntake, Pumpfun

(***************************************************************************)
(* Properties                                                              *)
(***************************************************************************)

\* What a task hands to the sender at the end of execute_buy is, whoever's accounts
\* it reuses and whatever it knows of the curve, a BUY in our name with each account
\* in its place.
BuyIsPlaced == \A t \in Tasks : task[t].st = "buying" => BuysPlaced

\* What was bought can be sold with the accounts it was bought with, whether its mint
\* is in cashback mode or not.  The comment above build_sell_instruction_from_mirror
\* says the mode is ignored, for there is no cashback path any more; the code, with the
\* comments inside, gives cashback mints an account more, and that is stated here.
SellIsPlaced == \A k \in recent : SalesPlaced

\* No task in execute_buy is quoted more than the curve has, or than it pays for.
QuotesAreSafe == \A t \in Tasks : task[t].st = "buying" => QuotesSafe

=============================================================================
