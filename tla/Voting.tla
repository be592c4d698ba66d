------------------------------- MODULE Voting -------------------------------
(***************************************************************************)
(* What the consensus on one mint promises the buy side, in terms of       *)
(* wallets only: a call names enough wallets whose votes count, it comes   *)
(* with the vote that makes them enough, and there is no second one until  *)
(* the votes are too few, because some were withdrawn, or the voting is    *)
(* over.  A vote that is in may change sides, or be forgotten, any time.   *)
(***************************************************************************)
EXTENDS Integers, FiniteSets, Sequences

CONSTANTS Wallets, Mins

VARIABLES
  min,      \* how many wallets are enough; 0 when nobody votes
  voters,   \* the wallets with a vote
  counted,  \* those whose vote counts
  called,   \* the call has gone out
  calls     \* the calls nobody has taken yet

wvars == <<min, voters, counted, called, calls>>

Init == min = 0 /\ voters = {} /\ counted = {} /\ called = FALSE /\ calls = <<>>

Enough(n, ws) == Cardinality(ws) >= n

Vote(w) ==
  /\ IF min = 0 THEN min' \in Mins ELSE min' = min
  /\ voters' \in SUBSET (IF called THEN voters ELSE voters \cup {w})
  /\ counted' \in SUBSET (voters' \cap (counted \cup {w}))
  /\ IF ~called /\ Enough(min', counted')
     THEN called' = TRUE /\ calls' = Append(calls, counted')
     ELSE UNCHANGED <<called, calls>>

Withdraw(w) ==
  /\ voters' \in {voters, voters \ {w}}
  /\ counted' = counted \cap voters'
  /\ called' = (called /\ Enough(min, counted'))
  /\ UNCHANGED <<min, calls>>

\* Some votes are too old.
Expire ==
  /\ voters' \in SUBSET voters
  /\ counted' = counted \cap voters'
  /\ UNCHANGED <<min, called, calls>>

End ==
  /\ min' = 0 /\ voters' = {} /\ counted' = {} /\ called' = FALSE
  /\ UNCHANGED calls

Take ==
  /\ calls # <<>>
  /\ calls' = Tail(calls)
  /\ UNCHANGED <<min, voters, counted, called>>

Next == (\E w \in Wallets : Vote(w) \/ Withdraw(w)) \/ Expire \/ End \/ Take

Spec == Init /\ [][Next]_wvars

=============================================================================
