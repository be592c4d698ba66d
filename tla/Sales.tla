------------------------------- MODULE Sales -------------------------------
(***************************************************************************)
(* What the sale of positions promises, without states, attempts and       *)
(* snapshots: a position is sold by one seller at a time, and not again    *)
(* once it was sold or dropped.  A group that buys the mint a second time  *)
(* is excused from both: nothing keeps its two positions apart.            *)
(***************************************************************************)
CONSTANTS Sellers, Groups

VARIABLES
  phase,    \* of a group's position: none yet, held, over, or excused
  selling   \* who is selling, and for which group

svars == <<phase, selling>>

Init == phase = [g \in Groups |-> "none"] /\ selling = {}

Sold(g) == \E s \in Sellers : <<s, g>> \in selling

Buy(g) ==
  /\ phase' = [phase EXCEPT ![g] = IF @ = "none" THEN "held" ELSE "excused"]
  /\ UNCHANGED selling

Begin(s, g) ==
  /\ phase[g] = "excused" \/ (phase[g] = "held" /\ ~Sold(g))
  /\ selling' = selling \cup {<<s, g>>}
  /\ UNCHANGED phase

\* A sale that ends may have been the last one.
End(s, g) ==
  /\ <<s, g>> \in selling
  /\ selling' = selling \ {<<s, g>>}
  /\ \/ UNCHANGED phase
     \/ phase[g] = "held" /\ phase' = [phase EXCEPT ![g] = "over"]

\* The position goes, be it in the middle of a sale.
Drop(g) ==
  /\ phase[g] = "held"
  /\ phase' = [phase EXCEPT ![g] = "over"]
  /\ UNCHANGED selling

Next == \E g \in Groups : Buy(g) \/ Drop(g) \/ \E s \in Sellers : Begin(s, g) \/ End(s, g)

Spec == Init /\ [][Next]_svars

=============================================================================
