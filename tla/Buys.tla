-------------------------------- MODULE Buys --------------------------------
(***************************************************************************)
(* What the intake of buys promises, without claims, permits and sweeper:  *)
(* for one group and mint, one buyer at a time, and a rest after a buy     *)
(* that was sent.  It may be excused from both for a key whose buy takes   *)
(* too long, until nobody buys for the key and its rest is over.           *)
(***************************************************************************)
CONSTANTS Buyers, Keys

VARIABLES
  buying,   \* who is buying, and for which key
  resting,  \* the keys bought for not long ago
  excused   \* the keys whose buy was given up while it went on

bvars == <<buying, resting, excused>>

Init == buying = {} /\ resting = {} /\ excused = {}

Busy(k) == \E b \in Buyers : <<b, k>> \in buying

Begin(b, k) ==
  /\ k \in excused \/ (~Busy(k) /\ k \notin resting)
  /\ buying' = buying \cup {<<b, k>>}
  /\ UNCHANGED <<resting, excused>>

End(b, k) ==
  /\ <<b, k>> \in buying
  /\ buying' = buying \ {<<b, k>>}
  /\ resting' \in {resting, resting \cup {k}}
  /\ excused' = IF k \in resting' \/ Busy(k)' THEN excused ELSE excused \ {k}

Rested(k) ==
  /\ k \in resting
  /\ resting' = resting \ {k}
  /\ excused' = IF Busy(k) THEN excused ELSE excused \ {k}
  /\ UNCHANGED buying

Excuse(k) ==
  /\ Busy(k)
  /\ excused' = excused \cup {k}
  /\ UNCHANGED <<buying, resting>>

Next ==
  \E k \in Keys : Rested(k) \/ Excuse(k) \/ \E b \in Buyers : Begin(b, k) \/ End(b, k)

Spec == Init /\ [][Next]_bvars

=============================================================================
