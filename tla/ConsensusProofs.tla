-------------------------- MODULE ConsensusProofs --------------------------
(***************************************************************************)
(* Proofs about Consensus, for every set of wallets, of trade shapes and   *)
(* of minima, and every timeout: what the entry holds, that a consensus    *)
(* reached is a consensus reported, that the reported ones are sound, that *)
(* a triggered one runs out of time, and the implementation of Voting.     *)
(***************************************************************************)
EXTENDS Consensus, FiniteSetTheorems, SequenceTheorems, TLAPS

(***************************************************************************)
(* Votes and entries                                                       *)
(***************************************************************************)

\* A trade that reaches the engine makes a vote.
LEMMA NewVoteType ==
  ASSUME NEW tx \in Txs, NEW shape \in Shapes, NEW landed \in BOOLEAN,
         NEW age \in 0..MaxDelay
  PROVE  NewVote(tx, shape, landed, age) \in Vote
  <1>1. shape \in Shape
    BY ShapesAssumption
  <1>2. age \in 0..Timeout
    BY TimesAssumption
  <1>3. CanonicalScore(shape, landed) \in 0..15
    <2>1. /\ Weight(shape.ins, 8) \in {0, 8} /\ Weight(shape.acc, 4) \in {0, 4}
          /\ Weight(shape.sol, 2) \in {0, 2} /\ Weight(landed, 1) \in {0, 1}
      BY DEF Weight
    <2> QED  BY <2>1 DEF CanonicalScore
  <1>4. CountsForConsensus(shape) \in BOOLEAN
    BY <1>1 DEF CountsForConsensus, Shape
  <1> QED  BY <1>2, <1>3, <1>4 DEF NewVote, Vote

\* An entry in order, but for its flag: its votes are votes, finitely many, one
\* per wallet, and none of them is rejected.
Sound(e, rej) ==
  /\ e \in Entry
  /\ IsFiniteSet(e.votes)
  /\ \A u, v \in e.votes : Wallet(u) = Wallet(v) => u = v
  /\ \A v \in e.votes : v.tx \notin rej

\* The flag is set when the votes are enough.
Honest(e) == Reached(e) => e.triggered

\* What ConsensusInv says of the entry.
LEMMA EntryFacts ==
  ConsensusInv => Sound(entry, rejected) /\ (entry.here => Honest(entry))
  BY DEF ConsensusInv, TypeOK, RejectedStaysOut, ReachedMeansTriggered, Sound, Honest

\* An entry loses votes: it stays sound, and its votes are not more than before.
LEMMA FewerVotes ==
  ASSUME NEW e, NEW rej, Sound(e, rej), NEW S \in SUBSET e.votes
  PROVE  /\ Sound([e EXCEPT !.votes = S], rej)
         /\ Honest(e) => Honest([e EXCEPT !.votes = S])
  <1> DEFINE d == [e EXCEPT !.votes = S]
  <1>1. d.votes = S /\ d.triggered = e.triggered /\ d.min = e.min /\ d \in Entry
    BY DEF Sound, Entry
  <1>2. IsFiniteSet(S)
    BY FS_Subset DEF Sound
  <1>3. Sound(d, rej)
    BY <1>1, <1>2 DEF Sound
  <1>4. Cardinality(Counting(S)) <= Cardinality(Counting(e.votes))
        /\ Cardinality(Counting(S)) \in Nat /\ Cardinality(Counting(e.votes)) \in Nat
    <2>1. Counting(S) \subseteq Counting(e.votes) /\ Counting(e.votes) \subseteq e.votes
      BY DEF Counting
    <2>2. IsFiniteSet(Counting(e.votes))
      BY <2>1, FS_Subset DEF Sound
    <2>3. IsFiniteSet(Counting(S))
      BY <2>1, <2>2, FS_Subset
    <2> QED  BY <2>1, <2>2, <2>3, FS_Subset, FS_CardinalityType
  <1>5. e.min \in Nat
    BY DEF Sound, Entry
  <1>6. Reached(d) => Reached(e)
    BY <1>1, <1>4, <1>5 DEF Reached
  <1> QED  BY <1>1, <1>3, <1>6 DEF Honest

\* A wallet's vote takes the place of its earlier one: one vote each.
LEMMA VoteInPlace ==
  ASSUME NEW e, NEW rej, Sound(e, rej), NEW v \in Vote, v.tx \notin rej
  PROVE  Sound([e EXCEPT !.votes = (@ \ VotesOf(@, Wallet(v))) \cup {v}], rej)
  <1> DEFINE S == (e.votes \ VotesOf(e.votes, Wallet(v))) \cup {v}
             d == [e EXCEPT !.votes = S]
  <1>1. e.votes \in SUBSET Vote /\ S \in SUBSET Vote
    BY DEF Sound, Entry
  <1>2. d.votes = S /\ d \in Entry
    BY <1>1 DEF Sound, Entry
  <1>3. IsFiniteSet(S)
    <2>1. IsFiniteSet(e.votes \ VotesOf(e.votes, Wallet(v)))
      BY FS_Subset DEF Sound
    <2> QED  BY <2>1, FS_AddElement
  <1>4. ASSUME NEW a \in S, NEW b \in S, Wallet(a) = Wallet(b)
        PROVE  a = b
    BY <1>4 DEF Sound, VotesOf
  <1>5. \A u \in S : u.tx \notin rej
    BY DEF Sound
  <1>6. Sound(d, rej)
    BY <1>2, <1>3, <1>4, <1>5 DEF Sound
  <1> QED  BY <1>6

\* Votes grow older: an entry stays sound and its count does not rise.
LEMMA OlderVotes ==
  ASSUME NEW e, NEW rej, Sound(e, rej)
  PROVE  LET d == [e EXCEPT !.votes = {Older(v) : v \in @}]
         IN  Sound(d, rej) /\ (Honest(e) => Honest(d))
  <1> DEFINE S == {Older(v) : v \in e.votes}
             d == [e EXCEPT !.votes = S]
             C == Counting(e.votes)
             f == [v \in C |-> Older(v)]
  <1>1. \A v \in e.votes : /\ Older(v) \in Vote /\ Older(v).tx = v.tx
                           /\ Older(v).counts = v.counts /\ Wallet(Older(v)) = Wallet(v)
    <2> SUFFICES ASSUME NEW v \in e.votes
                 PROVE  /\ Older(v) \in Vote /\ Older(v).tx = v.tx
                        /\ Older(v).counts = v.counts /\ Wallet(Older(v)) = Wallet(v)
      OBVIOUS
    <2>1. v \in Vote
      BY DEF Sound, Entry
    <2>2. (IF v.age < Timeout THEN v.age + 1 ELSE v.age) \in 0..Timeout
      BY <2>1, TimesAssumption DEF Vote
    <2> QED  BY <2>1, <2>2 DEF Older, Vote, Wallet
  <1>2. d.votes = S /\ d.triggered = e.triggered /\ d.min = e.min /\ d \in Entry
    BY <1>1 DEF Sound, Entry
  <1>3. IsFiniteSet(S)
    <2> DEFINE g == [v \in e.votes |-> Older(v)]
    <2>1. g \in Surjection(e.votes, S)
      BY DEF Surjection
    <2> QED  BY <2>1, FS_Surjection DEF Sound
  <1>4. Sound(d, rej)
    <2>1. ASSUME NEW a \in S, NEW b \in S, Wallet(a) = Wallet(b)
          PROVE  a = b
      <3>1. PICK u \in e.votes : a = Older(u)
        OBVIOUS
      <3>2. PICK v \in e.votes : b = Older(v)
        OBVIOUS
      <3>3. u = v
        BY <1>1, <2>1, <3>1, <3>2 DEF Sound
      <3> QED  BY <3>1, <3>2, <3>3
    <2>2. \A u \in S : u.tx \notin rej
      BY <1>1 DEF Sound
    <2> QED  BY <1>2, <1>3, <2>1, <2>2 DEF Sound
  <1>5. /\ Cardinality(Counting(S)) <= Cardinality(C)
        /\ Cardinality(Counting(S)) \in Nat /\ Cardinality(C) \in Nat
    <2>1. C \subseteq e.votes /\ IsFiniteSet(C)
      BY FS_Subset DEF Counting, Sound
    <2>2. f \in Surjection(C, Counting(S))
      BY <1>1, <2>1 DEF Surjection, Counting
    <2> QED  BY <2>1, <2>2, FS_Surjection, FS_CardinalityType
  <1>6. e.min \in Nat
    BY DEF Sound, Entry
  <1>7. Reached(d) => Reached(e)
    BY <1>2, <1>5, <1>6 DEF Reached
  <1> QED  BY <1>2, <1>4, <1>7 DEF Honest

(***************************************************************************)
(* Submitting a signal                                                     *)
(***************************************************************************)

\* What an entry's last step may do to the channel: a trigger is sent exactly
\* when the flag goes up, and it names the counting votes of the entry.
Reports(before, e) ==
  \/ channel' = channel /\ (e.triggered => before.triggered)
  \/ /\ ~before.triggered /\ e.triggered /\ Reached(e)
     /\ \E best \in Best(Counting(e.votes)) :
          channel' = Append(channel, [wallets |-> {Wallet(v) : v \in Counting(e.votes)},
                                      canonical |-> best.tx])

\* What a tally does to the entry and the channel.
LEMMA TallyResult ==
  ASSUME NEW e, NEW rej, Sound(e, rej), Tally(e)
  PROVE  /\ Sound(entry', rej) /\ Honest(entry') /\ Reports(e, entry')
         /\ entry'.votes = e.votes /\ entry'.here = e.here /\ entry'.min = e.min
  <1>1. CASE ~e.triggered /\ Reached(e)
    <2>1. entry' = [e EXCEPT !.triggered = TRUE]
      BY <1>1 DEF Tally
    <2>2. /\ entry'.votes = e.votes /\ entry'.here = e.here /\ entry'.min = e.min
          /\ entry'.triggered /\ entry' \in Entry
      BY <2>1 DEF Sound, Entry
    <2>3. Sound(entry', rej) /\ Honest(entry') /\ Reached(entry')
      BY <1>1, <2>2 DEF Sound, Honest, Reached
    <2>4. Reports(e, entry')
      BY <1>1, <2>2, <2>3 DEF Tally, Reports
    <2> QED  BY <2>2, <2>3, <2>4
  <1>2. CASE ~(~e.triggered /\ Reached(e))
    BY <1>2 DEF Tally, Honest, Reports
  <1> QED  BY <1>1, <1>2

\* The entry a signal meets is in order and holds live votes only.
LEMMA EntryForFacts ==
  ASSUME ConsensusInv, NEW min \in Mins
  PROVE  LET e == EntryFor(min) IN
         /\ Sound(e, rejected) /\ Honest(e) /\ e.here /\ e.min \in Mins
         /\ (e.triggered <=> entry.triggered)
         /\ \A v \in e.votes : v.age < Timeout
  <1> DEFINE e0 == IF entry.here THEN entry ELSE [NoEntry EXCEPT !.here = TRUE, !.min = min]
             e  == [e0 EXCEPT !.votes = Fresh(e0.votes)]
  <1>1. EntryFor(min) = e
    BY DEF EntryFor
  <1>2. /\ Sound(e0, rejected) /\ Honest(e0) /\ e0.here /\ e0.min \in Mins
        /\ (e0.triggered <=> entry.triggered)
    <2>1. CASE entry.here
      BY <2>1, EntryFacts DEF ConsensusInv, TypeOK
    <2>2. CASE ~entry.here
      <3>1. entry = NoEntry
        BY <2>2 DEF ConsensusInv, TypeOK
      <3>2. e0 = [here |-> TRUE, votes |-> {}, triggered |-> FALSE, min |-> min]
        BY <2>2 DEF NoEntry
      <3>3. min \in Nat /\ min # 0
        BY MinsAssumption
      <3> HIDE DEF e0
      <3>4. /\ e0 \in Entry /\ e0.here /\ e0.votes = {} /\ ~e0.triggered /\ e0.min = min
        BY <3>2, <3>3 DEF Entry
      <3>5. Sound(e0, rejected)
        BY <3>4, FS_EmptySet DEF Sound
      <3>6. Counting({}) = {} /\ Cardinality({}) = 0
        BY FS_EmptySet DEF Counting
      <3>7. ~Reached(e0)
        BY <3>3, <3>4, <3>6 DEF Reached
      <3> QED  BY <3>1, <3>4, <3>5, <3>7 DEF Honest, NoEntry
    <2> QED  BY <2>1, <2>2
  <1>3. Fresh(e0.votes) \in SUBSET e0.votes
    BY DEF Fresh
  <1> HIDE DEF e0
  <1>4. Sound(e, rejected) /\ Honest(e)
    BY <1>2, <1>3, FewerVotes
  <1>5. /\ e.here = e0.here /\ e.min = e0.min /\ e.triggered = e0.triggered
        /\ e.votes = Fresh(e0.votes)
    BY <1>2 DEF Sound, Entry
  <1> QED  BY <1>1, <1>2, <1>4, <1>5 DEF Fresh

\* A signal leaves the entry in order, and reports what it has to.
LEMMA SubmitResult ==
  ASSUME ConsensusInv, NEW v \in Vote, v.tx \notin rejected, v.age < Timeout,
         SubmitSignal(v)
  PROVE  /\ Sound(entry', rejected) /\ Honest(entry') /\ Reports(entry, entry')
         /\ entry'.here /\ entry'.min \in Mins
         /\ \A u \in entry'.votes : u.age < Timeout
  <1>1. PICK min \in Mins :
          LET e == EntryFor(min) IN
          IF Welcome(e, v) THEN Cast(e, v) ELSE entry' = e /\ UNCHANGED channel
    BY DEF SubmitSignal
  <1> DEFINE e == EntryFor(min)
             d == [e EXCEPT !.votes = (@ \ VotesOf(@, Wallet(v))) \cup {v}]
  <1>2. /\ Sound(e, rejected) /\ Honest(e) /\ e.here /\ e.min \in Mins
        /\ (e.triggered <=> entry.triggered)
        /\ \A u \in e.votes : u.age < Timeout
    BY EntryForFacts
  <1>3. CASE Welcome(e, v)
    <2>1. Tally(d)
      BY <1>1, <1>3 DEF Cast
    <2> HIDE DEF e
    <2>2. Sound(d, rejected)
      BY <1>2, VoteInPlace
    <2>3. /\ d.here = e.here /\ d.min = e.min /\ d.triggered = e.triggered
          /\ d.votes = (e.votes \ VotesOf(e.votes, Wallet(v))) \cup {v}
      BY <1>2 DEF Sound, Entry
    <2>4. \A u \in d.votes : u.age < Timeout
      BY <1>2, <2>3
    <2> HIDE DEF d
    <2>5. /\ Sound(entry', rejected) /\ Honest(entry') /\ Reports(d, entry')
          /\ entry'.votes = d.votes /\ entry'.here = d.here /\ entry'.min = d.min
      BY <2>1, <2>2, TallyResult
    <2>6. Reports(entry, entry')
      BY <1>2, <2>3, <2>5 DEF Reports
    <2> QED  BY <1>2, <2>3, <2>4, <2>5, <2>6
  <1>4. CASE ~Welcome(e, v)
    <2>1. entry' = e /\ channel' = channel
      BY <1>1, <1>4
    <2> HIDE DEF e
    <2> QED  BY <1>2, <2>1 DEF Reports
  <1> QED  BY <1>3, <1>4

(***************************************************************************)
(* The invariant                                                           *)
(***************************************************************************)

\* What is left to show once the entry is known to be in order.
LEMMA InvFromParts ==
  ASSUME Sound(entry', rejected'), entry'.here => Honest(entry') /\ entry'.min \in Mins,
         ~entry'.here => entry' = NoEntry,
         seen' \in [Txs -> [pre: BOOLEAN, landed: BOOLEAN]], rejected' \subseteq Txs,
         channel' \in Seq(Trigger), \A tx \in rejected' : seen'[tx].landed
  PROVE  ConsensusInv'
  BY DEF ConsensusInv, TypeOK, RejectedIsSeen, ReachedMeansTriggered, RejectedStaysOut,
         Sound, Honest, Reached

\* Noting a copy of a transaction keeps the signature cache in order.
LEMMA NoteFacts ==
  ASSUME ConsensusInv, NEW tx \in Txs, NEW landed \in BOOLEAN, Note(tx, landed)
  PROVE  /\ seen' \in [Txs -> [pre: BOOLEAN, landed: BOOLEAN]]
         /\ tx \notin rejected
         /\ \A t \in Txs : seen[t].landed => seen'[t].landed
         /\ landed => seen'[tx].landed
  <1>1. seen \in [Txs -> [pre: BOOLEAN, landed: BOOLEAN]]
    BY DEF ConsensusInv, TypeOK
  <1>2. ~seen[tx].landed
    BY DEF Note, ShouldSkip
  <1>3. seen' = [seen EXCEPT ![tx] = IF landed THEN [@ EXCEPT !.landed = TRUE]
                                     ELSE [@ EXCEPT !.pre = TRUE]]
    BY DEF Note
  <1> QED  BY <1>1, <1>2, <1>3 DEF ConsensusInv, RejectedIsSeen

\* A sent trigger is one of the type, and the channel stays a sequence.
LEMMA ChannelType ==
  ASSUME channel \in Seq(Trigger), NEW e, NEW rej, Sound(e, rej), NEW b, Reports(b, e)
  PROVE  channel' \in Seq(Trigger)
  <1>1. CASE channel' = channel
    BY <1>1
  <1>2. ASSUME NEW best \in Best(Counting(e.votes)),
               channel' = Append(channel, [wallets |-> {Wallet(v) : v \in Counting(e.votes)},
                                           canonical |-> best.tx])
        PROVE  channel' \in Seq(Trigger)
    <2>1. \A v \in Counting(e.votes) : v \in Vote
      BY DEF Sound, Entry, Counting
    <2>2. \A v \in Vote : v.tx \in Txs /\ Wallet(v) \in Wallets
      BY DEF Vote, Wallet, Txs
    <2>3. best.tx \in Txs
      BY <2>1, <2>2 DEF Best
    <2>4. [wallets |-> {Wallet(v) : v \in Counting(e.votes)}, canonical |-> best.tx] \in Trigger
      BY <2>1, <2>2, <2>3 DEF Trigger
    <2> QED  BY <1>2, <2>4
  <1> QED  BY <1>1, <1>2 DEF Reports


\* A trade that is delivered is turned away by a filter or makes a vote.
LEMMA ParseSteps ==
  ASSUME NEW tx \in Txs, NEW landed \in BOOLEAN, NEW shape \in Shapes,
         Deliver(tx, landed, shape)
  PROVE  \/ DeliverFiltered(tx, landed)
         \/ \E age \in 0..MaxDelay : DeliverVote(tx, landed, shape, age)
  BY DEF Deliver

\* A vote delivered.
LEMMA VoteStep ==
  ASSUME ConsensusInv, NEW tx \in Txs, NEW landed \in BOOLEAN, NEW shape \in Shapes,
         NEW age \in 0..MaxDelay, DeliverVote(tx, landed, shape, age)
  PROVE  /\ ConsensusInv' /\ Reports(entry, entry') /\ rejected' = rejected
         /\ Sound(entry', rejected)
         /\ \A u \in entry'.votes : u.age < Timeout
  <1> DEFINE v == NewVote(tx, shape, landed, age)
  <1>1. Note(tx, landed) /\ SubmitSignal(v) /\ rejected' = rejected
    BY DEF DeliverVote
  <1>2. v \in Vote /\ v.tx = tx /\ v.age = age
    BY NewVoteType DEF NewVote
  <1>3. v.age < Timeout
    BY <1>2, TimesAssumption
  <1> HIDE DEF v
  <1>4. /\ seen' \in [Txs -> [pre: BOOLEAN, landed: BOOLEAN]]
        /\ tx \notin rejected
        /\ \A t \in Txs : seen[t].landed => seen'[t].landed
    BY <1>1, NoteFacts
  <1>5. /\ Sound(entry', rejected) /\ Honest(entry') /\ Reports(entry, entry')
        /\ entry'.here /\ entry'.min \in Mins
        /\ \A u \in entry'.votes : u.age < Timeout
    BY <1>1, <1>2, <1>3, <1>4, SubmitResult
  <1>6. rejected \subseteq Txs /\ channel \in Seq(Trigger)
    BY DEF ConsensusInv, TypeOK
  <1>7. channel' \in Seq(Trigger)
    BY <1>5, <1>6, ChannelType
  <1>8. \A t \in rejected' : seen'[t].landed
    BY <1>1, <1>4, <1>6 DEF ConsensusInv, RejectedIsSeen
  <1> QED  BY <1>1, <1>4, <1>5, <1>6, <1>7, <1>8, InvFromParts

\* A failure delivered: the vote goes, and the flag is what the rest deserves.
LEMMA FailureStep ==
  ASSUME ConsensusInv, NEW tx \in Txs, DeliverFailure(tx)
  PROVE  ConsensusInv' /\ (entry'.triggered => entry.triggered) /\ channel' = channel
  <1> DEFINE e == [entry EXCEPT !.votes = Without(@, tx)]
             d == [e EXCEPT !.triggered = Reached(e)]
  <1>1. /\ Note(tx, TRUE) /\ channel' = channel /\ rejected' = rejected \cup {tx}
        /\ entry' = IF entry.here THEN d ELSE entry
    BY DEF DeliverFailure, RejectSignal
  <1>2. /\ seen' \in [Txs -> [pre: BOOLEAN, landed: BOOLEAN]]
        /\ \A t \in Txs : seen[t].landed => seen'[t].landed
        /\ seen'[tx].landed
    BY <1>1, NoteFacts
  <1>3. rejected' \subseteq Txs /\ \A t \in rejected' : seen'[t].landed
    BY <1>1, <1>2 DEF ConsensusInv, TypeOK, RejectedIsSeen
  <1>4. Sound(entry, rejected) /\ (entry.here => Honest(entry))
    BY EntryFacts
  <1>5. channel' \in Seq(Trigger)
    BY <1>1 DEF ConsensusInv, TypeOK
  <1>6. CASE entry.here
    <2>1. Without(entry.votes, tx) \in SUBSET entry.votes
      BY DEF Without
    <2>2. Sound(e, rejected) /\ Honest(e)
      BY <1>4, <1>6, <2>1, FewerVotes
    <2>3. /\ e.votes = Without(entry.votes, tx) /\ e.triggered = entry.triggered
          /\ e.here /\ e.min = entry.min /\ e \in Entry
      BY <1>4, <1>6, <2>2 DEF Sound, Entry
    <2> HIDE DEF e
    <2>4. Reached(e) \in BOOLEAN
      BY DEF Reached
    <2>5. /\ d.votes = e.votes /\ d.triggered = Reached(e) /\ d.here /\ d.min = e.min
          /\ d \in Entry
      BY <2>3, <2>4 DEF Entry
    <2>6. entry' = d
      BY <1>1, <1>6 DEF e
    <2> HIDE DEF d
    <2>7. Sound(d, rejected')
      BY <1>1, <2>2, <2>3, <2>5 DEF Sound, Without
    <2>8. Reached(d) <=> Reached(e)
      BY <2>5 DEF Reached
    <2>9. Honest(d)
      BY <2>5, <2>8 DEF Honest
    <2>10. entry.min \in Mins
      BY <1>6 DEF ConsensusInv, TypeOK
    <2>11. ConsensusInv'
      BY <1>2, <1>3, <1>5, <2>3, <2>5, <2>6, <2>7, <2>9, <2>10, InvFromParts
    <2>12. d.triggered => entry.triggered
      BY <2>2, <2>3, <2>5 DEF Honest
    <2> QED  BY <1>1, <2>6, <2>11, <2>12
  <1>7. CASE ~entry.here
    <2>1. entry' = entry /\ entry = NoEntry
      BY <1>1, <1>7 DEF ConsensusInv, TypeOK
    <2>2. Sound(entry', rejected')
      BY <1>4, <2>1 DEF Sound, NoEntry
    <2> QED  BY <1>1, <1>2, <1>3, <1>5, <1>7, <2>1, <2>2, InvFromParts
  <1> QED  BY <1>6, <1>7

\* The steps that neither vote nor reject.
LEMMA QuietSteps ==
  ASSUME ConsensusInv,
         \/ \E tx \in Txs : (\E landed \in BOOLEAN : DeliverFiltered(tx, landed)) \/ Forget(tx)
         \/ TakeTrigger \/ UNCHANGED vars
  PROVE  ConsensusInv' /\ entry' = entry /\ ~(Len(channel') > Len(channel))
  <1>1. Sound(entry, rejected) /\ (entry.here => Honest(entry))
    BY EntryFacts
  <1>2. /\ entry.here => entry.min \in Mins
        /\ ~entry.here => entry = NoEntry
        /\ seen \in [Txs -> [pre: BOOLEAN, landed: BOOLEAN]]
        /\ rejected \subseteq Txs /\ channel \in Seq(Trigger)
        /\ \A t \in rejected : seen[t].landed
    BY DEF ConsensusInv, TypeOK, RejectedIsSeen
  <1>0. Len(channel) \in Nat
    BY <1>2
  <1>3. ASSUME NEW tx \in Txs, NEW landed \in BOOLEAN, DeliverFiltered(tx, landed)
        PROVE  ConsensusInv' /\ entry' = entry /\ ~(Len(channel') > Len(channel))
    <2>1. Note(tx, landed) /\ UNCHANGED <<entry, rejected, channel>>
      BY <1>3 DEF DeliverFiltered
    <2>2. /\ seen' \in [Txs -> [pre: BOOLEAN, landed: BOOLEAN]]
          /\ \A t \in Txs : seen[t].landed => seen'[t].landed
      BY <2>1, NoteFacts
    <2> QED  BY <1>0, <1>1, <1>2, <2>1, <2>2, InvFromParts
  <1>4. ASSUME NEW tx \in Txs, Forget(tx)
        PROVE  ConsensusInv' /\ entry' = entry /\ ~(Len(channel') > Len(channel))
    <2>1. /\ seen' = [seen EXCEPT ![tx] = Unseen] /\ rejected' = rejected \ {tx}
          /\ UNCHANGED <<entry, channel>>
      BY <1>4 DEF Forget
    <2>2. seen' \in [Txs -> [pre: BOOLEAN, landed: BOOLEAN]]
      BY <1>2, <2>1 DEF Unseen
    <2>3. \A t \in rejected' : seen'[t].landed
      BY <1>2, <2>1
    <2>4. Sound(entry', rejected')
      BY <1>1, <2>1 DEF Sound
    <2> QED  BY <1>0, <1>1, <1>2, <2>1, <2>2, <2>3, <2>4, InvFromParts
  <1>5. CASE TakeTrigger
    <2>1. /\ channel # <<>> /\ channel' = Tail(channel)
          /\ UNCHANGED <<entry, seen, rejected>>
      BY <1>5 DEF TakeTrigger
    <2>2. channel' \in Seq(Trigger) /\ Len(channel') = Len(channel) - 1
      BY <1>2, <2>1
    <2> QED  BY <1>0, <1>1, <1>2, <2>1, <2>2, InvFromParts
  <1>6. CASE UNCHANGED vars
    BY <1>0, <1>1, <1>2, <1>6, InvFromParts DEF vars
  <1> QED  BY <1>3, <1>4, <1>5, <1>6

\* Time passes, and the cleanup task comes round.
LEMMA TimeSteps ==
  ASSUME ConsensusInv, Cleanup \/ Tick
  PROVE  /\ ConsensusInv' /\ (entry'.triggered => entry.triggered) /\ channel' = channel
  <1>1. Sound(entry, rejected) /\ (entry.here => Honest(entry))
    BY EntryFacts
  <1>2. /\ entry.here => entry.min \in Mins
        /\ ~entry.here => entry = NoEntry
        /\ seen \in [Txs -> [pre: BOOLEAN, landed: BOOLEAN]]
        /\ rejected \subseteq Txs /\ channel \in Seq(Trigger)
        /\ \A t \in rejected : seen[t].landed
    BY DEF ConsensusInv, TypeOK, RejectedIsSeen
  <1>3. UNCHANGED <<seen, rejected, channel>>
    BY DEF Cleanup, Tick
  <1>4. CASE Cleanup
    <2> DEFINE d == [entry EXCEPT !.votes = Fresh(@)]
    <2>1. entry.here /\ entry' = IF Fresh(entry.votes) = {} THEN NoEntry ELSE d
      BY <1>4 DEF Cleanup, Swept
    <2>2. Fresh(entry.votes) \in SUBSET entry.votes
      BY DEF Fresh
    <2>3. Sound(d, rejected) /\ Honest(d)
      BY <1>1, <2>1, <2>2, FewerVotes
    <2>4. d.here /\ d.min = entry.min /\ d.triggered = entry.triggered
      BY <1>1, <2>1 DEF Sound, Entry
    <2>5. Sound(NoEntry, rejected) /\ ~NoEntry.here /\ ~NoEntry.triggered
      BY FS_EmptySet DEF Sound, NoEntry, Entry
    <2> HIDE DEF d
    <2>6. CASE entry' = NoEntry
      BY <1>2, <1>3, <2>5, <2>6, InvFromParts
    <2>7. CASE entry' = d
      BY <1>2, <1>3, <2>1, <2>3, <2>4, <2>7, InvFromParts
    <2> QED  BY <2>1, <2>6, <2>7
  <1>5. CASE Tick
    <2> DEFINE d == [entry EXCEPT !.votes = {Older(v) : v \in @}]
    <2>1. entry' = d /\ Fresh(entry.votes) # {}
      BY <1>5 DEF Tick
    <2>2. Sound(d, rejected) /\ (Honest(entry) => Honest(d))
      BY <1>1, OlderVotes
    <2>3. d.here = entry.here /\ d.min = entry.min /\ d.triggered = entry.triggered
      BY <1>1 DEF Sound, Entry
    <2>4. entry.here
      BY <1>2, <2>1 DEF NoEntry, Fresh
    <2> HIDE DEF d
    <2> QED  BY <1>1, <1>2, <1>3, <2>1, <2>2, <2>3, <2>4, InvFromParts
  <1> QED  BY <1>4, <1>5

\* ConsensusInv holds before the first trade.
LEMMA InitConsensus == Init => ConsensusInv
  <1> SUFFICES ASSUME Init PROVE ConsensusInv
    OBVIOUS
  <1>1. entry = NoEntry /\ rejected = {} /\ channel = <<>>
        /\ seen = [tx \in Txs |-> Unseen]
    BY DEF Init
  <1>2. NoEntry \in Entry /\ NoEntry.votes = {} /\ ~NoEntry.here
    BY DEF NoEntry, Entry
  <1>3. IsFiniteSet({})
    BY FS_EmptySet
  <1>4. seen \in [Txs -> [pre: BOOLEAN, landed: BOOLEAN]] /\ channel \in Seq(Trigger)
    BY <1>1 DEF Unseen
  <1> QED
    BY <1>1, <1>2, <1>3, <1>4
    DEF ConsensusInv, TypeOK, RejectedIsSeen, ReachedMeansTriggered, RejectedStaysOut

\* The invariant is inductive, and a step that sets the flag sends a trigger.
LEMMA ConsensusStep ==
  ASSUME ConsensusInv, [Next]_vars
  PROVE  /\ ConsensusInv'
         /\ \/ channel' = channel /\ (entry'.triggered => entry.triggered)
            \/ entry' = entry /\ ~(Len(channel') > Len(channel))
            \/ /\ Reports(entry, entry') /\ Sound(entry', rejected)
               /\ \A u \in entry'.votes : u.age < Timeout
  <1>1. CASE \E tx \in Txs : \E landed \in BOOLEAN, shape \in Shapes :
               \E age \in 0..MaxDelay : DeliverVote(tx, landed, shape, age)
    BY <1>1, VoteStep
  <1>2. CASE \E tx \in Txs : DeliverFailure(tx)
    BY <1>2, FailureStep
  <1>3. CASE Cleanup \/ Tick
    BY <1>3, TimeSteps
  <1>4. CASE \/ \E tx \in Txs : (\E landed \in BOOLEAN : DeliverFiltered(tx, landed)) \/ Forget(tx)
             \/ TakeTrigger \/ UNCHANGED vars
    BY <1>4, QuietSteps
  <1> QED  BY <1>1, <1>2, <1>3, <1>4, ParseSteps DEF Next

\* ConsensusInv holds in every behaviour.
LEMMA ConsensusCorrect == Spec => []ConsensusInv
  <1>1. ConsensusInv /\ [Next]_vars => ConsensusInv'
    BY ConsensusStep
  <1> QED  BY <1>1, InitConsensus, PTL DEF Spec

(***************************************************************************)
(* Theorems                                                                *)
(***************************************************************************)

\* The engine's entry, the signature cache and the channel have their types,
\* and no wallet ever has two votes: counting votes is counting wallets.
THEOREM ConsensusTypes == Spec => []TypeOK
  <1>1. ConsensusInv => TypeOK
    BY DEF ConsensusInv
  <1> QED  BY <1>1, ConsensusCorrect, PTL

\* A consensus reached, by a vote or by an upgrade of one, has triggered.
THEOREM NoConsensusMissed == Spec => []ReachedMeansTriggered
  <1>1. ConsensusInv => ReachedMeansTriggered
    BY DEF ConsensusInv
  <1> QED  BY <1>1, ConsensusCorrect, PTL

\* The vote of a failed transaction stays out while the signature is remembered.
THEOREM FailedVotesStayOut == Spec => []RejectedStaysOut
  <1>1. ConsensusInv => RejectedStaysOut
    BY DEF ConsensusInv
  <1> QED  BY <1>1, ConsensusCorrect, PTL

\* An appended trigger is the last one, and the channel is longer by it.
LEMMA AppendGrows ==
  ASSUME NEW c \in Seq(Trigger), NEW t
  PROVE  Len(Append(c, t)) > Len(c) /\ Append(c, t)[Len(Append(c, t))] = t
  <1>1. Len(c) \in Nat
    OBVIOUS
  <1>2. c \in Seq(Trigger \cup {t}) /\ t \in Trigger \cup {t}
    BY SeqDef
  <1> QED  BY <1>1, <1>2, AppendProperties

\* The flag never goes up without a trigger, reject_signal's recount included.
THEOREM FlagIsReported == Spec => ConsensusReported
  <1>1. ASSUME ConsensusInv, [Next]_vars
        PROVE  [entry'.triggered /\ ~entry.triggered => Len(channel') > Len(channel)]_vars
    <2>1. channel \in Seq(Trigger)
      BY <1>1 DEF ConsensusInv, TypeOK
    <2>2. Reports(entry, entry') \/ (entry'.triggered => entry.triggered)
      BY <1>1, ConsensusStep
    <2> QED  BY <2>1, <2>2, AppendGrows DEF Reports
  <1> QED  BY <1>1, ConsensusCorrect, PTL DEF Spec, ConsensusReported

\* A vote for each wallet counted: as many wallets as counting votes.
LEMMA AsManyWallets ==
  ASSUME NEW e, NEW rej, Sound(e, rej)
  PROVE  Cardinality({Wallet(v) : v \in Counting(e.votes)}) = Cardinality(Counting(e.votes))
  <1> DEFINE C == Counting(e.votes)
             W == {Wallet(v) : v \in C}
             f == [v \in C |-> Wallet(v)]
  <1>1. C \subseteq e.votes /\ IsFiniteSet(C)
    BY FS_Subset DEF Counting, Sound
  <1>2. f \in Surjection(C, W)
    BY DEF Surjection
  <1>3. \A u, v \in C : f[u] = f[v] => u = v
    BY <1>1 DEF Sound
  <1>4. f \in Injection(C, W)
    BY <1>3 DEF Injection, IsInjective
  <1> QED  BY <1>1, <1>2, <1>4, FS_Surjection

\* Every trigger is justified by live, counting votes of enough wallets, none of
\* which is known to have failed, however votes were upgraded, withdrawn and
\* aged before.
THEOREM TriggersAreJustified == Spec => TriggerJustified
  <1>1. ASSUME ConsensusInv, [Next]_vars
        PROVE  [Len(channel') > Len(channel) =>
                  Justified(channel'[Len(channel')], entry')]_vars
    <2> SUFFICES ASSUME Len(channel') > Len(channel)
                 PROVE  Justified(channel'[Len(channel')], entry')
      OBVIOUS
    <2>1. channel \in Seq(Trigger) /\ Len(channel) \in Nat /\ Cardinality({}) = 0
      BY <1>1, FS_EmptySet DEF ConsensusInv, TypeOK
    <2>0. channel' # channel
      BY <2>1
    <2>2. /\ Reports(entry, entry') /\ Sound(entry', rejected)
          /\ \A u \in entry'.votes : u.age < Timeout
      BY <1>1, <2>0, ConsensusStep
    <2> DEFINE C == Counting(entry'.votes)
               W == {Wallet(v) : v \in C}
    <2>3. PICK best \in Best(C) :
            channel' = Append(channel, [wallets |-> W, canonical |-> best.tx])
      BY <2>0, <2>2, Zenon DEF Reports
    <2>4. channel'[Len(channel')] = [wallets |-> W, canonical |-> best.tx]
      BY <2>1, <2>3, AppendGrows
    <2>5. Cardinality(W) >= entry'.min
      BY <2>1, <2>2, AsManyWallets DEF Reports, Reached
    <2>6. \A w \in W : \E v \in entry'.votes :
            Wallet(v) = w /\ v.counts /\ v.age < Timeout /\ v.tx \notin rejected
      BY <2>2 DEF Counting, Sound
    <2>7. best \in entry'.votes
      BY DEF Best, Counting
    <2> QED  BY <2>4, <2>5, <2>6, <2>7 DEF Justified
  <1> QED  BY <1>1, ConsensusCorrect, PTL DEF Spec, TriggerJustified

(***************************************************************************)
(* A triggered consensus runs out                                          *)
(***************************************************************************)

\* A better vote has less time ahead of it, however old the one it replaces.
LEMMA BetterIsShorter ==
  ASSUME NEW old \in Vote, NEW v \in Vote, ShouldReplace(old, v)
  PROVE  TimeLeft(v) <= TimeLeft(old)
  <1>1. /\ old.score \in 0..15 /\ v.score \in 0..15
        /\ old.age \in 0..Timeout /\ v.age \in 0..Timeout /\ Timeout \in Nat
    BY TimesAssumption DEF Vote
  <1>2. Weight(old.landed, 1) \in {0, 1} /\ Weight(v.landed, 1) \in {0, 1}
    BY DEF Weight
  <1>3. Quality(old) \in 0..31 /\ Quality(v) \in 0..31
    BY <1>1, <1>2 DEF Quality
  <1>4. Quality(v) >= Quality(old) + 1
    <2>1. CASE v.score > old.score
      BY <1>1, <1>2, <2>1 DEF Quality
    <2>2. CASE v.score = old.score /\ v.landed /\ ~old.landed
      BY <1>1, <2>2 DEF Quality, Weight
    <2> QED  BY <2>1, <2>2 DEF ShouldReplace
  <1>5. ASSUME NEW a \in Nat, NEW b \in Nat, NEW c \in Nat, a >= b + 1
        PROVE  a * c >= b * c + c
    <2>1. PICK d \in Nat : a = b + 1 + d
      <3>1. a - b - 1 \in Nat /\ a = b + 1 + (a - b - 1)
        BY <1>5
      <3> QED  BY <3>1
    <2>2. a * c = b * c + c + d * c
      BY <2>1
    <2>3. d * c \in Nat /\ b * c \in Nat
      OBVIOUS
    <2> QED  BY <2>2, <2>3
  <1> DEFINE a == 31 - Quality(old)
             b == 31 - Quality(v)
  <1>6. a \in Nat /\ b \in Nat /\ Timeout + 1 \in Nat /\ a >= b + 1
    BY <1>1, <1>3, <1>4
  <1>7. TimeLeft(old) = a * (Timeout + 1) + (Timeout - old.age)
        /\ TimeLeft(v) = b * (Timeout + 1) + (Timeout - v.age)
    BY DEF TimeLeft
  <1> HIDE DEF a, b
  <1>8. a * (Timeout + 1) >= b * (Timeout + 1) + (Timeout + 1)
    BY <1>5, <1>6
  <1>9. a * (Timeout + 1) \in Nat /\ b * (Timeout + 1) \in Nat
    BY <1>6
  <1> DEFINE x == a * (Timeout + 1)
             y == b * (Timeout + 1)
  <1>10. x \in Nat /\ y \in Nat /\ x >= y + (Timeout + 1)
         /\ TimeLeft(old) = x + (Timeout - old.age) /\ TimeLeft(v) = y + (Timeout - v.age)
    BY <1>7, <1>8, <1>9
  <1> HIDE DEF x, y
  <1> QED  BY <1>1, <1>10

\* A vote's time is an integer, and a tick takes one off it.
LEMMA OlderIsShorter ==
  ASSUME NEW v \in Vote
  PROVE  /\ TimeLeft(v) \in Int
         /\ TimeLeft(Older(v)) <= TimeLeft(v)
         /\ v.age < Timeout => TimeLeft(Older(v)) < TimeLeft(v)
  <1>1. v.score \in 0..15 /\ v.age \in 0..Timeout /\ Timeout \in Nat
    BY TimesAssumption DEF Vote
  <1>2. Weight(v.landed, 1) \in {0, 1}
    BY DEF Weight
  <1>3. Quality(v) \in Int
    BY <1>1, <1>2 DEF Quality
  <1>4. Older(v).score = v.score /\ Older(v).landed = v.landed
        /\ Older(v).age = IF v.age < Timeout THEN v.age + 1 ELSE v.age
    BY DEF Older, Vote
  <1>5. Quality(Older(v)) = Quality(v)
    BY <1>4 DEF Quality
  <1> DEFINE x == (31 - Quality(v)) * (Timeout + 1)
  <1>6. x \in Int
    BY <1>1, <1>3
  <1>7. TimeLeft(v) = x + (Timeout - v.age) /\ TimeLeft(Older(v)) = x + (Timeout - Older(v).age)
    BY <1>5 DEF TimeLeft
  <1> HIDE DEF x
  <1> QED  BY <1>1, <1>4, <1>6, <1>7

\* A signal that meets a triggered entry finds its votes there, or what is left
\* of them, and may do no more than improve one.
LEMMA SignalAddsNoTime ==
  ASSUME ConsensusInv, NEW v \in Vote, v.tx \notin rejected, SubmitSignal(v),
         entry.triggered, NEW u \in entry'.votes
  PROVE  \E old \in entry.votes : Wallet(old) = Wallet(u) /\ TimeLeft(u) <= TimeLeft(old)
  <1>1. PICK min \in Mins :
          LET e == EntryFor(min) IN
          IF Welcome(e, v) THEN Cast(e, v) ELSE entry' = e /\ UNCHANGED channel
    BY DEF SubmitSignal
  <1> DEFINE e == EntryFor(min)
             d == [e EXCEPT !.votes = (@ \ VotesOf(@, Wallet(v))) \cup {v}]
  <1>2. Sound(e, rejected) /\ e.triggered
    BY EntryForFacts
  <1>3. e.votes \subseteq entry.votes
    <2>1. entry.here /\ entry \in Entry
      BY DEF ConsensusInv, TypeOK, NoEntry
    <2> QED  BY <2>1 DEF EntryFor, Fresh, Entry
  <1>4. \A w \in entry.votes : w \in Vote /\ TimeLeft(w) \in Int
    <2>1. \A w \in entry.votes : w \in Vote
      BY DEF ConsensusInv, TypeOK, Entry
    <2> QED  BY <2>1, OlderIsShorter
  <1>5. CASE Welcome(e, v)
    <2>1. Tally(d)
      BY <1>1, <1>5 DEF Cast
    <2> HIDE DEF e
    <2>2. PICK old \in e.votes : Wallet(old) = Wallet(v) /\ ShouldReplace(old, v)
      <3>1. VotesOf(e.votes, Wallet(v)) # {}
        BY <1>2, <1>5 DEF Welcome
      <3> QED  BY <1>5, <3>1 DEF Welcome, VotesOf
    <2>3. Sound(d, rejected)
      BY <1>2, VoteInPlace
    <2>4. d.votes = (e.votes \ VotesOf(e.votes, Wallet(v))) \cup {v}
      BY <1>2 DEF Sound, Entry
    <2> HIDE DEF d
    <2>5. entry'.votes = d.votes
      BY <2>1, <2>3, TallyResult
    <2>6. CASE u = v
      <3>1. old \in entry.votes /\ TimeLeft(v) <= TimeLeft(old)
        BY <1>3, <1>4, <2>2, BetterIsShorter
      <3> QED  BY <2>2, <2>6, <3>1
    <2>7. CASE u \in e.votes
      BY <1>3, <1>4, <2>7
    <2> QED  BY <2>4, <2>5, <2>6, <2>7
  <1>6. CASE ~Welcome(e, v)
    <2>1. entry' = e
      BY <1>1, <1>6
    <2> HIDE DEF e
    <2> QED  BY <1>3, <1>4, <2>1
  <1> QED  BY <1>5, <1>6

\* The steps that may leave a triggered entry as it is, or take votes from it.
LEMMA OthersOnlyTake ==
  ASSUME ConsensusInv, entry.triggered, entry'.triggered,
         \/ \E tx \in Txs : DeliverFailure(tx) \/ Forget(tx)
                            \/ \E landed \in BOOLEAN : DeliverFiltered(tx, landed)
         \/ TakeTrigger \/ Cleanup \/ UNCHANGED vars
  PROVE  entry'.votes \subseteq entry.votes
  <1>1. entry \in Entry /\ entry.here
    BY DEF ConsensusInv, TypeOK, NoEntry
  <1>2. ASSUME NEW tx \in Txs, DeliverFailure(tx) PROVE entry'.votes \subseteq entry.votes
    BY <1>1, <1>2 DEF DeliverFailure, RejectSignal, Without, Entry
  <1>3. CASE Cleanup
    BY <1>1, <1>3 DEF Cleanup, Swept, Fresh, Entry, NoEntry
  <1> QED  BY <1>2, <1>3 DEF Forget, DeliverFiltered, TakeTrigger, vars

\* While its flag is up, an entry gets no new wallet and its votes no new time,
\* and every tick takes time from each vote that has not expired: what is left
\* of TriggeredEnds is that ticks and cleanup passes go on coming.
THEOREM TriggeredIsFinite == Spec => TriggeredRunsOut
  <1>1. ASSUME ConsensusInv, [Next]_vars
        PROVE  [entry.triggered /\ entry'.triggered =>
                  \A v \in entry'.votes : \E old \in entry.votes :
                    /\ Wallet(old) = Wallet(v)
                    /\ TimeLeft(v) <= TimeLeft(old)
                    /\ Tick /\ old.age < Timeout => TimeLeft(v) < TimeLeft(old)]_vars
    <2> SUFFICES ASSUME entry.triggered, entry'.triggered, NEW v \in entry'.votes
                 PROVE  \E old \in entry.votes :
                          /\ Wallet(old) = Wallet(v)
                          /\ TimeLeft(v) <= TimeLeft(old)
                          /\ Tick /\ old.age < Timeout => TimeLeft(v) < TimeLeft(old)
      OBVIOUS
    <2>1. entry \in Entry /\ \A w \in entry.votes : w \in Vote
      BY <1>1 DEF ConsensusInv, TypeOK, Entry
    <2>2. CASE Tick
      <3>1. PICK old \in entry.votes : v = Older(old)
        BY <2>1, <2>2 DEF Tick, Entry
      <3>2. Wallet(old) = Wallet(v)
        BY <2>1, <3>1 DEF Older, Wallet, Vote
      <3> QED  BY <2>1, <3>1, <3>2, OlderIsShorter
    <2>3. ASSUME ~Tick, \E tx \in Txs : \E landed \in BOOLEAN, shape \in Shapes :
                         \E age \in 0..MaxDelay : DeliverVote(tx, landed, shape, age)
          PROVE  \E old \in entry.votes : Wallet(old) = Wallet(v) /\ TimeLeft(v) <= TimeLeft(old)
      <3>1. PICK tx \in Txs, landed \in BOOLEAN, shape \in Shapes, age \in 0..MaxDelay :
              DeliverVote(tx, landed, shape, age)
        BY <2>3
      <3> DEFINE w == NewVote(tx, shape, landed, age)
      <3>2. w \in Vote /\ w.tx = tx
        BY NewVoteType DEF NewVote
      <3>3. SubmitSignal(w) /\ Note(tx, landed)
        BY <3>1 DEF DeliverVote
      <3> HIDE DEF w
      <3>4. w.tx \notin rejected
        BY <1>1, <3>2, <3>3, NoteFacts
      <3> QED  BY <1>1, <3>2, <3>3, <3>4, SignalAddsNoTime
    <2>4. ASSUME \/ \E tx \in Txs : DeliverFailure(tx) \/ Forget(tx)
                                    \/ \E landed \in BOOLEAN : DeliverFiltered(tx, landed)
                 \/ TakeTrigger \/ Cleanup \/ UNCHANGED vars
          PROVE  \E old \in entry.votes : Wallet(old) = Wallet(v) /\ TimeLeft(v) <= TimeLeft(old)
      <3>1. v \in entry.votes
        BY <1>1, <2>4, OthersOnlyTake
      <3> QED  BY <2>1, <3>1, OlderIsShorter
    <2> QED  BY <1>1, <2>2, <2>3, <2>4, ParseSteps DEF Next
  <1> QED  BY <1>1, ConsensusCorrect, PTL DEF Spec, TriggeredRunsOut

(***************************************************************************)
(* The engine keeps the promise of Voting                                  *)
(***************************************************************************)

\* The calls of a channel grow and shrink with it.
LEMMA CallsFollow ==
  ASSUME NEW c \in Seq(Trigger), NEW t \in Trigger
  PROVE  /\ Calls(Append(c, t)) = Append(Calls(c), t.wallets)
         /\ c # <<>> => Calls(c) # <<>> /\ Calls(Tail(c)) = Tail(Calls(c))
  <1> DEFINE d == [i \in 1..Len(c) |-> c[i].wallets]
             T == SUBSET Wallets
  <1>1. \A i \in 1..Len(c) : c[i] \in Trigger
    OBVIOUS
  <1>2. \A u \in Trigger : u.wallets \in T
    BY DEF Trigger
  <1>3. Len(c) \in Nat /\ d \in Seq(T) /\ Len(d) = Len(c) /\ Calls(c) = d
    BY <1>1, <1>2 DEF Calls
  <1>4. Calls(Append(c, t)) = Append(d, t.wallets)
    <2>1. Append(c, t) \in Seq(Trigger) /\ Len(Append(c, t)) = Len(c) + 1
          /\ Append(c, t)[Len(c) + 1] = t /\ \A i \in 1..Len(c) : Append(c, t)[i] = c[i]
      BY <1>3
    <2>2. Append(d, t.wallets) \in Seq(T) /\ Len(Append(d, t.wallets)) = Len(c) + 1
          /\ Append(d, t.wallets)[Len(c) + 1] = t.wallets
          /\ \A i \in 1..Len(c) : Append(d, t.wallets)[i] = d[i]
      BY <1>2, <1>3
    <2> DEFINE a == Calls(Append(c, t))
               b == Append(d, t.wallets)
    <2>3. a = [i \in 1..(Len(c) + 1) |-> Append(c, t)[i].wallets]
      BY <2>1 DEF Calls
    <2>4. b = [i \in 1..(Len(c) + 1) |-> b[i]]
      BY <2>2, <1>3
    <2>5. \A i \in 1..(Len(c) + 1) : Append(c, t)[i].wallets = b[i]
      <3> SUFFICES ASSUME NEW i \in 1..(Len(c) + 1) PROVE Append(c, t)[i].wallets = b[i]
        OBVIOUS
      <3>1. i \in 1..Len(c) \/ i = Len(c) + 1
        BY <1>3
      <3> QED  BY <2>1, <2>2, <3>1
    <2> HIDE DEF a, b
    <2> QED  BY <2>3, <2>4, <2>5 DEF a, b
  <1>5. ASSUME c # <<>> PROVE d # <<>> /\ Calls(Tail(c)) = Tail(d)
    <2>1. Len(c) > 0 /\ d # <<>>
      BY <1>3, <1>5
    <2>2. Tail(c) \in Seq(Trigger) /\ Len(Tail(c)) = Len(c) - 1
          /\ \A i \in 1..(Len(c) - 1) : Tail(c)[i] = c[i + 1]
      BY <1>3, <1>5, <2>1
    <2>3. Tail(d) \in Seq(T) /\ Len(Tail(d)) = Len(c) - 1
          /\ \A i \in 1..(Len(c) - 1) : Tail(d)[i] = d[i + 1]
      BY <1>3, <2>1
    <2>4. \A i \in 1..(Len(c) - 1) : i + 1 \in 1..Len(c)
      BY <1>3
    <2>5. Calls(Tail(c)) = [i \in 1..(Len(c) - 1) |-> Tail(c)[i].wallets]
      BY <2>2 DEF Calls
    <2>6. Tail(d) = [i \in 1..(Len(c) - 1) |-> Tail(d)[i]]
      BY <2>3
    <2>7. \A i \in 1..(Len(c) - 1) : Tail(c)[i].wallets = Tail(d)[i]
      BY <2>2, <2>3, <2>4
    <2> QED  BY <2>1, <2>5, <2>6, <2>7
  <1> QED  BY <1>3, <1>4, <1>5

\* Voting counts wallets as Consensus counts votes.
LEMMA SameSize == \A S : Promise!Cardinality(S) = Cardinality(S)
  BY DEF Promise!Cardinality, Cardinality

\* Enough wallets are enough votes.
LEMMA EnoughIsReached ==
  ASSUME NEW e, NEW rej, Sound(e, rej)
  PROVE  Promise!Enough(e.min, WalletsOf(Counting(e.votes))) <=> Reached(e)
  <1>1. Cardinality({Wallet(v) : v \in Counting(e.votes)}) = Cardinality(Counting(e.votes))
    BY AsManyWallets
  <1>2. WalletsOf(Counting(e.votes)) = {Wallet(v) : v \in Counting(e.votes)}
    BY DEF WalletsOf
  <1> QED  BY <1>1, <1>2, SameSize DEF Promise!Enough, Reached

\* The votes that are left count as they did.
LEMMA CountedOfFewer ==
  ASSUME NEW e, NEW rej, Sound(e, rej), NEW S \in SUBSET e.votes
  PROVE  /\ WalletsOf(S) \subseteq WalletsOf(e.votes)
         /\ WalletsOf(Counting(S)) = WalletsOf(Counting(e.votes)) \cap WalletsOf(S)
  BY DEF Sound, WalletsOf, Counting

\* A signal changes the votes by at most its own, and never takes the flag down.
LEMMA SignalVotes ==
  ASSUME ConsensusInv, NEW v \in Vote, v.tx \notin rejected, SubmitSignal(v)
  PROVE  /\ entry'.votes \subseteq entry.votes \cup {v}
         /\ entry.triggered => entry'.triggered
         /\ entry.here => entry'.min = entry.min
  <1>1. PICK min \in Mins :
          LET e == EntryFor(min) IN
          IF Welcome(e, v) THEN Cast(e, v) ELSE entry' = e /\ UNCHANGED channel
    BY DEF SubmitSignal
  <1> DEFINE e == EntryFor(min)
             d == [e EXCEPT !.votes = (@ \ VotesOf(@, Wallet(v))) \cup {v}]
  <1>2. Sound(e, rejected) /\ (e.triggered <=> entry.triggered)
    BY EntryForFacts
  <1>3. e.votes \subseteq entry.votes /\ (entry.here => e.min = entry.min)
    <2>1. entry \in Entry
      BY DEF ConsensusInv, TypeOK
    <2> QED  BY <2>1 DEF EntryFor, Fresh, Entry, NoEntry
  <1>4. CASE Welcome(e, v)
    <2>1. Tally(d)
      BY <1>1, <1>4 DEF Cast
    <2> HIDE DEF e
    <2>2. Sound(d, rejected)
      BY <1>2, VoteInPlace
    <2>3. /\ d.votes = (e.votes \ VotesOf(e.votes, Wallet(v))) \cup {v}
          /\ d.triggered = e.triggered /\ d.min = e.min /\ d \in Entry
      BY <1>2, <2>2 DEF Sound, Entry
    <2> HIDE DEF d
    <2>4. entry'.votes = d.votes /\ entry'.min = d.min
      BY <2>1, <2>2, TallyResult
    <2>5. d.triggered => entry'.triggered
      BY <2>1 DEF Tally
    <2> QED  BY <1>2, <1>3, <2>3, <2>4, <2>5
  <1>5. CASE ~Welcome(e, v)
    <2>1. entry' = e
      BY <1>1, <1>5
    <2> HIDE DEF e
    <2> QED  BY <1>2, <1>3, <2>1
  <1> QED  BY <1>4, <1>5

\* A delivered vote is a vote in Voting, with the call if it completes one.
LEMMA VoteVotes ==
  ASSUME ConsensusInv, NEW tx \in Txs, NEW landed \in BOOLEAN, NEW shape \in Shapes,
         NEW age \in 0..MaxDelay, DeliverVote(tx, landed, shape, age)
  PROVE  \E w \in Wallets : Promise!Vote(w)
  <1> DEFINE v == NewVote(tx, shape, landed, age)
             w == Wallet(v)
  <1>1. Note(tx, landed) /\ SubmitSignal(v)
    BY DEF DeliverVote
  <1>2. v \in Vote /\ v.tx = tx
    BY NewVoteType DEF NewVote
  <1>3. w \in Wallets
    BY <1>2 DEF Wallet, Txs
  <1> HIDE DEF v
  <1>4. v.tx \notin rejected
    BY <1>1, <1>2, NoteFacts
  <1>5. /\ Sound(entry, rejected) /\ Reports(entry, entry') /\ Sound(entry', rejected)
        /\ entry'.here /\ entry'.min \in Mins /\ Honest(entry')
    <2>1. ConsensusInv'
      BY VoteStep
    <2>2. entry'.here /\ entry'.min \in Mins /\ Honest(entry')
      <3>1. v.age < Timeout
        BY TimesAssumption DEF v, NewVote
      <3> QED  BY <1>1, <1>2, <1>4, <3>1, SubmitResult
    <2> QED  BY <2>2, VoteStep, EntryFacts
  <1>6. /\ entry'.votes \subseteq entry.votes \cup {v}
        /\ entry.triggered => entry'.triggered
        /\ entry.here => entry'.min = entry.min
    BY <1>1, <1>2, <1>4, SignalVotes
  <1>7. IF entry.min = 0 THEN entry'.min \in Mins ELSE entry'.min = entry.min
    <2>1. /\ ~entry.here => entry.min = 0
          /\ entry.here => entry.min # 0
      BY MinsAssumption DEF ConsensusInv, TypeOK, NoEntry
    <2> QED  BY <1>5, <1>6, <2>1
  <1>8. WalletsOf(entry'.votes)
          \in SUBSET (IF entry.triggered THEN WalletsOf(entry.votes)
                      ELSE WalletsOf(entry.votes) \cup {w})
    <2>1. WalletsOf(entry'.votes) \subseteq WalletsOf(entry.votes) \cup {w}
      BY <1>6 DEF WalletsOf
    <2>2. ASSUME entry.triggered PROVE WalletsOf(entry'.votes) \subseteq WalletsOf(entry.votes)
      <3>1. \A u \in entry'.votes : \E old \in entry.votes : Wallet(old) = Wallet(u)
        BY <1>1, <1>2, <1>4, <2>2, SignalAddsNoTime
      <3> QED  BY <3>1 DEF WalletsOf
    <2> QED  BY <2>1, <2>2
  <1>9. WalletsOf(Counting(entry'.votes))
          \in SUBSET (WalletsOf(entry'.votes) \cap (WalletsOf(Counting(entry.votes)) \cup {w}))
    BY <1>6 DEF WalletsOf, Counting
  <1>10. IF ~entry.triggered
              /\ Promise!Enough(entry'.min, WalletsOf(Counting(entry'.votes)))
         THEN entry'.triggered = TRUE
              /\ Calls(channel') = Append(Calls(channel), WalletsOf(Counting(entry'.votes)))
         ELSE entry'.triggered = entry.triggered /\ Calls(channel') = Calls(channel)
    <2>0. entry.triggered \in BOOLEAN /\ entry'.triggered \in BOOLEAN
      BY <1>5 DEF Sound, Entry
    <2>1. Promise!Enough(entry'.min, WalletsOf(Counting(entry'.votes))) <=> Reached(entry')
      BY <1>5, EnoughIsReached
    <2>2. CASE ~entry.triggered /\ Reached(entry')
      <3>1. entry'.triggered
        BY <1>5, <2>2 DEF Honest
      <3>2. PICK best \in Best(Counting(entry'.votes)) :
              channel' = Append(channel, [wallets |-> {Wallet(u) : u \in Counting(entry'.votes)},
                                          canonical |-> best.tx])
        BY <1>5, <2>2, <3>1, Zenon DEF Reports
      <3> DEFINE t == [wallets |-> {Wallet(u) : u \in Counting(entry'.votes)},
                       canonical |-> best.tx]
      <3>3. t \in Trigger /\ t.wallets = WalletsOf(Counting(entry'.votes))
        <4>1. \A u \in Counting(entry'.votes) : u.tx \in Txs /\ Wallet(u) \in Wallets
          BY <1>5 DEF Sound, Entry, Counting, Vote, Wallet, Txs
        <4> QED  BY <4>1 DEF Trigger, WalletsOf, Best
      <3> HIDE DEF t
      <3>4. channel \in Seq(Trigger) /\ channel' = Append(channel, t)
        BY <3>2 DEF ConsensusInv, TypeOK, t
      <3>5. Calls(channel') = Append(Calls(channel), t.wallets)
        BY <3>3, <3>4, CallsFollow
      <3> QED  BY <2>0, <2>1, <2>2, <3>1, <3>3, <3>5
    <2>3. CASE ~(~entry.triggered /\ Reached(entry'))
      <3>1. channel' = channel /\ (entry'.triggered => entry.triggered)
        BY <1>5, <2>3 DEF Reports
      <3> QED  BY <1>6, <2>0, <2>1, <2>3, <3>1
    <2> QED  BY <2>2, <2>3
  <1> HIDE DEF w
  <1> QED  BY <1>3, <1>7, <1>8, <1>9, <1>10 DEF Promise!Vote

\* A failure delivered withdraws a vote, or nothing.
LEMMA FailureWithdraws ==
  ASSUME ConsensusInv, NEW tx \in Txs, DeliverFailure(tx)
  PROVE  (\E w \in Wallets : Promise!Withdraw(w)) \/ UNCHANGED Promise!wvars
  <1> DEFINE w == tx[1]
             S == Without(entry.votes, tx)
  <1>1. w \in Wallets /\ channel' = channel
    BY DEF Txs, DeliverFailure
  <1>2. Sound(entry, rejected) /\ S \in SUBSET entry.votes /\ entry \in Entry
    BY EntryFacts DEF Without, Sound
  <1>3. CASE ~entry.here
    <2>1. entry' = entry
      BY <1>3 DEF DeliverFailure, RejectSignal
    <2> QED  BY <1>1, <2>1 DEF Promise!wvars
  <1>4. CASE entry.here
    <2>1. /\ entry'.votes = S /\ entry'.min = entry.min
          /\ entry'.triggered = Reached([entry EXCEPT !.votes = S])
      BY <1>2, <1>4 DEF DeliverFailure, RejectSignal, Entry
    <2>2. [entry EXCEPT !.votes = S].votes = S /\ [entry EXCEPT !.votes = S].min = entry.min
      BY <1>2 DEF Entry
    <2>3. Sound([entry EXCEPT !.votes = S], rejected)
      BY <1>2, FewerVotes
    <2> HIDE DEF S
    <2>4. entry'.triggered <=> Promise!Enough(entry.min, WalletsOf(Counting(S)))
      BY <2>1, <2>2, <2>3, EnoughIsReached
    <2>5. entry'.triggered => entry.triggered
      BY FailureStep
    <2>6. entry'.triggered = (entry.triggered /\ Promise!Enough(entry.min, WalletsOf(Counting(S))))
      <3>1. entry'.triggered \in BOOLEAN
        BY <2>1 DEF Reached
      <3> QED  BY <2>4, <2>5, <3>1
    <2>7. WalletsOf(S) \in {WalletsOf(entry.votes), WalletsOf(entry.votes) \ {w}}
      <3>1. CASE \E v \in entry.votes : v.tx = tx
        <4>1. PICK v \in entry.votes : v.tx = tx
          BY <3>1
        <4>2. \A u \in entry.votes : u.tx = tx <=> Wallet(u) = w
          BY <1>2, <4>1 DEF Sound, Wallet
        <4>3. WalletsOf(S) = WalletsOf(entry.votes) \ {w}
          BY <4>2 DEF WalletsOf, S, Without
        <4> QED  BY <4>3
      <3>2. CASE ~\E v \in entry.votes : v.tx = tx
        <4>1. S = entry.votes
          BY <3>2 DEF S, Without
        <4> QED  BY <4>1
      <3> QED  BY <3>1, <3>2
    <2>8. WalletsOf(Counting(S)) = WalletsOf(Counting(entry.votes)) \cap WalletsOf(S)
      BY <1>2, CountedOfFewer
    <2>9. Promise!Withdraw(w)
      BY <1>1, <2>1, <2>6, <2>7, <2>8 DEF Promise!Withdraw
    <2> QED  BY <1>1, <2>9
  <1> QED  BY <1>3, <1>4

\* The cleanup task lets votes expire, or ends the voting; time alone does nothing.
LEMMA TimeExpires ==
  ASSUME ConsensusInv, Cleanup \/ Tick
  PROVE  Promise!Expire \/ Promise!End \/ UNCHANGED Promise!wvars
  <1>1. Sound(entry, rejected) /\ entry \in Entry /\ channel' = channel
    BY EntryFacts DEF Sound, Cleanup, Tick
  <1>2. CASE Cleanup
    <2>1. CASE Fresh(entry.votes) = {}
      <3>1. entry' = NoEntry
        BY <1>2, <2>1 DEF Cleanup, Swept
      <3>2. entry'.votes = {} /\ entry'.min = 0 /\ entry'.triggered = FALSE
        BY <3>1 DEF NoEntry
      <3> QED  BY <1>1, <3>2 DEF Promise!End, WalletsOf, Counting
    <2>2. CASE Fresh(entry.votes) # {}
      <3> DEFINE S == Fresh(entry.votes)
      <3>1. entry'.votes = S /\ entry'.min = entry.min /\ entry'.triggered = entry.triggered
        BY <1>1, <1>2, <2>2 DEF Cleanup, Swept, Entry
      <3>2. S \in SUBSET entry.votes
        BY DEF Fresh
      <3> HIDE DEF S
      <3>3. /\ WalletsOf(S) \subseteq WalletsOf(entry.votes)
            /\ WalletsOf(Counting(S)) = WalletsOf(Counting(entry.votes)) \cap WalletsOf(S)
        BY <1>1, <3>2, CountedOfFewer
      <3> QED  BY <1>1, <3>1, <3>3 DEF Promise!Expire
    <2> QED  BY <2>1, <2>2
  <1>3. CASE Tick
    <2>1. /\ entry'.votes = {Older(v) : v \in entry.votes}
          /\ entry'.min = entry.min /\ entry'.triggered = entry.triggered
      BY <1>1, <1>3 DEF Tick, Entry
    <2>2. \A v \in entry.votes : Wallet(Older(v)) = Wallet(v) /\ Older(v).counts = v.counts
      BY <1>1 DEF Entry, Vote, Older, Wallet
    <2>3. /\ WalletsOf(entry'.votes) = WalletsOf(entry.votes)
          /\ WalletsOf(Counting(entry'.votes)) = WalletsOf(Counting(entry.votes))
      BY <2>1, <2>2 DEF WalletsOf, Counting
    <2> QED  BY <1>1, <2>1, <2>3 DEF Promise!wvars
  <1> QED  BY <1>2, <1>3

\* The engine, with the loop that feeds it, implements Voting: the buy side gets
\* one call for a consensus, with the vote that completes it and the wallets that
\* count then, and no further one before the votes have become too few or are gone.
THEOREM VotingImplemented == Spec => ImplementsVoting
  <1>1. Init => Promise!Init
    BY DEF Init, Promise!Init, NoEntry, WalletsOf, Counting, Calls
  <1>2. ConsensusInv /\ [Next]_vars => [Promise!Next]_Promise!wvars
    <2> SUFFICES ASSUME ConsensusInv, [Next]_vars
                 PROVE  Promise!Next \/ UNCHANGED Promise!wvars
      OBVIOUS
    <2>1. CASE \E tx \in Txs : \E landed \in BOOLEAN, shape \in Shapes :
                 \E age \in 0..MaxDelay : DeliverVote(tx, landed, shape, age)
      BY <2>1, VoteVotes DEF Promise!Next
    <2>2. CASE \E tx \in Txs : DeliverFailure(tx)
      BY <2>2, FailureWithdraws DEF Promise!Next
    <2>3. CASE Cleanup \/ Tick
      BY <2>3, TimeExpires DEF Promise!Next
    <2>4. CASE TakeTrigger
      <3>1. channel \in Seq(Trigger) /\ channel # <<>> /\ channel' = Tail(channel)
            /\ entry' = entry
        BY <2>4 DEF TakeTrigger, ConsensusInv, TypeOK
      <3>2. channel[1] \in Trigger
        BY <3>1
      <3>3. Calls(channel) # <<>> /\ Calls(channel') = Tail(Calls(channel))
        BY <3>1, <3>2, CallsFollow
      <3> QED  BY <3>1, <3>3 DEF Promise!Take, Promise!Next
    <2>5. CASE \/ \E tx \in Txs : (\E landed \in BOOLEAN : DeliverFiltered(tx, landed)) \/ Forget(tx)
               \/ UNCHANGED vars
      <3>1. entry' = entry /\ channel' = channel
        BY <2>5 DEF DeliverFiltered, Forget, vars
      <3> QED  BY <3>1 DEF Promise!wvars
    <2> QED  BY <2>1, <2>2, <2>3, <2>4, <2>5, ParseSteps DEF Next
  <1> QED  BY <1>1, <1>2, ConsensusCorrect, PTL DEF Spec, Promise!Spec, ImplementsVoting

=============================================================================
