---------------------------- MODULE GroupsProofs ----------------------------
(***************************************************************************)
(* Proofs about Groups, for any number of groups, wallets, commands and    *)
(* faults: the selected group, recovery from the file, and what a batch    *)
(* that is delivered again does.                                           *)
(***************************************************************************)
EXTENDS Groups, FiniteSetTheorems, WellFoundedInduction, TLAPS

(***************************************************************************)
(* Operators                                                               *)
(***************************************************************************)

\* A book with a selected group.
GoodBook(b) == IsBook(b) /\ b.selected \in Present(b)

\* A nonempty set of numbers has a least one.
LEMMA LeastIsMember ==
  ASSUME NEW S, S \subseteq Nat, S # {}
  PROVE  Least(S) \in S
<1> DEFINE R == {ss \in Nat \X Nat : ss[1] < ss[2]}
<1>3. \A i \in Nat : \A j \in Nat : j < i => <<j, i>> \in R
  OBVIOUS
<1>0. IsWellFoundedOn(R, Nat)
  BY NatLessThanWellFounded, Zenon DEF OpToRel
<1> HIDE DEF R
<1>1. \E i \in S : \A j \in S : ~ (<<j, i>> \in R)
  BY <1>0, WFMin, Zenon
<1>2. \E i \in S : \A j \in S : i <= j
  <2>1. PICK i \in S : \A j \in S : ~ (<<j, i>> \in R)
    BY <1>1
  <2>2. \A j \in S : ~ (j < i)
    BY <2>1, <1>3, Zenon
  <2>3. \A j \in S : i <= j
    BY <2>2
  <2> QED BY <2>3
<1> QED BY <1>2 DEF Least

\* Putting a group into a book keeps it a book, with the group in it.
LEMMA WithGroupIsBook ==
  ASSUME NEW b, IsBook(b), NEW i \in Ids, NEW g \in Group
  PROVE  /\ IsBook(WithGroup(b, i, g))
         /\ Present(WithGroup(b, i, g)) = Present(b) \cup {i}
         /\ WithGroup(b, i, g).selected = b.selected
         /\ WithGroup(b, i, g).groups[i] = g
         /\ \A j \in Present(b) \ {i} : WithGroup(b, i, g).groups[j] = b.groups[j]
<1> DEFINE fs == [j \in Present(b) \cup {i} |-> IF j = i THEN g ELSE b.groups[j]]
           r == [groups |-> fs, selected |-> b.selected]
<1>1. WithGroup(b, i, g) = r
  BY DEF WithGroup, IsBook
<1>2. DOMAIN fs = Present(b) \cup {i} /\ Present(b) \subseteq Ids
  BY DEF IsBook, Present
<1>3. fs \in [DOMAIN fs -> Group]
  BY <1>2 DEF IsBook, Present
<1>4. IsBook(r)
  BY <1>2, <1>3 DEF IsBook
<1>5. fs[i] = g /\ \A j \in Present(b) \ {i} : fs[j] = b.groups[j]
  OBVIOUS
<1> HIDE DEF fs
<1> QED BY <1>1, <1>2, <1>4, <1>5 DEF Present

\* Load restores what was saved.
LEMMA LoadWhole ==
  ASSUME NEW b, GoodBook(b)
  PROVE  Load(Whole(b)) = b
  BY DEF Load, Whole, GoodBook, IsBook

\* The book of a first start.
LEMMA DefaultIsGood == GoodBook(DefaultBook)
<1> DEFINE fs == [i \in {1} |-> [wallets |-> DefaultWallets, on |-> TRUE]]
<1>1. DOMAIN fs = {1} /\ {1} \subseteq Ids
  BY GroupsAssumption DEF Ids
<1>2. fs \in [{1} -> Group]
  BY GroupsAssumption DEF Group
<1> HIDE DEF fs
<1>3. DefaultBook = [groups |-> fs, selected |-> 1]
  BY DEF DefaultBook, fs
<1> QED BY <1>1, <1>2, <1>3 DEF GoodBook, IsBook, Present

\* Whatever is in the file, the bot starts with a good book.
LEMMA LoadIsGood ==
  ASSUME NEW f, IsBook(f.book)
  PROVE  GoodBook(Load(f))
<1>1. CASE f.is # "whole" \/ Present(f.book) = {}
  BY <1>1, DefaultIsGood DEF Load
<1>2. CASE ~(f.is # "whole" \/ Present(f.book) = {})
  <2> DEFINE s == IF f.book.selected \in Present(f.book) THEN f.book.selected
                  ELSE First(f.book)
  <2>1. Load(f) = [f.book EXCEPT !.selected = s]
    BY <1>2 DEF Load
  <2>2. Present(f.book) \subseteq Nat /\ Present(f.book) # {}
    BY <1>2, GroupsAssumption DEF IsBook, Present, Ids
  <2>3. s \in Present(f.book)
    BY <2>2, LeastIsMember DEF First
  <2> HIDE DEF s
  <2>4. Load(f) = [groups |-> f.book.groups, selected |-> s]
    BY <2>1 DEF IsBook
  <2> QED BY <2>3, <2>4 DEF GoodBook, IsBook, Present
<1> QED BY <1>1, <1>2

\* The groups of a book are groups, and finitely many.
LEMMA BookFacts ==
  ASSUME NEW b, IsBook(b)
  PROVE  /\ Present(b) \subseteq Ids
         /\ IsFiniteSet(Present(b))
         /\ \A i \in Present(b) : b.groups[i] \in Group
<1>1. Present(b) \subseteq Ids /\ b.groups \in [Present(b) -> Group]
  BY DEF IsBook, Present
<1>2. IsFiniteSet(Ids)
  BY FS_Interval, GroupsAssumption DEF Ids
<1> QED BY <1>1, <1>2, FS_Subset

\* Deleting a group that is not the last one leaves a good book without it.
LEMMA DeleteIsGood ==
  ASSUME NEW b, GoodBook(b), NEW i \in Present(b), ~(Cardinality(Present(b)) <= 1)
  PROVE  GoodBook(DeleteGroup(b, i)) /\ Present(DeleteGroup(b, i)) = Present(b) \ {i}
<1> DEFINE fs == [j \in Present(b) \ {i} |-> b.groups[j]]
           rest == [groups |-> fs, selected |-> b.selected]
           s == IF b.selected = i THEN First(rest) ELSE b.selected
<1>1. Present(b) \subseteq Ids /\ IsFiniteSet(Present(b)) /\ \A j \in Present(b) : b.groups[j] \in Group
  BY BookFacts DEF GoodBook
<1>2. DOMAIN fs = Present(b) \ {i} /\ fs \in [DOMAIN fs -> Group]
  BY <1>1
<1>3. Present(b) \ {i} # {}
  <2>1. Cardinality(Present(b) \ {i}) = Cardinality(Present(b)) - 1
    BY <1>1, FS_RemoveElement
  <2>2. Cardinality(Present(b)) \in Nat
    BY <1>1, FS_CardinalityType
  <2>3. Cardinality({}) = 0
    BY FS_EmptySet
  <2> QED BY <2>1, <2>2, <2>3
<1>4. Present(rest) = Present(b) \ {i}
  BY <1>2 DEF Present
<1>5. [b EXCEPT !.groups = fs] = rest
  BY DEF GoodBook, IsBook
<1>6. Present(rest) \subseteq Nat /\ Present(rest) # {}
  <2>1. Ids \subseteq Nat
    BY GroupsAssumption DEF Ids
  <2> HIDE DEF fs, rest, s
  <2> QED BY <1>1, <1>3, <1>4, <2>1
<1>7. First(rest) \in Present(rest)
  BY <1>6, LeastIsMember DEF First
<1>8. s \in Present(rest)
  BY <1>4, <1>7 DEF GoodBook
<1> HIDE DEF fs
<1>9. DeleteGroup(b, i) = [groups |-> fs, selected |-> s]
  BY <1>5 DEF DeleteGroup, fs
<1> HIDE DEF s
<1>10. Present(DeleteGroup(b, i)) = Present(b) \ {i}
  BY <1>9, <1>2 DEF Present
<1> QED BY <1>1, <1>2, <1>4, <1>8, <1>9, <1>10 DEF GoodBook, IsBook, Present

\* A command leaves a good book.
LEMMA ApplyIsGood ==
  ASSUME NEW b, GoodBook(b), NEW c \in Commands, c.op = "add" => NextId(b) <= MaxId
  PROVE  GoodBook(Apply(c, b))
<1> DEFINE i == Subject(c, b)
<1>0. IsBook(b) /\ b.selected \in Present(b) /\ Present(b) \subseteq Ids
  BY BookFacts DEF GoodBook
<1>1. CASE Refused(c, b)
  BY <1>1 DEF Apply
<1>2. CASE c.op = "add"
  <2>1. Present(b) \subseteq Nat /\ \A j \in Present(b) : j < MaxId + 1
    BY <1>0, GroupsAssumption DEF Ids
  <2>2. MaxId + 1 \in {n \in 1..(MaxId + 1) : \A j \in Present(b) : j < n}
    BY <2>1, GroupsAssumption
  <2>3. NextId(b) \in {n \in 1..(MaxId + 1) : \A j \in Present(b) : j < n}
    BY <2>2, LeastIsMember DEF NextId
  <2>4. NextId(b) \in Ids
    BY <2>3, <1>2, GroupsAssumption DEF Ids
  <2> DEFINE g == [wallets |-> {}, on |-> TRUE]
             w == WithGroup(b, NextId(b), g)
  <2>5. g \in Group
    BY DEF Group
  <2> HIDE DEF g
  <2>6. IsBook(w) /\ NextId(b) \in Present(w)
    BY <1>0, <2>4, <2>5, WithGroupIsBook
  <2>7. ~Refused(c, b)
    BY <1>2 DEF Refused
  <2>8. Apply(c, b) = [w EXCEPT !.selected = NextId(b)]
    BY <1>2, <2>7 DEF Apply, AddGroup, g
  <2> HIDE DEF w
  <2>9. Apply(c, b) = [groups |-> w.groups, selected |-> NextId(b)]
    BY <2>6, <2>8 DEF IsBook
  <2> QED BY <2>4, <2>6, <2>9 DEF GoodBook, IsBook, Present
<1>3. ASSUME ~Refused(c, b), c.op # "add"
      PROVE  /\ i \in Present(b) /\ i \in Ids /\ b.groups[i] \in Group
             /\ c.op = "delete" => ~(Cardinality(Present(b)) <= 1)
  BY <1>3, <1>0, BookFacts DEF Refused
<1>4. CASE ~Refused(c, b) /\ c.op = "delete"
  <2>1. Apply(c, b) = DeleteGroup(b, i)
    BY <1>4 DEF Apply
  <2> QED BY <1>3, <1>4, <2>1, DeleteIsGood
<1>5. CASE ~Refused(c, b) /\ c.op = "use"
  <2>1. Apply(c, b) = [b EXCEPT !.selected = i]
    BY <1>5 DEF Apply
  <2>2. Apply(c, b) = [groups |-> b.groups, selected |-> i]
    BY <2>1, <1>0 DEF IsBook
  <2> HIDE DEF i
  <2> QED BY <1>0, <1>3, <1>5, <2>2 DEF GoodBook, IsBook, Present
<1>6. ASSUME ~Refused(c, b), c.op # "add", NEW g \in Group, Apply(c, b) = WithGroup(b, i, g)
      PROVE  GoodBook(Apply(c, b))
  <2> HIDE DEF i
  <2> QED BY <1>0, <1>3, <1>6, WithGroupIsBook DEF GoodBook
<1>7. CASE ~Refused(c, b) /\ c.op \in {"on", "off"}
  <2>1. Apply(c, b) = WithGroup(b, i, [b.groups[i] EXCEPT !.on = (c.op = "on")])
    BY <1>7 DEF Apply, SwitchGroup
  <2>2. [b.groups[i] EXCEPT !.on = (c.op = "on")] \in Group
    BY <1>3, <1>7 DEF Group
  <2> QED BY <1>6, <1>7, <2>1, <2>2
<1>8. CASE ~Refused(c, b) /\ c.op = "addWallet"
  <2>1. Apply(c, b) = WithGroup(b, i, [b.groups[i] EXCEPT !.wallets = b.groups[i].wallets \cup {c.wallet}])
    BY <1>8 DEF Apply, SetWallets
  <2>2. c.wallet \in Wallets
    BY <1>8 DEF Commands
  <2>3. [b.groups[i] EXCEPT !.wallets = b.groups[i].wallets \cup {c.wallet}] \in Group
    BY <1>3, <1>8, <2>2 DEF Group
  <2> QED BY <1>6, <1>8, <2>1, <2>3
<1>9. CASE ~Refused(c, b) /\ c.op = "rmWallet"
  <2>1. Apply(c, b) = WithGroup(b, i, [b.groups[i] EXCEPT !.wallets = b.groups[i].wallets \ {c.wallet}])
    BY <1>9 DEF Apply, SetWallets
  <2>2. [b.groups[i] EXCEPT !.wallets = b.groups[i].wallets \ {c.wallet}] \in Group
    BY <1>3, <1>9 DEF Group
  <2> QED BY <1>6, <1>9, <2>1, <2>2
<1>10. c.op \in {"add", "delete", "use", "on", "off", "addWallet", "rmWallet"}
  BY DEF Commands
<1> QED BY <1>1, <1>2, <1>4, <1>5, <1>7, <1>8, <1>9, <1>10

(***************************************************************************)
(* Types, the selected group and the file                                  *)
(***************************************************************************)

EditorType ==
  /\ file.is \in {"absent", "torn", "whole"} /\ IsBook(file.book)
  /\ batch \in Seq(Commands)
  /\ tg \in Telegram /\ tg.done <= Len(batch)
  /\ unsaved \in BOOLEAN
  /\ faults \in 0..MaxFaults
  /\ \A b \in once : GoodBook(b)

\* The groups, the file and the Telegram task.
EditorInv == EditorType /\ GoodBook(book) /\ RestartRecovers

\* It holds when the bot starts for the first time.
LEMMA EditorStarts == GroupsInit => EditorInv
<1> SUFFICES ASSUME GroupsInit PROVE EditorInv
  OBVIOUS
<1> USE DEF GroupsInit
<1>1. Load(NoFile) = DefaultBook /\ book = DefaultBook
  BY DEF Load, NoFile
<1>2. GoodBook(DefaultBook) /\ IsBook(file.book) /\ file.is = "absent"
  BY DefaultIsGood DEF GoodBook, NoFile
<1>3. tg \in Telegram /\ batch \in Seq(Commands) /\ tg.done <= Len(batch)
  BY DEF Telegram, Starting
<1>4. faults \in 0..MaxFaults
  BY GroupsAssumption
<1> QED BY <1>1, <1>2, <1>3, <1>4 DEF EditorInv, EditorType, RestartRecovers

\* A command is taken up, for the first time or again.
LEMMA HandleStep ==
  ASSUME EditorInv, NEW c \in Commands, Handle(c), tg.at = "idle",
         tg.done + 1 <= Len(batch'), batch' \in Seq(Commands),
         \A b \in once' : GoodBook(b)
  PROVE  EditorInv'
<1> USE DEF Handle
<1>1. GoodBook(book) /\ tg.done \in Nat
  BY DEF EditorInv, EditorType, Telegram
<1>2. GoodBook(book')
  BY <1>1, ApplyIsGood
<1>3. Refused(c, book) => book' = book
  BY DEF Apply
<1>4. tg'.at = IF Refused(c, book) THEN "idle" ELSE "save"
  OBVIOUS
<1>5. tg' \in Telegram /\ tg'.done = tg.done + 1
  BY <1>1 DEF Telegram
<1>6. EditorType'
  BY <1>5 DEF EditorInv, EditorType
<1>7. RestartRecovers'
  BY <1>3, <1>4 DEF EditorInv, RestartRecovers, Load
<1> QED BY <1>2, <1>6, <1>7 DEF EditorInv

\* Where a group may still be added, there is a number for it.
LEMMA RoomIsLeft ==
  ASSUME EditorInv, NEW b, NEW n, n = NextId(b), GoodBook(b),
         n + (Cardinality(Added) + 1) * (MaxFaults - faults) <= MaxId
  PROVE  n <= MaxId
<1> DEFINE p == Cardinality(Added) + 1
           r == MaxFaults - faults
<1>1. Cardinality(Added) \in Nat
  <2>1. IsFiniteSet(1..Len(batch))
    BY FS_Interval DEF EditorInv, EditorType
  <2>2. Added \subseteq 1..Len(batch)
    BY DEF EditorInv, EditorType, Added
  <2> QED BY <2>1, <2>2, FS_Subset, FS_CardinalityType
<1>2. p \in Nat /\ r \in Nat
  BY <1>1, GroupsAssumption DEF EditorInv, EditorType
<1>3. n \in Nat
  <2>1. Present(b) \subseteq Nat /\ \A j \in Present(b) : j < MaxId + 1
    BY BookFacts, GroupsAssumption DEF GoodBook, Ids
  <2>2. MaxId + 1 \in {i \in 1..(MaxId + 1) : \A j \in Present(b) : j < i}
    BY <2>1, GroupsAssumption
  <2>3. NextId(b) \in {i \in 1..(MaxId + 1) : \A j \in Present(b) : j < i}
    BY <2>2, LeastIsMember DEF NextId
  <2> QED BY <2>3
<1> HIDE DEF p, r
<1>4. p * r \in Nat
  BY <1>2
<1>5. n + p * r <= MaxId
  BY DEF p, r
<1> QED BY <1>3, <1>4, <1>5, GroupsAssumption

\* A new command.
LEMMA TakeStep ==
  ASSUME EditorInv, NEW c \in Commands, TakeCommand(c)
  PROVE  EditorInv'
<1> USE DEF TakeCommand
<1>1. batch \in Seq(Commands) /\ tg.done = Len(batch) /\ tg.done \in Nat
  BY DEF EditorInv, EditorType, AllDone, Telegram
<1>2. batch' \in Seq(Commands) /\ Len(batch') = Len(batch) + 1
  BY <1>1
<1>3. ASSUME NEW b \in once PROVE GoodBook(Apply(c, b))
  <2>1. GoodBook(b)
    BY DEF EditorInv, EditorType
  <2>2. c.op = "add" => NextId(b) <= MaxId
    BY <2>1, RoomIsLeft
  <2> QED BY <2>1, <2>2, ApplyIsGood
<1> QED BY <1>1, <1>2, <1>3, HandleStep

\* A command that is delivered again.
LEMMA RedoFacts ==
  ASSUME EditorInv, Redo
  PROVE  /\ tg.done + 1 \in 1..Len(batch) /\ batch[tg.done + 1] \in Commands
         /\ Handle(batch[tg.done + 1])
  BY DEF EditorInv, EditorType, AllDone, Telegram, Redo

LEMMA RedoStep == ASSUME EditorInv, Redo PROVE EditorInv'
<1>1. /\ tg.done + 1 <= Len(batch') /\ batch' \in Seq(Commands) /\ tg.at = "idle"
      /\ \A b \in once' : GoodBook(b)
  BY RedoFacts DEF Redo, EditorInv, EditorType
<1> QED BY <1>1, RedoFacts, HandleStep

\* The steps of saving, and the confirmation.
LEMMA SaveStep ==
  ASSUME EditorInv, EmptyFile \/ FillFile \/ WriteFails \/ Poll
  PROVE  EditorInv'
<1>0. /\ GoodBook(book) /\ GoodBook(book') /\ IsBook(book) /\ book' = book
      /\ file.is \in {"absent", "torn", "whole"} /\ IsBook(file.book)
      /\ unsaved \in BOOLEAN /\ faults \in 0..MaxFaults
      /\ tg \in Telegram /\ tg.done \in Nat /\ tg.done <= Len(batch)
      /\ batch \in Seq(Commands) /\ \A b \in once : GoodBook(b)
  BY DEF EditorInv, EditorType, EmptyFile, FillFile, WriteFails, Poll, GoodBook, Telegram
<1>1. CASE EmptyFile
  <2> USE <1>1 DEF EmptyFile
  <2>1. tg' \in Telegram /\ tg'.at = "write" /\ tg'.done = tg.done
    BY <1>0 DEF Telegram
  <2>2. IsBook(file'.book) /\ file'.is = "torn"
    BY DefaultIsGood DEF Torn, GoodBook
  <2> QED BY <2>1, <2>2, <1>0 DEF EditorInv, EditorType, RestartRecovers
<1>2. CASE FillFile
  <2> USE <1>2 DEF FillFile
  <2>1. tg' \in Telegram /\ tg'.done = tg.done
    BY <1>0 DEF Telegram
  <2>2. IsBook(file'.book) /\ file'.is = "whole"
    BY <1>0 DEF Whole
  <2>3. Load(file)' = book
    BY <1>0, LoadWhole DEF Load
  <2> QED BY <2>1, <2>2, <2>3, <1>0 DEF EditorInv, EditorType, RestartRecovers
<1>3. CASE WriteFails
  <2> USE <1>3 DEF WriteFails
  <2>1. tg' \in Telegram /\ tg'.done = tg.done
    BY <1>0 DEF Telegram
  <2>2. faults' \in 0..MaxFaults
    BY <1>0, GroupsAssumption
  <2> QED BY <2>1, <2>2, <1>0 DEF EditorInv, EditorType, RestartRecovers
<1>4. CASE Poll
  <2> USE <1>4 DEF Poll
  <2>1. tg' \in Telegram /\ tg'.done = 0 /\ Len(batch') = 0 /\ batch' \in Seq(Commands)
    BY DEF Telegram, Starting
  <2>2. RestartRecovers'
    BY DEF RestartRecovers, EditorInv, Load
  <2> QED BY <2>1, <2>2, <1>0 DEF EditorInv, EditorType
<1> QED BY <1>1, <1>2, <1>3, <1>4

\* The process is killed and started again.
LEMMA RestartStep == ASSUME EditorInv, Restart PROVE EditorInv'
<1> USE DEF Restart
<1>1. GoodBook(book') /\ book' = Load(file) /\ Load(file)' = book'
  BY LoadIsGood DEF Load, EditorInv, EditorType
<1>2. tg' \in Telegram /\ tg'.done = 0 /\ Len(batch) \in Nat /\ batch' = batch
  BY DEF Telegram, Starting, EditorInv, EditorType
<1>3. faults' \in 0..MaxFaults
  BY GroupsAssumption DEF EditorInv, EditorType
<1>4. \A b \in once' : GoodBook(b)
  BY DEF EditorInv, EditorType
<1>5. EditorType'
  <2>1. file'.is \in {"absent", "torn", "whole"} /\ IsBook(file'.book) /\ batch' \in Seq(Commands)
    BY DEF EditorInv, EditorType
  <2>2. unsaved' \in BOOLEAN
    OBVIOUS
  <2>3. tg'.done <= Len(batch)
    BY <1>2
  <2> QED BY <1>2, <1>3, <1>4, <2>1, <2>2, <2>3 DEF EditorType
<1> QED BY <1>1, <1>5 DEF EditorInv, RestartRecovers

\* Every step keeps the invariant.
LEMMA EditorStep == ASSUME EditorInv, [GroupsNext \/ Restart]_gvars PROVE EditorInv'
<1>1. CASE GroupsNext
  BY <1>1, GivenAssumption, TakeStep, RedoStep, SaveStep DEF GroupsNext
<1>2. CASE Restart
  BY <1>2, RestartStep
<1>3. CASE UNCHANGED gvars
  BY <1>3 DEF gvars, EditorInv, EditorType, GoodBook, IsBook, Present, RestartRecovers, Load
<1> QED BY <1>1, <1>2, <1>3

LEMMA EditorAlways == GroupsSpec => []EditorInv
  BY EditorStarts, EditorStep, PTL DEF GroupsSpec

(***************************************************************************)
(* A batch that is delivered again                                         *)
(*                                                                         *)
(* A book is seen as cells: which group is selected, whether a group is    *)
(* on, whether a wallet is in a group.  A command of a steady batch writes *)
(* one value into some cells, and which ones does not depend on the book.  *)
(* So a cell written by the commands carried out so far has the value of   *)
(* the last that wrote it, and a cell none of the batch writes is as it    *)
(* was before the batch, however often the batch was begun again.          *)
(***************************************************************************)

Cells(P) ==
  [what: {"selected"}, id: {NoGroup}, wallet: {NoWallet}]
    \cup [what: {"on"}, id: P, wallet: {NoWallet}]
    \cup [what: {"wallet"}, id: P, wallet: Wallets]

\* What cell x of book b holds.
Held(b, x) ==
  IF x.what = "selected" THEN b.selected
  ELSE IF x.what = "on" THEN (IF b.groups[x.id].on THEN 1 ELSE 0)
  ELSE (IF x.wallet \in b.groups[x.id].wallets THEN 1 ELSE 0)

\* Command c writes cell x of a book with groups P of which s is selected ...
Writes(c, x, s, P) ==
  LET i == IF c.id = NoGroup THEN s ELSE c.id
  IN  \/ x.what = "selected" /\ c.op = "use" /\ i \in P
      \/ x.what = "on" /\ c.op \in {"on", "off"} /\ i = x.id
      \/ x.what = "wallet" /\ c.op \in {"addWallet", "rmWallet"} /\ i = x.id /\ c.wallet = x.wallet

\* ... and this into it.
Written(c, x) ==
  IF x.what = "selected" THEN c.id ELSE (IF c.op \in {"on", "addWallet"} THEN 1 ELSE 0)

\* What a command does, cell by cell.
LEMMA ApplyWrites ==
  ASSUME NEW b, GoodBook(b), NEW c \in Commands, c.op \notin {"add", "delete"}
  PROVE  /\ GoodBook(Apply(c, b)) /\ Present(Apply(c, b)) = Present(b)
         /\ \A x \in Cells(Present(b)) :
              Held(Apply(c, b), x) = IF Writes(c, x, b.selected, Present(b)) THEN Written(c, x)
                                     ELSE Held(b, x)
<1> DEFINE i == Subject(c, b)
           d == Apply(c, b)
<1>0. /\ IsBook(b) /\ b.selected \in Present(b) /\ Present(b) \subseteq Ids
      /\ b = [groups |-> b.groups, selected |-> b.selected]
      /\ \A j \in Present(b) : b.groups[j] \in Group
  BY BookFacts DEF GoodBook, IsBook
<1>1. GoodBook(d)
  BY ApplyIsGood
<1>2. i = IF c.id = NoGroup THEN b.selected ELSE c.id
  BY DEF Subject
<1>3. c.op \in {"use", "on", "off", "addWallet", "rmWallet"}
  BY DEF Commands
<1>4. c.op = "use" => c.id = i
  BY GroupsAssumption DEF Commands, Subject, NoGroup, Ids
<1>5. ASSUME NEW x \in Cells(Present(b))
      PROVE  \/ x.what = "selected"
             \/ x.what = "on" /\ x.id \in Present(b)
             \/ x.what = "wallet" /\ x.id \in Present(b)
  BY DEF Cells
<1>6. CASE Refused(c, b)
  <2>1. d = b
    BY <1>6 DEF Apply
  <2>2. i \notin Present(b) \/ (c.op = "rmWallet" /\ c.wallet \notin b.groups[i].wallets)
    BY <1>3, <1>6 DEF Refused
  <2> HIDE DEF i, d
  <2>3. ASSUME NEW x \in Cells(Present(b)), Writes(c, x, b.selected, Present(b))
        PROVE  Held(b, x) = Written(c, x)
    BY <1>2, <1>5, <2>2, <2>3 DEF Writes, Held, Written
  <2>4. \A x \in Cells(Present(b)) :
          Held(d, x) = IF Writes(c, x, b.selected, Present(b)) THEN Written(c, x) ELSE Held(b, x)
    BY <2>1, <2>3
  <2> QED BY <1>1, <2>1, <2>4 DEF d
<1>7. ASSUME ~Refused(c, b)
      PROVE  i \in Present(b) /\ i \in Ids /\ b.groups[i] \in Group
  BY <1>0, <1>3, <1>7 DEF Refused
<1>8. CASE ~Refused(c, b) /\ c.op = "use"
  <2>1. d = [b EXCEPT !.selected = i]
    BY <1>8 DEF Apply
  <2>2. d.groups = b.groups /\ d.selected = i
    BY <1>0, <2>1
  <2> HIDE DEF i, d
  <2>3. Present(d) = Present(b)
    BY <2>2 DEF Present
  <2>4. ASSUME NEW x \in Cells(Present(b))
        PROVE  Held(d, x) = IF Writes(c, x, b.selected, Present(b)) THEN Written(c, x)
                            ELSE Held(b, x)
    BY <1>2, <1>4, <1>5, <1>7, <1>8, <2>2 DEF Writes, Held, Written
  <2> QED BY <1>1, <2>3, <2>4 DEF d
<1>9. ASSUME ~Refused(c, b), c.op # "use", NEW g \in Group, d = WithGroup(b, i, g)
      PROVE  /\ Present(d) = Present(b) /\ d.selected = b.selected /\ d.groups[i] = g
             /\ \A j \in Present(b) : j # i => d.groups[j] = b.groups[j]
  <2> HIDE DEF i, d
  <2>1. i \in Present(b) /\ i \in Ids
    BY <1>7, <1>9
  <2>2. /\ Present(WithGroup(b, i, g)) = Present(b) \cup {i}
        /\ WithGroup(b, i, g).selected = b.selected
        /\ WithGroup(b, i, g).groups[i] = g
        /\ \A j \in Present(b) \ {i} : WithGroup(b, i, g).groups[j] = b.groups[j]
    BY <1>0, <2>1, WithGroupIsBook
  <2> QED BY <1>9, <2>1, <2>2
<1>10. CASE ~Refused(c, b) /\ c.op \in {"on", "off"}
  <2> DEFINE g == [b.groups[i] EXCEPT !.on = (c.op = "on")]
  <2>1. d = WithGroup(b, i, g) /\ g \in Group
    BY <1>7, <1>10 DEF Apply, SwitchGroup, Group
  <2>2. g.on <=> c.op = "on"
    BY <1>7, <1>10 DEF Group
  <2>3. g.wallets = b.groups[i].wallets
    BY <1>7, <1>10 DEF Group
  <2> HIDE DEF g
  <2>4. /\ Present(d) = Present(b) /\ d.selected = b.selected /\ d.groups[i] = g
        /\ \A j \in Present(b) : j # i => d.groups[j] = b.groups[j]
    BY <1>9, <1>10, <2>1
  <2> HIDE DEF i, d
  <2>5. ASSUME NEW x \in Cells(Present(b))
        PROVE  Held(d, x) = IF Writes(c, x, b.selected, Present(b)) THEN Written(c, x)
                            ELSE Held(b, x)
    BY <1>2, <1>5, <1>10, <2>2, <2>3, <2>4 DEF Writes, Held, Written
  <2> QED BY <1>1, <2>4, <2>5 DEF d
<1>11. ASSUME ~Refused(c, b), c.op \in {"addWallet", "rmWallet"}, NEW S, S \subseteq Wallets,
              d = WithGroup(b, i, [b.groups[i] EXCEPT !.wallets = S]),
              \A w \in Wallets : w \in S <=> IF w = c.wallet THEN c.op = "addWallet"
                                             ELSE w \in b.groups[i].wallets
       PROVE  /\ Present(d) = Present(b)
              /\ \A x \in Cells(Present(b)) :
                   Held(d, x) = IF Writes(c, x, b.selected, Present(b)) THEN Written(c, x)
                                ELSE Held(b, x)
  <2> DEFINE g == [b.groups[i] EXCEPT !.wallets = S]
  <2>1. g \in Group /\ g.wallets = S /\ g.on = b.groups[i].on
    BY <1>7, <1>11 DEF Group
  <2>2. d = WithGroup(b, i, g)
    BY <1>11
  <2> HIDE DEF g
  <2>3. /\ Present(d) = Present(b) /\ d.selected = b.selected /\ d.groups[i] = g
        /\ \A j \in Present(b) : j # i => d.groups[j] = b.groups[j]
    BY <1>9, <1>11, <2>1, <2>2
  <2> HIDE DEF i, d
  <2>4. ASSUME NEW x \in Cells(Present(b)), x.what = "wallet"
        PROVE  /\ x.id \in Present(b) /\ x.wallet \in Wallets
               /\ Writes(c, x, b.selected, Present(b)) <=> (i = x.id /\ c.wallet = x.wallet)
    BY <1>2, <1>11, <2>4 DEF Cells, Writes
  <2>5. ASSUME NEW x \in Cells(Present(b)), x.what = "wallet"
        PROVE  Held(d, x) = IF Writes(c, x, b.selected, Present(b)) THEN Written(c, x)
                            ELSE Held(b, x)
    <3>1. CASE i = x.id
      BY <1>11, <2>1, <2>3, <2>4, <2>5, <3>1 DEF Held, Written
    <3>2. CASE i # x.id
      BY <2>3, <2>4, <2>5, <3>2 DEF Held
    <3> QED BY <3>1, <3>2
  <2>6. ASSUME NEW x \in Cells(Present(b)), x.what # "wallet"
        PROVE  ~Writes(c, x, b.selected, Present(b)) /\ Held(d, x) = Held(b, x)
    BY <1>5, <1>11, <2>1, <2>3, <2>6 DEF Writes, Held
  <2> QED BY <2>3, <2>5, <2>6
<1>12. CASE ~Refused(c, b) /\ c.op = "addWallet"
  <2> DEFINE S == b.groups[i].wallets \cup {c.wallet}
  <2>1. d = WithGroup(b, i, [b.groups[i] EXCEPT !.wallets = S])
    BY <1>12 DEF Apply, SetWallets
  <2>2. c.wallet \in Wallets /\ S \subseteq Wallets
    BY <1>7, <1>12 DEF Commands, Group
  <2>3. \A w \in Wallets : w \in S <=> IF w = c.wallet THEN c.op = "addWallet"
                                       ELSE w \in b.groups[i].wallets
    BY <1>12
  <2> HIDE DEF S, i, d
  <2> QED BY <1>1, <1>11, <1>12, <2>1, <2>2, <2>3 DEF d
<1>13. CASE ~Refused(c, b) /\ c.op = "rmWallet"
  <2> DEFINE S == b.groups[i].wallets \ {c.wallet}
  <2>1. d = WithGroup(b, i, [b.groups[i] EXCEPT !.wallets = S])
    BY <1>13 DEF Apply, SetWallets
  <2>2. S \subseteq Wallets
    BY <1>7, <1>13 DEF Group
  <2>3. \A w \in Wallets : w \in S <=> IF w = c.wallet THEN c.op = "addWallet"
                                       ELSE w \in b.groups[i].wallets
    BY <1>13
  <2> HIDE DEF S, i, d
  <2> QED BY <1>1, <1>11, <1>13, <2>1, <2>2, <2>3 DEF d
<1> QED BY <1>3, <1>6, <1>8, <1>10, <1>12, <1>13

\* Books with the same groups are the same if all their cells are.
LEMMA SameCells ==
  ASSUME NEW a, GoodBook(a), NEW b, GoodBook(b), Present(a) = Present(b),
         \A x \in Cells(Present(b)) : Held(a, x) = Held(b, x)
  PROVE  a = b
<1>1. /\ a = [groups |-> a.groups, selected |-> a.selected]
      /\ b = [groups |-> b.groups, selected |-> b.selected]
      /\ a.groups \in [Present(b) -> Group] /\ b.groups \in [Present(b) -> Group]
  BY DEF GoodBook, IsBook, Present
<1>2. a.selected = b.selected
  <2>1. [what |-> "selected", id |-> NoGroup, wallet |-> NoWallet] \in Cells(Present(b))
    BY DEF Cells
  <2> QED BY <2>1 DEF Held
<1>3. ASSUME NEW i \in Present(b) PROVE a.groups[i] = b.groups[i]
  <2>1. a.groups[i] \in Group /\ b.groups[i] \in Group
    BY <1>1
  <2>2. a.groups[i].on = b.groups[i].on
    <3>0. [what |-> "on", id |-> i, wallet |-> NoWallet]
            \in [what: {"on"}, id: Present(b), wallet: {NoWallet}]
      OBVIOUS
    <3>1. [what |-> "on", id |-> i, wallet |-> NoWallet] \in Cells(Present(b))
      BY <3>0, Zenon DEF Cells
    <3>2. a.groups[i].on <=> b.groups[i].on
      BY <3>1 DEF Held
    <3> QED BY <2>1, <3>2 DEF Group
  <2>3. ASSUME NEW w \in Wallets PROVE w \in a.groups[i].wallets <=> w \in b.groups[i].wallets
    <3>0. [what |-> "wallet", id |-> i, wallet |-> w]
            \in [what: {"wallet"}, id: Present(b), wallet: Wallets]
      OBVIOUS
    <3>1. [what |-> "wallet", id |-> i, wallet |-> w] \in Cells(Present(b))
      BY <3>0, Zenon DEF Cells
    <3> QED BY <3>1 DEF Held
  <2>4. a.groups[i].wallets = b.groups[i].wallets
    BY <2>1, <2>3 DEF Group
  <2> QED BY <2>1, <2>2, <2>4 DEF Group
<1> QED BY <1>1, <1>2, <1>3

\* Of the first k commands of q, the last that writes x has left its value in b.
Follows(q, b, k, x, s, P) ==
  \/ \A n \in 1..k : ~Writes(q[n], x, s, P)
  \/ \E n \in 1..k :
       /\ Writes(q[n], x, s, P)
       /\ \A m \in 1..k : m > n => ~Writes(q[m], x, s, P)
       /\ Held(b, x) = Written(q[n], x)

\* No command of q has written x: it is in b as in o.
Untouched(q, b, o, x) ==
  (\A n \in 1..Len(q) : ~Writes(q[n], x, o.selected, Present(o))) => Held(b, x) = Held(o, x)

\* o: the book had each command been carried out once.
LikeOnce(o) ==
  /\ Present(book) = Present(o)
  /\ \A x \in Cells(Present(o)) :
       /\ Untouched(batch, book, o, x)
       /\ Follows(batch, book, tg.done, x, o.selected, Present(o))
       /\ Follows(batch, o, Len(batch), x, o.selected, Present(o))

\* A start from the file would leave cells that are not written as they were.
FileLikeOnce(o) ==
  ~unsaved /\ file.is # "torn" =>
    /\ Present(Load(file)) = Present(o)
    /\ \A x \in Cells(Present(o)) : Untouched(batch, Load(file), o, x)

RedoInv == Steady => \A o \in once : LikeOnce(o) /\ FileLikeOnce(o)

\* Two books that follow the same commands agree.
LEMMA FollowsBoth ==
  ASSUME NEW q, NEW k \in Nat, NEW x, NEW s, NEW P, NEW a, NEW b,
         Follows(q, a, k, x, s, P), Follows(q, b, k, x, s, P),
         (\A n \in 1..k : ~Writes(q[n], x, s, P)) => Held(a, x) = Held(b, x)
  PROVE  Held(a, x) = Held(b, x)
<1>1. CASE \A n \in 1..k : ~Writes(q[n], x, s, P)
  BY <1>1
<1>2. CASE ~(\A n \in 1..k : ~Writes(q[n], x, s, P))
  <2>1. PICK n \in 1..k :
          /\ Writes(q[n], x, s, P)
          /\ \A m \in 1..k : m > n => ~Writes(q[m], x, s, P)
          /\ Held(a, x) = Written(q[n], x)
    BY <1>2 DEF Follows
  <2>2. PICK p \in 1..k :
          /\ Writes(q[p], x, s, P)
          /\ \A m \in 1..k : m > p => ~Writes(q[m], x, s, P)
          /\ Held(b, x) = Written(q[p], x)
    BY <1>2 DEF Follows
  <2>3. n = p
    BY <2>1, <2>2
  <2> QED BY <2>1, <2>2, <2>3
<1> QED BY <1>1, <1>2

\* One more command is carried out.
LEMMA FollowsOneMore ==
  ASSUME NEW q, NEW k \in Nat, NEW x, NEW s, NEW P, NEW a, NEW b,
         Follows(q, a, k, x, s, P),
         Held(b, x) = IF Writes(q[k + 1], x, s, P) THEN Written(q[k + 1], x) ELSE Held(a, x)
  PROVE  Follows(q, b, k + 1, x, s, P)
<1>0. \A n \in 1..(k + 1) : n \in 1..k \/ n = k + 1
  OBVIOUS
<1>1. CASE Writes(q[k + 1], x, s, P)
  <2>1. k + 1 \in 1..(k + 1) /\ \A m \in 1..(k + 1) : ~(m > k + 1)
    OBVIOUS
  <2> QED BY <1>1, <2>1 DEF Follows
<1>2. CASE ~Writes(q[k + 1], x, s, P)
  <2>1. CASE \A n \in 1..k : ~Writes(q[n], x, s, P)
    BY <1>0, <1>2, <2>1 DEF Follows
  <2>2. CASE ~(\A n \in 1..k : ~Writes(q[n], x, s, P))
    <3>1. PICK n \in 1..k :
            /\ Writes(q[n], x, s, P)
            /\ \A m \in 1..k : m > n => ~Writes(q[m], x, s, P)
            /\ Held(a, x) = Written(q[n], x)
      BY <2>2 DEF Follows
    <3>2. n \in 1..(k + 1) /\ \A m \in 1..(k + 1) : m > n => ~Writes(q[m], x, s, P)
      BY <1>0, <1>2, <3>1
    <3>3. Held(b, x) = Written(q[n], x)
      BY <1>2, <3>1
    <3> QED BY <3>1, <3>2, <3>3 DEF Follows
  <2> QED BY <2>1, <2>2
<1> QED BY <1>1, <1>2

\* When the whole batch is handled, the book is as if handled once.
LEMMA DoneIsOnce ==
  ASSUME EditorInv, NEW o \in once, LikeOnce(o), AllDone
  PROVE  book = o
<1>1. GoodBook(book) /\ GoodBook(o) /\ Len(batch) \in Nat /\ tg.done = Len(batch)
  BY DEF EditorInv, EditorType, AllDone
<1>2. ASSUME NEW x \in Cells(Present(o)) PROVE Held(book, x) = Held(o, x)
  BY <1>1, FollowsBoth DEF LikeOnce, Untouched
<1> QED BY <1>1, <1>2, SameCells DEF LikeOnce

\* A new command changes the book and the other one alike.
LEMMA TakeRedo ==
  ASSUME EditorInv, RedoInv, NEW c \in Commands, TakeCommand(c)
  PROVE  RedoInv'
<1> SUFFICES ASSUME Steady', NEW o \in once PROVE LikeOnce(Apply(c, o))' /\ FileLikeOnce(Apply(c, o))'
  BY DEF RedoInv, TakeCommand
<1> DEFINE L == Len(batch)
           P == Present(o)
           d == Apply(c, o)
<1>0. /\ batch \in Seq(Commands) /\ L \in Nat /\ tg.done = L /\ batch' = Append(batch, c)
      /\ GoodBook(o)
  BY DEF EditorInv, EditorType, AllDone, TakeCommand
<1>1. /\ Len(batch') = L + 1 /\ batch'[L + 1] = c
      /\ \A n \in 1..L : batch'[n] = batch[n] /\ n \in 1..(L + 1)
      /\ DOMAIN batch = 1..L /\ DOMAIN batch' = 1..(L + 1)
  BY <1>0
<1>2. Steady /\ c.op \notin {"add", "delete"}
      /\ (c.op = "use" => c.id # NoGroup /\ \A n \in 1..L : batch[n].id # NoGroup)
  <2> HIDE DEF L
  <2>1. \A m \in 1..(L + 1) : /\ batch'[m].op \notin {"add", "delete"}
                              /\ batch'[m].op = "use" => \A n \in 1..m : batch'[n].id # NoGroup
    BY <1>1 DEF Steady
  <2>2. \A m \in 1..L : \A n \in 1..m : n \in 1..L
    BY <1>0
  <2>3. Steady
    BY <1>1, <2>1, <2>2 DEF Steady
  <2>4. L + 1 \in 1..(L + 1)
    BY <1>0
  <2> QED BY <1>1, <2>1, <2>3, <2>4
<1>3. LikeOnce(o) /\ FileLikeOnce(o)
  BY <1>2 DEF RedoInv
<1>4. book = o
  BY <1>0, <1>3, DoneIsOnce DEF AllDone
<1>5. book' = d /\ tg'.done = L + 1 /\ file' = file /\ unsaved' = unsaved
  BY <1>0, <1>4 DEF TakeCommand, Handle
<1>6. /\ GoodBook(d) /\ Present(d) = P
      /\ \A x \in Cells(P) : Held(d, x) = IF Writes(c, x, o.selected, P) THEN Written(c, x)
                                          ELSE Held(o, x)
  BY <1>0, <1>2, ApplyWrites
<1>7. c.op # "use" => d.selected = o.selected
  <2>1. [what |-> "selected", id |-> NoGroup, wallet |-> NoWallet] \in Cells(P)
    BY DEF Cells
  <2> HIDE DEF d, P
  <2> QED BY <1>6, <2>1 DEF Held, Writes
<1>8. ASSUME NEW x
      PROVE  /\ Writes(c, x, d.selected, P) <=> Writes(c, x, o.selected, P)
             /\ \A n \in 1..L : Writes(batch[n], x, d.selected, P) <=> Writes(batch[n], x, o.selected, P)
  <2> HIDE DEF d, P
  <2>1. CASE c.op = "use"
    BY <1>2, <2>1 DEF Writes
  <2>2. CASE c.op # "use"
    BY <1>7, <2>2
  <2> QED BY <2>1, <2>2
<1> HIDE DEF d, P, L
<1>9. ASSUME NEW x \in Cells(P)
      PROVE  /\ Follows(batch', d, L + 1, x, d.selected, P)
             /\ (\A n \in 1..(L + 1) : ~Writes(batch'[n], x, d.selected, P)) =>
                  (\A n \in 1..L : ~Writes(batch[n], x, o.selected, P)) /\ Held(d, x) = Held(o, x)
  <2>1. Follows(batch, o, L, x, o.selected, P)
    BY <1>3 DEF LikeOnce, P, L
  <2>2. Follows(batch', o, L, x, d.selected, P)
    BY <2>1, <1>1, <1>8 DEF Follows
  <2>3. Held(d, x) = IF Writes(batch'[L + 1], x, d.selected, P) THEN Written(batch'[L + 1], x)
                     ELSE Held(o, x)
    BY <1>1, <1>6, <1>8
  <2>4. Follows(batch', d, L + 1, x, d.selected, P)
    BY <1>0, <2>2, <2>3, FollowsOneMore
  <2>5. L + 1 \in 1..(L + 1)
    BY <1>0
  <2> QED BY <1>1, <1>8, <2>3, <2>4, <2>5
<1>10. LikeOnce(d)'
  <2>1. /\ Present(book') = Present(d)
        /\ \A x \in Cells(Present(d)) :
             /\ Untouched(batch', book', d, x)
             /\ Follows(batch', book', tg'.done, x, d.selected, Present(d))
             /\ Follows(batch', d, Len(batch'), x, d.selected, Present(d))
    BY <1>1, <1>5, <1>6, <1>9 DEF Untouched
  <2> QED BY <2>1 DEF LikeOnce, d
<1>11. FileLikeOnce(d)'
  <2>1. Load(file)' = Load(file)
    BY <1>5 DEF Load
  <2>2. ASSUME ~unsaved, file.is # "torn", NEW x \in Cells(P),
               \A n \in 1..(L + 1) : ~Writes(batch'[n], x, d.selected, P)
        PROVE  Held(Load(file), x) = Held(d, x)
    <3>1. Held(Load(file), x) = Held(o, x)
      BY <1>3, <1>9, <2>2 DEF FileLikeOnce, Untouched, P, L
    <3> QED BY <1>9, <2>2, <3>1
  <2>3. ~unsaved' /\ file'.is # "torn" =>
          /\ Present(Load(file)) = Present(d)
          /\ \A x \in Cells(Present(d)) : Untouched(batch', Load(file), d, x)
    BY <1>1, <1>3, <1>5, <1>6, <2>2 DEF FileLikeOnce, Untouched, P
  <2> QED BY <2>1, <2>3 DEF FileLikeOnce, d
<1> QED BY <1>10, <1>11 DEF d

\* A command that is delivered again writes what it wrote the first time.
LEMMA RedoRedo == ASSUME EditorInv, RedoInv, Redo PROVE RedoInv'
<1> SUFFICES ASSUME Steady, NEW o \in once PROVE LikeOnce(o)' /\ FileLikeOnce(o)'
  BY DEF RedoInv, Redo, Steady
<1> DEFINE k == tg.done
           c == batch[k + 1]
           P == Present(o)
           s == o.selected
<1>0. /\ k \in Nat /\ k + 1 \in 1..Len(batch) /\ c \in Commands /\ Len(batch) \in Nat
      /\ GoodBook(o) /\ GoodBook(book) /\ DOMAIN batch = 1..Len(batch)
  BY RedoFacts DEF EditorInv, EditorType, Telegram
<1>1. /\ book' = Apply(c, book) /\ batch' = batch /\ tg'.done = k + 1
      /\ file' = file /\ unsaved' = unsaved
  BY RedoFacts DEF Handle, Redo
<1>2. LikeOnce(o) /\ FileLikeOnce(o)
  BY DEF RedoInv
<1>3. c.op \notin {"add", "delete"}
      /\ \A m \in 1..Len(batch) : m >= k + 1 /\ batch[m].op = "use" => c.id # NoGroup
  <2>1. \A m \in 1..Len(batch) : /\ batch[m].op \notin {"add", "delete"}
                                 /\ batch[m].op = "use" => \A n \in 1..m : batch[n].id # NoGroup
    BY <1>0 DEF Steady
  <2>2. \A m \in 1..Len(batch) : m >= k + 1 => k + 1 \in 1..m
    BY <1>0
  <2> QED BY <1>0, <2>1, <2>2
<1>4. /\ GoodBook(book') /\ Present(book') = P
      /\ \A x \in Cells(P) : Held(book', x) = IF Writes(c, x, book.selected, P) THEN Written(c, x)
                                              ELSE Held(book, x)
  <2>1. Present(book) = P
    BY <1>2 DEF LikeOnce
  <2> HIDE DEF c, P
  <2> QED BY <1>0, <1>1, <1>3, <2>1, ApplyWrites
<1> HIDE DEF k, c, P, s
<1>5. c.id = NoGroup => book.selected = s
  <2> SUFFICES ASSUME c.id = NoGroup PROVE book.selected = s
    OBVIOUS
  <2> DEFINE z == [what |-> "selected", id |-> NoGroup, wallet |-> NoWallet]
  <2>1. z \in Cells(P) /\ z.what = "selected"
    BY DEF Cells
  <2> HIDE DEF z
  <2>2. /\ Untouched(batch, book, o, z) /\ Follows(batch, book, k, z, s, P)
        /\ Follows(batch, o, Len(batch), z, s, P)
    BY <1>2, <2>1 DEF LikeOnce, k, s, P
  <2>3. \A m \in 1..Len(batch) : m >= k + 1 => ~Writes(batch[m], z, s, P)
    BY <1>3, <2>1 DEF Writes
  <2>4. \A m \in 1..Len(batch) : m \in 1..k \/ m >= k + 1
    BY <1>0
  <2>5. 1..k \subseteq 1..Len(batch)
    BY <1>0
  <2>6. Follows(batch, o, k, z, s, P)
    <3>1. CASE \A n \in 1..Len(batch) : ~Writes(batch[n], z, s, P)
      BY <2>5, <3>1 DEF Follows
    <3>2. CASE ~(\A n \in 1..Len(batch) : ~Writes(batch[n], z, s, P))
      <4>1. PICK n \in 1..Len(batch) :
              /\ Writes(batch[n], z, s, P)
              /\ \A m \in 1..Len(batch) : m > n => ~Writes(batch[m], z, s, P)
              /\ Held(o, z) = Written(batch[n], z)
        BY <2>2, <3>2 DEF Follows
      <4>2. n \in 1..k
        BY <2>3, <2>4, <4>1
      <4> QED BY <2>5, <4>1, <4>2 DEF Follows
    <3> QED BY <3>1, <3>2
  <2>7. (\A n \in 1..k : ~Writes(batch[n], z, s, P)) => Held(book, z) = Held(o, z)
    BY <2>2, <2>3, <2>4 DEF Untouched, s, P
  <2>8. Held(book, z) = Held(o, z)
    BY <1>0, <2>2, <2>6, <2>7, FollowsBoth
  <2> QED BY <2>1, <2>8 DEF Held, s
<1>6. ASSUME NEW x PROVE Writes(c, x, book.selected, P) <=> Writes(c, x, s, P)
  BY <1>5 DEF Writes
<1>7. ASSUME NEW x \in Cells(P)
      PROVE  Untouched(batch, book', o, x) /\ Follows(batch, book', k + 1, x, s, P)
  <2>1. Untouched(batch, book, o, x) /\ Follows(batch, book, k, x, s, P)
    BY <1>2 DEF LikeOnce, k, s, P
  <2>2. Held(book', x) = IF Writes(batch[k + 1], x, s, P) THEN Written(batch[k + 1], x)
                         ELSE Held(book, x)
    BY <1>4, <1>6 DEF c
  <2>3. Follows(batch, book', k + 1, x, s, P)
    BY <1>0, <2>1, <2>2, FollowsOneMore
  <2>4. Untouched(batch, book', o, x)
    BY <1>0, <2>1, <2>2 DEF Untouched, s, P
  <2> QED BY <2>3, <2>4
<1>8. LikeOnce(o)'
  <2>1. /\ Present(book') = Present(o)
        /\ \A x \in Cells(Present(o)) :
             /\ Untouched(batch', book', o, x)
             /\ Follows(batch', book', tg'.done, x, o.selected, Present(o))
             /\ Follows(batch', o, Len(batch'), x, o.selected, Present(o))
    BY <1>1, <1>2, <1>4, <1>7 DEF LikeOnce, P, s
  <2> QED BY <2>1 DEF LikeOnce
<1>9. FileLikeOnce(o)'
  BY <1>1, <1>2 DEF FileLikeOnce, Load
<1> QED BY <1>8, <1>9

\* Saving makes the file follow the book; after a confirmation there is nothing
\* to follow.
LEMMA SaveRedo ==
  ASSUME EditorInv, RedoInv, EmptyFile \/ FillFile \/ WriteFails \/ Poll
  PROVE  RedoInv'
<1> SUFFICES ASSUME Steady', NEW o \in once' PROVE LikeOnce(o)' /\ FileLikeOnce(o)'
  BY DEF RedoInv
<1>1. CASE EmptyFile \/ FillFile \/ WriteFails
  <2>1. /\ UNCHANGED <<book, batch, once>> /\ tg'.done = tg.done
        /\ Steady /\ o \in once
    BY <1>1 DEF EmptyFile, FillFile, WriteFails, Steady, EditorInv, EditorType, Telegram
  <2>2. LikeOnce(o) /\ FileLikeOnce(o)
    BY <2>1 DEF RedoInv
  <2>3. LikeOnce(o)'
    BY <2>1, <2>2 DEF LikeOnce
  <2>4. CASE EmptyFile
    BY <2>3, <2>4 DEF EmptyFile, Torn, FileLikeOnce
  <2>5. CASE FillFile
    <3>1. Load(file)' = book
      BY <2>5, LoadWhole DEF FillFile, Load, EditorInv
    <3> QED BY <2>1, <2>2, <2>3, <3>1 DEF LikeOnce, FileLikeOnce
  <2>6. CASE WriteFails
    BY <2>3, <2>6 DEF WriteFails, FileLikeOnce
  <2> QED BY <1>1, <2>4, <2>5, <2>6
<1>2. CASE Poll
  <2>1. /\ o = book /\ book' = book /\ batch' = <<>> /\ tg'.done = 0 /\ file' = file
        /\ unsaved' = unsaved /\ Len(batch') = 0
    BY <1>2 DEF Poll, Starting
  <2>2. ~unsaved => Load(file)' = book
    BY <1>2 DEF Poll, EditorInv, RestartRecovers, Load
  <2>3. ASSUME NEW x PROVE Follows(batch', o, 0, x, o.selected, Present(o)) /\ Untouched(batch', o, o, x)
    BY DEF Follows, Untouched
  <2>4. LikeOnce(o)'
    BY <2>1, <2>3 DEF LikeOnce
  <2>5. FileLikeOnce(o)'
    BY <2>1, <2>2, <2>3 DEF FileLikeOnce
  <2> QED BY <2>4, <2>5
<1> QED BY <1>1, <1>2

\* After a restart the batch is begun again on what the file has.
LEMMA RestartRedo == ASSUME EditorInv, RedoInv, Restart PROVE RedoInv'
<1> SUFFICES ASSUME Steady', NEW o \in once' PROVE LikeOnce(o)' /\ FileLikeOnce(o)'
  BY DEF RedoInv
<1> USE DEF Restart
<1>1. ~unsaved /\ file.is # "torn" /\ o \in once /\ Steady
  BY DEF Steady
<1>2. LikeOnce(o) /\ FileLikeOnce(o)
  BY <1>1 DEF RedoInv
<1>3. book' = Load(file) /\ Load(file)' = Load(file) /\ batch' = batch /\ tg'.done = 0
  BY DEF Load, Starting
<1>4. ASSUME NEW x PROVE Follows(batch, book', 0, x, o.selected, Present(o))
  BY DEF Follows
<1>5. LikeOnce(o)'
  <2>1. /\ Present(book') = Present(o)
        /\ \A x \in Cells(Present(o)) :
             /\ Untouched(batch', book', o, x)
             /\ Follows(batch', book', tg'.done, x, o.selected, Present(o))
             /\ Follows(batch', o, Len(batch'), x, o.selected, Present(o))
    BY <1>1, <1>2, <1>3, <1>4 DEF LikeOnce, FileLikeOnce
  <2> QED BY <2>1 DEF LikeOnce
<1>6. FileLikeOnce(o)'
  BY <1>1, <1>2, <1>3 DEF FileLikeOnce
<1> QED BY <1>5, <1>6

LEMMA RedoStarts == GroupsInit => RedoInv
<1> SUFFICES ASSUME GroupsInit, NEW o \in once PROVE LikeOnce(o) /\ FileLikeOnce(o)
  BY DEF RedoInv
<1>1. o = book /\ book = Load(file) /\ batch = <<>> /\ Len(batch) = 0 /\ tg.done = 0
  BY DEF GroupsInit, Starting
<1>2. ASSUME NEW x PROVE Follows(batch, o, 0, x, o.selected, Present(o)) /\ Untouched(batch, o, o, x)
  BY DEF Follows, Untouched
<1> QED BY <1>1, <1>2 DEF LikeOnce, FileLikeOnce

LEMMA RedoKept ==
  ASSUME EditorInv, RedoInv, [GroupsNext \/ Restart]_gvars
  PROVE  RedoInv'
<1>1. CASE GroupsNext
  BY <1>1, GivenAssumption, TakeRedo, RedoRedo, SaveRedo DEF GroupsNext
<1>2. CASE Restart
  BY <1>2, RestartRedo
<1>3. CASE UNCHANGED gvars
  BY <1>3 DEF gvars, RedoInv, Steady, LikeOnce, FileLikeOnce, Load
<1> QED BY <1>1, <1>2, <1>3

(***************************************************************************)
(* Theorems                                                                *)
(***************************************************************************)

\* There always is a selected group (delete_group, load_or_default).
THEOREM AlwaysSelected == GroupsSpec => []SelectedExists
<1>1. EditorInv => SelectedExists
  BY DEF EditorInv, GoodBook, SelectedExists
<1> QED BY EditorAlways, <1>1, PTL

\* What has been answered and written survives a kill at any point (save,
\* load_or_default).
THEOREM FileRecovers == GroupsSpec => []RestartRecovers
<1>1. EditorInv => RestartRecovers
  BY DEF EditorInv
<1> QED BY EditorAlways, <1>1, PTL

\* A steady batch that is delivered again, any number of times and after kills at
\* any point, leaves the groups as if delivered once (run, get_updates).
THEOREM RedeliveryLikeOnce == GroupsSpec => []RedoneLikeOnce
<1>1. EditorInv /\ RedoInv => RedoneLikeOnce
  BY DoneIsOnce DEF RedoInv, RedoneLikeOnce
<1> QED BY RedoStarts, RedoKept, EditorAlways, <1>1, PTL DEF GroupsSpec

=============================================================================
