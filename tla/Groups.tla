------------------------------- MODULE Groups -------------------------------
(***************************************************************************)
(* The groups of wallets (GroupManager), the Telegram task that edits them *)
(* and the file they are saved to.                                         *)
(*                                                                         *)
(* The Telegram task is the only editor.  It carries out the commands of   *)
(* one getUpdates answer, the batch, one after another: it changes the     *)
(* map, writes the whole state to copy_groups.json (fs::write empties the  *)
(* file and then fills it) and answers.  Only the next getUpdates confirms *)
(* them, the whole batch at once.  The process may be killed between any   *)
(* two of these steps: it then starts from the file, and is given the      *)
(* whole unconfirmed batch again, perhaps with newer commands after it.    *)
(*                                                                         *)
(* A group is its wallets and one flag, which stands for all its settings. *)
(* A group's id "g<n>" is its number n.  The 0slot switch and the list of  *)
(* blocked mints, saved with the groups, are left out.                     *)
(***************************************************************************)
EXTENDS Integers, FiniteSets, Sequences

CONSTANTS
  MaxId,           \* bound: the highest group number
  Wallets,
  NoWallet,        \* not a wallet
  DefaultWallets,  \* the configuration's target_wallets
  Given,           \* bound: the commands that are given
  MaxBatch,        \* bound: the most commands of one batch
  MaxFaults        \* bound: how often the process is killed or a write fails

ASSUME GroupsAssumption ==
  /\ MaxId \in Nat \ {0} /\ MaxBatch \in Nat /\ MaxFaults \in Nat
  /\ DefaultWallets \subseteq Wallets
  /\ NoWallet \notin Wallets

Ids     == 1..MaxId
NoGroup == 0
Group   == [wallets: SUBSET Wallets, on: BOOLEAN]

\* What GroupManager holds and saves.
IsBook(b) ==
  /\ b = [groups |-> b.groups, selected |-> b.selected]
  /\ DOMAIN b.groups \subseteq Ids
  /\ b.groups \in [DOMAIN b.groups -> Group]
  /\ b.selected \in Ids \cup {NoGroup}

VARIABLES
  book,     \* the groups and the selected one
  file,     \* copy_groups.json: its condition and, when whole, its contents
  batch,    \* the commands that were taken up since the last confirmation
  tg,       \* the Telegram task: its step, and how many of batch it has handled
  unsaved,  \* history: the last write of the file failed
  once,     \* history: the book, had each command been carried out once
  faults

gvars == <<book, file, batch, tg, unsaved, once, faults>>

(***************************************************************************)
(* GroupManager                                                            *)
(***************************************************************************)

Present(b) == DOMAIN b.groups

Least(S) == CHOOSE i \in S : \A j \in S : i <= j

\* The first group of all_groups.
First(b) == Least(Present(b))

\* One above the highest number in use.
NextId(b) == Least({n \in 1..(MaxId + 1) : \A i \in Present(b) : i < n})

\* The wallets of all groups, of those that are switched off as well.
AllTargetWallets(b) == UNION {b.groups[i].wallets : i \in Present(b)}

DefaultBook ==
  [groups |-> [i \in {1} |-> [wallets |-> DefaultWallets, on |-> TRUE]],
   selected |-> 1]

\* Mutation of Load: the selected group is not restored.
LoadUnselected(f) ==
  IF f.is # "whole" \/ Present(f.book) = {} THEN DefaultBook
  ELSE [f.book EXCEPT !.selected = First(f.book)]

\* load_or_default: a file that cannot be parsed counts as none.
Load(f) ==
  IF f.is # "whole" \/ Present(f.book) = {} THEN DefaultBook
  ELSE [f.book EXCEPT !.selected = IF @ \in Present(f.book) THEN @ ELSE First(f.book)]

WithGroup(b, i, g) ==
  [b EXCEPT !.groups = [j \in Present(b) \cup {i} |-> IF j = i THEN g ELSE b.groups[j]]]

\* Mutation of AddGroup: numbers are skipped.
AddGroupBeyond(b) ==
  [WithGroup(b, NextId(b) + 2, [wallets |-> {}, on |-> TRUE]) EXCEPT !.selected = NextId(b) + 2]

AddGroup(b) ==
  [WithGroup(b, NextId(b), [wallets |-> {}, on |-> TRUE]) EXCEPT !.selected = NextId(b)]

\* Mutation of DeleteGroup: the selected group is not chosen anew.
DeleteGroupOnly(b, i) == [b EXCEPT !.groups = [j \in Present(b) \ {i} |-> b.groups[j]]]

DeleteGroup(b, i) ==
  LET rest == [b EXCEPT !.groups = [j \in Present(b) \ {i} |-> b.groups[j]]]
  IN  IF b.selected = i THEN [rest EXCEPT !.selected = First(rest)] ELSE rest

\* Mutation of SwitchGroup: the setting is toggled.
ToggleGroup(b, i, on) == WithGroup(b, i, [b.groups[i] EXCEPT !.on = ~@])

\* set_group_enabled, and replace_group with a changed setting.
SwitchGroup(b, i, on) == WithGroup(b, i, [b.groups[i] EXCEPT !.on = on])

SetWallets(b, i, S) == WithGroup(b, i, [b.groups[i] EXCEPT !.wallets = S])

(***************************************************************************)
(* Commands.  Those with id 0 work on the group that is selected when they *)
(* are carried out.                                                        *)
(***************************************************************************)

Commands ==
  [op: {"add"}, id: {NoGroup}, wallet: {NoWallet}]
    \cup [op: {"delete", "use"}, id: Ids, wallet: {NoWallet}]
    \cup [op: {"on", "off"}, id: Ids \cup {NoGroup}, wallet: {NoWallet}]
    \cup [op: {"addWallet"}, id: {NoGroup}, wallet: Wallets]
    \cup [op: {"rmWallet"}, id: Ids \cup {NoGroup}, wallet: Wallets]

ASSUME GivenAssumption == Given \subseteq Commands

Subject(c, b) == IF c.id = NoGroup THEN b.selected ELSE c.id

\* The command ends in an error and nothing is saved.
Refused(c, b) ==
  /\ c.op # "add"
  /\ \/ Subject(c, b) \notin Present(b)
     \/ c.op = "delete" /\ Cardinality(Present(b)) <= 1
     \/ c.op = "rmWallet" /\ c.wallet \notin b.groups[Subject(c, b)].wallets

Apply(c, b) ==
  LET i == Subject(c, b)
  IN  IF Refused(c, b) THEN b ELSE
      CASE c.op = "add"       -> AddGroup(b)
        [] c.op = "delete"    -> DeleteGroup(b, i)
        [] c.op = "use"       -> [b EXCEPT !.selected = i]
        [] c.op \in {"on", "off"} -> SwitchGroup(b, i, c.op = "on")
        [] c.op = "addWallet" -> SetWallets(b, i, b.groups[i].wallets \cup {c.wallet})
        [] c.op = "rmWallet"  -> SetWallets(b, i, b.groups[i].wallets \ {c.wallet})

(***************************************************************************)
(* The Telegram task                                                       *)
(***************************************************************************)

\* "idle": between two commands, or waiting for updates; "save", "write": in
\* save, before and after the file is emptied.  Those of the batch beyond done
\* were handled before a restart and are delivered again.  What the server
\* holds beyond batch is left open: any command may follow.
Telegram == [at: {"idle", "save", "write"}, done: Nat]

Starting == [at |-> "idle", done |-> 0]

NoFile == [is |-> "absent", book |-> DefaultBook]
Torn   == [is |-> "torn", book |-> DefaultBook]
Whole(b) == [is |-> "whole", book |-> b]

GroupsInit ==
  /\ file = NoFile
  /\ book = Load(NoFile)
  /\ batch = <<>>
  /\ tg = Starting
  /\ unsaved = FALSE
  /\ once = {book}
  /\ faults = 0

AllDone == tg.done = Len(batch)

Added == {n \in DOMAIN batch : batch[n].op = "add"}

\* handle_update.  MaxId bounds the groups that are added ...
Handle(c) ==
  /\ c.op = "add" => NextId(book) <= MaxId
  /\ book' = Apply(c, book)
  /\ tg' = [at |-> IF Refused(c, book) THEN "idle" ELSE "save", done |-> tg.done + 1]
  /\ UNCHANGED <<file, unsaved, faults>>

\* ... so that room is left for those added again after a restart.
TakeCommand(c) ==
  /\ tg.at = "idle" /\ AllDone
  /\ Len(batch) < MaxBatch
  /\ c.op = "add" => \A b \in once \cup {book, Load(file)} :
       NextId(b) + (Cardinality(Added) + 1) * (MaxFaults - faults) <= MaxId
  /\ Handle(c)
  /\ batch' = Append(batch, c)
  /\ once' = {Apply(c, b) : b \in once}

\* After a restart the server delivers the batch again, in its order.
Redo ==
  /\ tg.at = "idle" /\ ~AllDone
  /\ Handle(batch[tg.done + 1])
  /\ UNCHANGED <<batch, once>>

EmptyFile ==
  /\ tg.at = "save"
  /\ file' = Torn
  /\ tg' = [tg EXCEPT !.at = "write"]
  /\ UNCHANGED <<book, batch, unsaved, once, faults>>

FillFile ==
  /\ tg.at = "write"
  /\ file' = Whole(book)
  /\ unsaved' = FALSE
  /\ tg' = [tg EXCEPT !.at = "idle"]
  /\ UNCHANGED <<book, batch, once, faults>>

\* A failed write is only logged; the answer is sent all the same.
WriteFails ==
  /\ tg.at \in {"save", "write"}
  /\ faults < MaxFaults
  /\ faults' = faults + 1
  /\ unsaved' = TRUE
  /\ tg' = [tg EXCEPT !.at = "idle"]
  /\ UNCHANGED <<book, file, batch, once>>

\* getUpdates with an offset above the last command of the batch.
Poll ==
  /\ tg.at = "idle" /\ AllDone /\ batch # <<>>
  /\ batch' = <<>>
  /\ tg' = Starting
  /\ once' = {book}
  /\ UNCHANGED <<book, file, unsaved, faults>>

\* The process is killed and started again; its first getUpdates confirms
\* nothing.  What was not in the file is gone.
Restart ==
  /\ faults < MaxFaults
  /\ faults' = faults + 1
  /\ book' = Load(file)
  /\ tg' = Starting
  /\ unsaved' = FALSE
  /\ once' = IF unsaved \/ file.is = "torn" THEN {} ELSE once
  /\ UNCHANGED <<file, batch>>

GroupsNext ==
  \/ \E c \in Given : TakeCommand(c)
  \/ Redo
  \/ EmptyFile
  \/ FillFile
  \/ WriteFails
  \/ Poll

GroupsSpec == GroupsInit /\ [][GroupsNext \/ Restart]_gvars

(***************************************************************************)
(* Properties                                                              *)
(***************************************************************************)

\* There is a selected group, and so a group, at any time: /set, /addwallet and
\* the others that name no group always have one (selected_group).
SelectedExists == book.selected \in Present(book)

\* Whenever a command has been answered, a start from the file would bring back
\* exactly what the bot works with, as long as writes succeed (save,
\* load_or_default).
RestartRecovers == (tg.at = "idle" /\ ~unsaved) => Load(file) = book

\* A batch that adds and deletes no group, and selects one only before its
\* commands for "the selected group".
Steady ==
  \A m \in DOMAIN batch :
    /\ batch[m].op \notin {"add", "delete"}
    /\ batch[m].op = "use" => \A n \in 1..m : batch[n].id # NoGroup

\* However often a batch was begun, killed in and delivered again, when all of it
\* is handled the groups are what they would be had each command been carried
\* out once, unless a write was lost (run, get_updates after a restart).  The
\* batches left out are those whose second delivery does change more: a group
\* is added twice, and /addwallet before /usegroup reaches both groups.
RedoneLikeOnce == AllDone /\ Steady => \A b \in once : book = b

=============================================================================
