------------------------- MODULE DirectoryExchange -------------------------
(***************************************************************************)
(* The maintenance tool (PublicationMaintenance): a published directory in *)
(* the old layout is exchanged for a converted one by moves between        *)
(* published/ and a trash namespace on the same volume, each announced in  *)
(* a journal that lists all transactions of the data root.  A command runs *)
(* in a process of its own under the lock of the data root, and ends with  *)
(* it: an error and a crash differ in nothing but the message.             *)
(*                                                                         *)
(* One publication.  What it holds and the history that makes it eligible  *)
(* do not change while nobody but the tool writes.                         *)
(***************************************************************************)
EXTENDS DataRootLock, Naturals

CONSTANT
  MaxTransactions  \* bound: conversions begun

ASSUME ExchangeAssumption == MaxTransactions \in Nat

Transactions == 1..MaxTransactions

VARIABLES
  sentinel,       \* .publication-maintenance.json is there
  journal,        \* the journal beside it
  litter,         \* a temporary file of either
  space,          \* the trash namespace: "absent", "bare" (without owner.json) or "owned"
  base,           \* the trash directory of each transaction
  tx,             \* the entries: [phase, trash, stage], the latter two its known identities
  old,            \* where the original directory is: 0 at home, or in the trash of one
  new,            \* where each converted directory is
  content,        \* what is in it
  tool            \* the running command: [at, tx]

exchangeVars == <<sentinel, journal, litter, space, base, tx, old, new, content, tool>>
diskOf == <<sentinel, journal, litter, space, base, old, new, content>>

NoEntry == [phase |-> "none", trash |-> FALSE, stage |-> FALSE]
NoTool  == [at |-> "none", tx |-> 0]

ExchangeInit ==
  /\ sentinel = FALSE /\ journal = FALSE /\ litter = FALSE
  /\ space = "absent" /\ base = [t \in Transactions |-> FALSE]
  /\ tx = [t \in Transactions |-> NoEntry]
  /\ old = 0
  /\ new = [t \in Transactions |-> "none"]
  /\ content = [t \in Transactions |-> "empty"]
  /\ tool = NoTool

Begun == {t \in Transactions : tx[t].phase # "none"}

\* Slip: a transaction past its last forward move needs no more care.
MovedOn == {"committed", "rolled_back", "old_moved"}

\* terminal().
Terminal == {"committed", "rolled_back"}

\* require_no_pending: of the service at its start and before a preparation, and
\* of the tool before a new conversion.
ExchangeQuiet ==
  /\ ~litter
  /\ journal = sentinel
  /\ \A t \in Begun : tx[t].phase \in Terminal

-----------------------------------------------------------------------------
(* Steps of a command.                                                     *)

Self == tool.tx
Entry == tx[Self]
ToolGoes(step) == tool' = [tool EXCEPT !.at = step] /\ UNCHANGED holder
ToolEnds == tool' = NoTool /\ Leave("tool")

\* Transaction::save, in full.
Enter(phase) == tx' = [tx EXCEPT ![Self].phase = phase]

\* A step of the command at one point that saves, or that only moves.
Saving(point, phase, step) ==
  /\ tool.at = point
  /\ Enter(phase)
  /\ ToolGoes(step)
  /\ UNCHANGED diskOf

\* The command fails, or its process dies: what was not saved is forgotten, a save may
\* leave its temporary file, and the copy what it has written, if anything.
ToolDies ==
  /\ tool # NoTool
  /\ \/ UNCHANGED litter
     \/ litter' = TRUE
  /\ \/ UNCHANGED content
     \/ tool.at = "copy" /\ content' = [content EXCEPT ![Self] = "partial"]
  /\ ToolEnds
  /\ UNCHANGED <<sentinel, journal, space, base, tx, old, new>>

Conversion ==
  /\ ExchangeQuiet
  /\ old = 0
  /\ \E t \in Transactions \ Begun :
       /\ \A u \in Transactions : u < t => u \in Begun
       /\ tool' = [at |-> IF sentinel THEN "intent" ELSE "sentinel", tx |-> t]
  /\ Take("tool")
  /\ UNCHANGED <<diskOf, tx>>

SaveSentinel ==
  /\ tool.at = "sentinel"
  /\ sentinel' = TRUE
  /\ ToolGoes("intent")
  /\ UNCHANGED <<journal, litter, space, base, tx, old, new, content>>

SaveIntent ==
  /\ tool.at = "intent"
  /\ journal' = TRUE
  /\ Enter("intent")
  /\ ToolGoes("finish")
  /\ UNCHANGED <<sentinel, litter, space, base, old, new, content>>

\* finish and rollback name any transaction of the journal.
Command(step) ==
  /\ sentinel /\ journal
  /\ \E t \in Begun : tool' = [at |-> step, tx |-> t]
  /\ Take("tool")
  /\ UNCHANGED <<diskOf, tx>>

-----------------------------------------------------------------------------
(* finish().                                                               *)

Withdrawing == {"rollback_intent", "rollback_new_moved", "rollback_old_intent", "rolled_back"}

TrashKnown(t) == tx[t].trash = base[t]
OldKnown(t)   == old \in {0, t}

\* Everything finish() asks before its first write.
FinishAdmitted(t) ==
  /\ tx[t].phase \notin Withdrawing
  /\ OldKnown(t) /\ TrashKnown(t)
  /\ tx[t].trash \/ space # "bare"
  /\ IF tx[t].stage
     THEN \/ new[t] = "stage"
          \/ new[t] = "original" /\ old # 0
     ELSE /\ new[t] = "none" /\ old = 0
          /\ tx[t].trash => tx[t].phase \in {"trash_registered", "create_stage_intent"}
  /\ tx[t].phase \in {"stage_registered", "preparing"} => content[t] = "empty"

Finish ==
  /\ tool.at = "finish"
  /\ FinishAdmitted(Self)
  /\ ToolGoes(CASE ~Entry.trash /\ space = "absent" -> "namespace"
                [] ~Entry.trash /\ space = "owned" -> "base"
                [] Entry.trash /\ ~Entry.stage -> "stageIntent"
                [] Entry.phase \in {"stage_registered", "preparing"} -> "preparing"
                [] OTHER -> "oldIntent")
  /\ UNCHANGED <<diskOf, tx>>

MakeNamespace ==
  /\ tool.at = "namespace"
  /\ space' = "bare"
  /\ ToolGoes("owner")
  /\ UNCHANGED <<sentinel, journal, litter, base, tx, old, new, content>>

SaveOwner ==
  /\ tool.at = "owner"
  /\ space' = "owned"
  /\ ToolGoes("base")
  /\ UNCHANGED <<sentinel, journal, litter, base, tx, old, new, content>>

MakeBase ==
  /\ tool.at = "base"
  /\ base' = [base EXCEPT ![Self] = TRUE]
  /\ ToolGoes("trash")
  /\ UNCHANGED <<sentinel, journal, litter, space, tx, old, new, content>>

SaveTrash ==
  /\ tool.at = "trash"
  /\ tx' = [tx EXCEPT ![Self] = [@ EXCEPT !.phase = "trash_registered", !.trash = TRUE]]
  /\ ToolGoes("stageIntent")
  /\ UNCHANGED diskOf

SaveStageIntent == Saving("stageIntent", "create_stage_intent", "stage")

MakeStage ==
  /\ tool.at = "stage"
  /\ new' = [new EXCEPT ![Self] = "stage"]
  /\ ToolGoes("stageId")
  /\ UNCHANGED <<sentinel, journal, litter, space, base, tx, old, content>>

SaveStage ==
  /\ tool.at = "stageId"
  /\ tx' = [tx EXCEPT ![Self] = [@ EXCEPT !.phase = "stage_registered", !.stage = TRUE]]
  /\ ToolGoes("preparing")
  /\ UNCHANGED diskOf

SavePreparing == Saving("preparing", "preparing", "copy")

\* prepare_existing_publication, verified as a whole.
Copy ==
  /\ tool.at = "copy"
  /\ content' = [content EXCEPT ![Self] = "whole"]
  /\ ToolGoes("prepared")
  /\ UNCHANGED <<sentinel, journal, litter, space, base, tx, old, new>>

SavePrepared == Saving("prepared", "prepared", "oldIntent")

\* The moves that are already done are left out.
SaveOldIntent == old = 0 /\ Saving("oldIntent", "move_old_intent", "moveOld")

OldIsMoved ==
  /\ tool.at = "oldIntent" /\ old # 0
  /\ ToolGoes("newIntent")
  /\ UNCHANGED <<diskOf, tx>>

\* move_fixed_directory, by identity and never over another directory.
MoveOld ==
  /\ tool.at = "moveOld"
  /\ old = 0
  /\ old' = Self
  /\ ToolGoes("oldMoved")
  /\ UNCHANGED <<sentinel, journal, litter, space, base, tx, new, content>>

SaveOldMoved == Saving("oldMoved", "old_moved", "newIntent")

\* Slip: the new directory is moved before its intent is saved.
MoveNewFirst ==
  /\ tool.at = "newIntent" /\ new[Self] = "stage"
  /\ new' = [new EXCEPT ![Self] = "original"]
  /\ ToolGoes("newMoved")
  /\ UNCHANGED <<sentinel, journal, litter, space, base, tx, old, content>>

SaveNewIntent ==
  /\ tool.at = "newIntent" /\ new[Self] = "stage"
  /\ Saving("newIntent", "move_new_intent", "moveNew")

NewIsMoved ==
  /\ tool.at = "newIntent" /\ new[Self] # "stage"
  /\ ToolGoes("commit")
  /\ UNCHANGED <<diskOf, tx>>

MoveNew ==
  /\ tool.at = "moveNew"
  /\ old # 0 /\ \A t \in Transactions : new[t] # "original"
  /\ new' = [new EXCEPT ![Self] = "original"]
  /\ ToolGoes("newMoved")
  /\ UNCHANGED <<sentinel, journal, litter, space, base, tx, old, content>>

SaveNewMoved == Saving("newMoved", "new_moved", "commit")

Commit ==
  /\ tool.at = "commit"
  /\ Enter("committed")
  /\ ToolEnds
  /\ UNCHANGED diskOf

-----------------------------------------------------------------------------
(* rollback(), also of what is already terminal.                           *)

\* Slip: a converted directory that is back in the trash is not expected there.
NewExpected(t) == new[t] = "stage" \/ (new[t] = "original" /\ old # 0)

\* Exactly one of staged, active and kept.
NewKnown(t) == new[t] \in {"stage", "retained"} \/ (new[t] = "original" /\ old # 0)

RollbackAdmitted(t) ==
  /\ OldKnown(t) /\ TrashKnown(t)
  /\ IF tx[t].stage THEN NewKnown(t) ELSE new[t] = "none" /\ old = 0

\* Without a stage there is nothing to move.
RollbackAtOnce ==
  /\ tool.at = "rollback"
  /\ RollbackAdmitted(Self) /\ ~Entry.stage
  /\ Enter("rolled_back")
  /\ ToolEnds
  /\ UNCHANGED diskOf

Rollback ==
  /\ tool.at = "rollback"
  /\ RollbackAdmitted(Self) /\ Entry.stage
  /\ Saving("rollback", "rollback_intent", IF new[Self] = "retained" THEN "oldBack" ELSE "retain")

Retain ==
  /\ tool.at = "retain"
  /\ new' = [new EXCEPT ![Self] = "retained"]
  /\ ToolGoes("retained")
  /\ UNCHANGED <<sentinel, journal, litter, space, base, tx, old, content>>

SaveRetained == Saving("retained", "rollback_new_moved", "oldBack")

SaveOldBack == old # 0 /\ Saving("oldBack", "rollback_old_intent", "restore")

OldIsBack ==
  /\ tool.at = "oldBack" /\ old = 0
  /\ ToolGoes("settle")
  /\ UNCHANGED <<diskOf, tx>>

Restore ==
  /\ tool.at = "restore"
  /\ \A t \in Transactions : new[t] # "original"
  /\ old' = 0
  /\ ToolGoes("settle")
  /\ UNCHANGED <<sentinel, journal, litter, space, base, tx, new, content>>

Settle ==
  /\ tool.at = "settle"
  /\ Enter("rolled_back")
  /\ ToolEnds
  /\ UNCHANGED diskOf

ExchangeNext ==
  \/ ToolDies
  \/ Conversion \/ SaveSentinel \/ SaveIntent \/ Command("finish") \/ Command("rollback")
  \/ Finish \/ MakeNamespace \/ SaveOwner \/ MakeBase \/ SaveTrash
  \/ SaveStageIntent \/ MakeStage \/ SaveStage \/ SavePreparing \/ Copy \/ SavePrepared
  \/ SaveOldIntent \/ OldIsMoved \/ MoveOld \/ SaveOldMoved
  \/ SaveNewIntent \/ NewIsMoved \/ MoveNew \/ SaveNewMoved \/ Commit
  \/ RollbackAtOnce \/ Rollback \/ Retain \/ SaveRetained
  \/ SaveOldBack \/ OldIsBack \/ Restore \/ Settle

-----------------------------------------------------------------------------
(* Properties.                                                             *)

\* What is at published/<id>: the original, or one whole converted directory.
Whole ==
  \/ old = 0 /\ \A t \in Transactions : new[t] # "original"
  \/ \E t \in Transactions : old = t /\ new[t] = "original" /\ content[t] = "whole"

\* The service never runs over a half exchanged publication, whatever commands
\* ended where: main.cpp asks require_no_pending under the lock.
ServiceSeesWholePublication == holder = "service" => Whole

\* The journal never lies: a committed entry has both directories where it says,
\* a rolled back one has neither, and no directory has left its place without an
\* entry that announces it.
JournalTellsTheTruth ==
  \A t \in Transactions :
    LET phase == tx[t].phase IN
    /\ phase = "committed" => old = t /\ new[t] = "original" /\ content[t] = "whole"
    /\ phase = "rolled_back" => old # t /\ new[t] \in {"none", "retained"}
    /\ old = t => phase \in {"move_old_intent", "old_moved", "move_new_intent", "new_moved",
                             "committed"} \union Withdrawing
    /\ new[t] = "original" => phase \in {"move_new_intent", "new_moved", "committed",
                                         "rollback_intent"}
    /\ new[t] = "retained" => phase \in Withdrawing

\* A directory whose creation the tool did not live to register: it is left for a
\* person to look at.
Unregistered(t) == base[t] # tx[t].trash \/ (new[t] # "none" /\ ~tx[t].stage)

\* Wherever the tool ended, a pending transaction without unregistered directories
\* can be rolled back; if another one holds the original, that one can, first.
PendingCanBeRolledBack ==
  holder # "tool" =>
    \A t \in Begun :
      tx[t].phase \notin Terminal /\ ~Unregistered(t) =>
        RollbackAdmitted(IF OldKnown(t) THEN t ELSE old)

\* What the journal says is true, and enough to go back.
JournalIsEnough == JournalTellsTheTruth /\ PendingCanBeRolledBack
=============================================================================
