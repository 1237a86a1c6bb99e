--------------------------- MODULE DataRootProofs ---------------------------
(***************************************************************************)
(* Theorems about the data root.                                           *)
(*                                                                         *)
(* The first part is the exchange: what the maintenance tool keeps at      *)
(* every step of its commands, wherever one of them ends, and what follows *)
(* for the service and for a later command.  The second is the slot: what  *)
(* every step of a preparation, of the worker and of the accounting keeps  *)
(* of the one directory of packages, and a crash at any of them.  Each     *)
(* leaves the other's variables alone; they meet in the lock, and the      *)
(* third part composes them.                                               *)
(***************************************************************************)
EXTENDS DataRoot, TLAPS

-----------------------------------------------------------------------------
(* The exchange: its invariant.                                            *)

Registered == {"trash_registered", "create_stage_intent"}
Filling    == {"stage_registered", "preparing"}
Moving     == {"prepared", "move_old_intent", "old_moved", "move_new_intent", "new_moved",
               "committed"}
Phases     == {"none", "intent"} \union Registered \union Filling \union Moving \union Withdrawing

Entries == [phase : Phases, trash : BOOLEAN, stage : BOOLEAN]
Points     == {"none", "sentinel", "intent", "finish", "namespace", "owner", "base", "trash",
               "stageIntent", "stage", "stageId", "preparing", "copy", "prepared", "oldIntent",
               "moveOld", "oldMoved", "newIntent", "moveNew", "newMoved", "commit",
               "rollback", "retain", "retained", "oldBack", "restore", "settle"}
Running == [at : Points, tx : 0..MaxTransactions]

\* The variables and their values.
ExchangeTypes ==
  /\ old \in 0..MaxTransactions
  /\ tx \in [Transactions -> Entries]
  /\ space \in {"absent", "bare", "owned"}
  /\ base \in [Transactions -> BOOLEAN]
  /\ new \in [Transactions -> {"none", "stage", "original", "retained"}]
  /\ content \in [Transactions -> {"empty", "partial", "whole"}]
  /\ tool \in Running

\* What an entry says of the trash directory and of the stage agrees with its phase
\* and with the disk: the identities are saved after the directories are made.
EntryFits(t) ==
  LET e == tx[t] IN
  /\ e.phase \in {"none", "intent"} => ~e.trash
  /\ e.phase = "none" => ~base[t]
  /\ e.phase \in Registered => e.trash /\ ~e.stage
  /\ e.phase \in (Filling \union Moving \union Withdrawing) \ {"rolled_back"} => e.stage
  /\ e.stage => e.trash
  /\ e.trash => base[t]
  /\ e.phase = "rolled_back" => e.trash = base[t]

\* Where the two directories of a transaction are, by its phase: each move happens
\* between two saves, and only there the place is open.
DirsFit(t) ==
  LET e == tx[t] IN
  /\ ~e.stage => content[t] = "empty" /\ old # t
  /\ ~e.stage => new[t] = "none" \/ (new[t] = "stage" /\ e.phase = "create_stage_intent")
  /\ e.phase = "stage_registered" => content[t] = "empty"
  /\ e.phase \in Filling \union {"prepared", "rolled_back"} => old # t
  /\ e.phase \in Filling \union {"prepared", "move_old_intent", "old_moved"} => new[t] = "stage"
  /\ e.phase \in Moving => content[t] = "whole"
  /\ e.phase \in {"old_moved", "move_new_intent", "new_moved", "committed"} => old = t
  /\ e.phase = "move_new_intent" => new[t] \in {"stage", "original"}
  /\ e.phase \in {"new_moved", "committed"} => new[t] = "original"
  /\ e.phase = "rollback_intent" => new[t] \in {"stage", "original", "retained"}
  /\ e.phase \in {"rollback_new_moved", "rollback_old_intent"} => new[t] = "retained"
  /\ e.phase = "rolled_back" => new[t] = (IF e.stage THEN "retained" ELSE "none")
  /\ new[t] = "original" => old = t

\* A transaction that was rolled back before a later one began: it may be rolled
\* back again, which moves nothing.
Past(t) == tx[t].phase \in Withdrawing /\ new[t] \in {"none", "retained"} /\ old # t

Latest(u) == \A t \in Transactions : t < u => Past(t)

\* What the running command relies on at each of its points.
ForwardFits ==
  LET s == tool.tx
      phase == tx[s].phase IN
  /\ tool.at \in {"sentinel", "intent"} => phase = "none" /\ old = 0 /\ Latest(s)
  /\ tool.at \in {"namespace", "owner", "base"} => phase = "intent" /\ ~base[s]
  /\ tool.at = "trash" => phase = "intent" /\ base[s]
  /\ tool.at = "stageIntent" => phase \in Registered /\ new[s] = "none"
  /\ tool.at = "stage" => phase = "create_stage_intent" /\ new[s] = "none"
  /\ tool.at = "stageId" => phase = "create_stage_intent" /\ new[s] = "stage"
  /\ tool.at = "preparing" => phase \in Filling /\ content[s] = "empty"
  /\ tool.at = "copy" => phase = "preparing"
  /\ tool.at = "prepared" => phase = "preparing" /\ content[s] = "whole"
  /\ tool.at = "oldIntent" => phase \in Moving
  /\ tool.at = "moveOld" => phase = "move_old_intent"
  /\ tool.at = "oldMoved" => phase = "move_old_intent" /\ old = s
  /\ tool.at = "newIntent" => phase \in Moving /\ old = s
  /\ tool.at = "moveNew" => phase = "move_new_intent"
  /\ tool.at = "newMoved" => phase = "move_new_intent" /\ new[s] = "original"
  /\ tool.at = "commit" => phase \in Moving /\ new[s] = "original"

BackwardFits ==
  LET s == tool.tx
      phase == tx[s].phase IN
  /\ tool.at = "retain" => phase = "rollback_intent" /\ new[s] # "retained"
  /\ tool.at = "retained" => phase = "rollback_intent" /\ new[s] = "retained"
  /\ tool.at = "oldBack" =>
       phase \in {"rollback_intent", "rollback_new_moved"} /\ new[s] = "retained"
  /\ tool.at = "restore" => phase = "rollback_old_intent" /\ old = s
  /\ tool.at = "settle" =>
       phase \in Withdrawing \ {"rolled_back"} /\ new[s] = "retained" /\ old = 0

ToolFits ==
  /\ tool.at = "none" => tool.tx = 0
  /\ tool.at # "none" => tool.tx \in Transactions
  /\ tool.at \notin {"none", "sentinel", "intent"} => tx[tool.tx].phase # "none"
  /\ tool.at \notin {"none", "finish", "rollback"} => old \in {0, tool.tx}
  /\ ForwardFits
  /\ BackwardFits

\* The tool runs under the lock, and the service only over terminal transactions.
LockFits ==
  /\ holder \in Holders
  /\ holder = "tool" <=> tool.at # "none"
  /\ holder = "service" => \A t \in Transactions : tx[t].phase \in Terminal \union {"none"}

EntriesFit == \A t \in Transactions : EntryFits(t) /\ DirsFit(t)
OneAtATime == \A u \in Transactions : tx[u].phase # "none" => Latest(u)

ExchangeInv ==
  /\ ExchangeTypes
  /\ EntriesFit
  /\ OneAtATime
  /\ ToolFits
  /\ LockFits

-----------------------------------------------------------------------------
(* The exchange: what a step changes.                                      *)

\* A step of a command changes one transaction.
OnlyAt(s) ==
  \A t \in Transactions \ {s} :
    /\ tx'[t] = tx[t] /\ base'[t] = base[t] /\ new'[t] = new[t] /\ content'[t] = content[t]
    /\ old' = t <=> old = t

\* A transaction that a step leaves alone fits as before.
LEMMA OtherFits ==
  ASSUME NEW t, EntryFits(t), DirsFit(t),
         tx'[t] = tx[t], base'[t] = base[t], new'[t] = new[t], content'[t] = content[t],
         old' = t <=> old = t
  PROVE  EntryFits(t)' /\ DirsFit(t)'
  BY DEF EntryFits, DirsFit

\* What was rolled back before stays so, if the step leaves it alone.
LEMMA OtherPast ==
  ASSUME NEW t, Past(t), tx'[t] = tx[t], new'[t] = new[t], old' = t <=> old = t
  PROVE  Past(t)'
  BY DEF Past

\* The transaction of the running command fits after the step as before it.
SelfFits(s) ==
  /\ EntryFits(s)' /\ DirsFit(s)'
  /\ Past(s) => Past(s)'
  /\ tx'[s].phase # "none" => tx[s].phase # "none" \/ Latest(s)

\* It is enough to look at the transaction of the running command.
LEMMA SelfSuffices ==
  ASSUME EntriesFit, OneAtATime, NEW s \in Transactions, OnlyAt(s), SelfFits(s)
  PROVE  EntriesFit' /\ OneAtATime' /\ \A u \in Transactions : Latest(u) => Latest(u)'
  <1>1. ASSUME NEW t \in Transactions
        PROVE  EntryFits(t)' /\ DirsFit(t)' /\ (Past(t) => Past(t)')
    BY OtherFits, OtherPast DEF EntriesFit, OnlyAt, SelfFits
  <1>2. ASSUME NEW u \in Transactions, Latest(u)
        PROVE  Latest(u)'
    BY <1>1, <1>2 DEF Latest
  <1>3. ASSUME NEW u \in Transactions, tx'[u].phase # "none"
        PROVE  Latest(u)
    BY <1>3 DEF OneAtATime, OnlyAt, SelfFits
  <1>4. QED
    BY <1>1, <1>2, <1>3 DEF EntriesFit, OneAtATime

\* What a save leaves in the entries, and a step in the command.
EntrySaved(s, phase, trash, stage) ==
  /\ tx' \in [Transactions -> Entries]
  /\ tx'[s].phase = phase /\ tx'[s].trash = trash /\ tx'[s].stage = stage
  /\ \A t \in Transactions \ {s} : tx'[t] = tx[t]

GoesOn(step) ==
  /\ tool' \in Running /\ tool'.at = step /\ tool'.tx = tool.tx
  /\ holder' = holder

\* The transaction of a running command is one, and fits.
LEMMA SelfIsOne ==
  ASSUME ExchangeInv, tool.at # "none"
  PROVE  \E s \in Transactions :
           /\ s = Self /\ s # 0 /\ tx[s] \in Entries
           /\ EntryFits(s) /\ DirsFit(s)
           /\ holder = "tool"
  <1>1. Self \in Transactions /\ Self # 0
    BY DEF ExchangeInv, ToolFits, Self, Transactions
  <1>2. tx[Self] \in Entries /\ EntryFits(Self) /\ DirsFit(Self)
    BY <1>1 DEF ExchangeInv, EntriesFit, ExchangeTypes
  <1>3. holder = "tool"
    BY DEF ExchangeInv, LockFits
  <1>4. QED
    BY <1>1, <1>2, <1>3

\* A save of a phase leaves the identities as they were.
LEMMA EnterSaves ==
  ASSUME ExchangeInv, NEW s \in Transactions, s = Self, NEW phase \in Phases, Enter(phase)
  PROVE  EntrySaved(s, phase, tx[s].trash, tx[s].stage)
  BY DEF Enter, EntrySaved, Entries, ExchangeInv, ExchangeTypes

\* The command goes on with the same transaction, under the lock it has.
LEMMA ToolGoesOn ==
  ASSUME ExchangeInv, NEW step \in Points, ToolGoes(step)
  PROVE  GoesOn(step)
  BY DEF ToolGoes, GoesOn, Running, ExchangeInv, ExchangeTypes

\* A step that goes on keeps the invariant if its own transaction still fits and the
\* command finds at its next point what it relies on there.
LEMMA StepKeeps ==
  ASSUME ExchangeInv, NEW s \in Transactions, s = Self, tool.at # "none",
         NEW step \in Points \ {"none"}, GoesOn(step),
         ExchangeTypes', OnlyAt(s), SelfFits(s), ToolFits'
  PROVE  ExchangeInv'
  <1>1. EntriesFit' /\ OneAtATime'
    BY SelfSuffices DEF ExchangeInv
  <1>2. LockFits'
    BY DEF ExchangeInv, LockFits, GoesOn
  <1>3. QED
    BY <1>1, <1>2 DEF ExchangeInv

\* The same for a step that ends the command.
LEMMA EndKeeps ==
  ASSUME ExchangeInv, NEW s \in Transactions, s = Self, ToolEnds,
         ExchangeTypes', OnlyAt(s), SelfFits(s)
  PROVE  ExchangeInv'
  <1>1. EntriesFit' /\ OneAtATime'
    BY SelfSuffices DEF ExchangeInv
  <1>2. LockFits'
    BY DEF ExchangeInv, LockFits, ToolEnds, Leave, NoTool, Holders
  <1>3. ToolFits'
    BY DEF ToolFits, ForwardFits, BackwardFits, ToolEnds, NoTool
  <1>4. QED
    BY <1>1, <1>2, <1>3 DEF ExchangeInv

\* The sentinel is saved before the first entry.
LEMMA SaveSentinelKeeps ==
  ASSUME ExchangeInv, SaveSentinel
  PROVE  ExchangeInv'
  <1>1. tool.at = "sentinel" /\ UNCHANGED <<tx, base, new, old, content, space>>
    BY DEF SaveSentinel
  <1>2. PICK s \in Transactions :
           /\ s = Self /\ s # 0 /\ tx[s] \in Entries
           /\ EntryFits(s) /\ DirsFit(s)
           /\ holder = "tool"
    BY <1>1, SelfIsOne
  <1>3. GoesOn("intent")
    BY ToolGoesOn DEF SaveSentinel, Points
  <1>4. tx' = tx
    BY <1>2 DEF SaveSentinel
  <1>5. ExchangeTypes' /\ OnlyAt(s)
    BY <1>1, <1>2, <1>3, <1>4 DEF ExchangeInv, ExchangeTypes, OnlyAt, GoesOn
  <1>6. SelfFits(s)
    BY <1>1, <1>2, <1>3, <1>4
    DEF SelfFits, ExchangeInv, ToolFits, ForwardFits, EntryFits, DirsFit, Past,
        Registered, Filling, Moving, Withdrawing, Self
  <1>7. ToolFits'
    BY <1>1, <1>2, <1>3, <1>4
    DEF ExchangeInv, ToolFits, ForwardFits, BackwardFits, EntryFits, DirsFit,
        Registered, Filling, Moving, Withdrawing, Self, GoesOn, Latest, Past
  <1>8. QED
    BY <1>1, <1>2, <1>3, <1>5, <1>6, <1>7, StepKeeps DEF Points

\* The entry appears: everything before it was rolled back.
LEMMA SaveIntentKeeps ==
  ASSUME ExchangeInv, SaveIntent
  PROVE  ExchangeInv'
  <1>1. tool.at = "intent" /\ UNCHANGED <<base, new, old, content, space>>
    BY DEF SaveIntent
  <1>2. PICK s \in Transactions :
           /\ s = Self /\ s # 0 /\ tx[s] \in Entries
           /\ EntryFits(s) /\ DirsFit(s)
           /\ holder = "tool"
    BY <1>1, SelfIsOne
  <1>3. GoesOn("finish")
    BY ToolGoesOn DEF SaveIntent, Points
  <1>4. EntrySaved(s, "intent", tx[s].trash, tx[s].stage)
    BY <1>2, EnterSaves DEF SaveIntent, Phases
  <1>5. ExchangeTypes' /\ OnlyAt(s)
    BY <1>1, <1>2, <1>3, <1>4 DEF ExchangeInv, ExchangeTypes, OnlyAt, GoesOn, EntrySaved
  <1>6. SelfFits(s)
    BY <1>1, <1>2, <1>3, <1>4
    DEF SelfFits, ExchangeInv, ToolFits, ForwardFits, EntryFits, DirsFit, Past,
        Registered, Filling, Moving, Withdrawing, Self, EntrySaved
  <1>7. ToolFits'
    BY <1>1, <1>2, <1>3, <1>4
    DEF ExchangeInv, ToolFits, ForwardFits, BackwardFits, EntryFits, DirsFit,
        Registered, Filling, Moving, Withdrawing, Self, GoesOn, EntrySaved
  <1>8. QED
    BY <1>1, <1>2, <1>3, <1>5, <1>6, <1>7, StepKeeps DEF Points

\* The namespace.
LEMMA MakeNamespaceKeeps ==
  ASSUME ExchangeInv, MakeNamespace
  PROVE  ExchangeInv'
  <1>1. tool.at = "namespace" /\ UNCHANGED <<tx, base, new, old, content>> /\ space' = "bare"
    BY DEF MakeNamespace
  <1>2. PICK s \in Transactions :
           /\ s = Self /\ s # 0 /\ tx[s] \in Entries
           /\ EntryFits(s) /\ DirsFit(s)
           /\ holder = "tool"
    BY <1>1, SelfIsOne
  <1>3. GoesOn("owner")
    BY ToolGoesOn DEF MakeNamespace, Points
  <1>4. tx' = tx
    BY <1>2 DEF MakeNamespace
  <1>5. ExchangeTypes' /\ OnlyAt(s)
    BY <1>1, <1>2, <1>3, <1>4 DEF ExchangeInv, ExchangeTypes, OnlyAt, GoesOn
  <1>6. SelfFits(s)
    BY <1>1, <1>2, <1>3, <1>4
    DEF SelfFits, ExchangeInv, ToolFits, ForwardFits, EntryFits, DirsFit, Past,
        Registered, Filling, Moving, Withdrawing, Self
  <1>7. ToolFits'
    BY <1>1, <1>2, <1>3, <1>4
    DEF ExchangeInv, ToolFits, ForwardFits, BackwardFits, EntryFits, DirsFit,
        Registered, Filling, Moving, Withdrawing, Self, GoesOn
  <1>8. QED
    BY <1>1, <1>2, <1>3, <1>5, <1>6, <1>7, StepKeeps DEF Points

\* The namespace has its owner.
LEMMA SaveOwnerKeeps ==
  ASSUME ExchangeInv, SaveOwner
  PROVE  ExchangeInv'
  <1>1. tool.at = "owner" /\ UNCHANGED <<tx, base, new, old, content>> /\ space' = "owned"
    BY DEF SaveOwner
  <1>2. PICK s \in Transactions :
           /\ s = Self /\ s # 0 /\ tx[s] \in Entries
           /\ EntryFits(s) /\ DirsFit(s)
           /\ holder = "tool"
    BY <1>1, SelfIsOne
  <1>3. GoesOn("base")
    BY ToolGoesOn DEF SaveOwner, Points
  <1>4. tx' = tx
    BY <1>2 DEF SaveOwner
  <1>5. ExchangeTypes' /\ OnlyAt(s)
    BY <1>1, <1>2, <1>3, <1>4 DEF ExchangeInv, ExchangeTypes, OnlyAt, GoesOn
  <1>6. SelfFits(s)
    BY <1>1, <1>2, <1>3, <1>4
    DEF SelfFits, ExchangeInv, ToolFits, ForwardFits, EntryFits, DirsFit, Past,
        Registered, Filling, Moving, Withdrawing, Self
  <1>7. ToolFits'
    BY <1>1, <1>2, <1>3, <1>4
    DEF ExchangeInv, ToolFits, ForwardFits, BackwardFits, EntryFits, DirsFit,
        Registered, Filling, Moving, Withdrawing, Self, GoesOn
  <1>8. QED
    BY <1>1, <1>2, <1>3, <1>5, <1>6, <1>7, StepKeeps DEF Points

\* The trash directory of the transaction.
LEMMA MakeBaseKeeps ==
  ASSUME ExchangeInv, MakeBase
  PROVE  ExchangeInv'
  <1>1. tool.at = "base" /\ UNCHANGED <<tx, new, old, content, space>>
    BY DEF MakeBase
  <1>2. PICK s \in Transactions :
           /\ s = Self /\ s # 0 /\ tx[s] \in Entries
           /\ EntryFits(s) /\ DirsFit(s)
           /\ holder = "tool"
    BY <1>1, SelfIsOne
  <1>3. GoesOn("trash")
    BY ToolGoesOn DEF MakeBase, Points
  <1>4. base' = [base EXCEPT ![s] = TRUE]
    BY <1>2 DEF MakeBase, Self
  <1>5. ExchangeTypes' /\ OnlyAt(s)
    BY <1>1, <1>2, <1>3, <1>4 DEF ExchangeInv, ExchangeTypes, OnlyAt, GoesOn
  <1>6. SelfFits(s)
    BY <1>1, <1>2, <1>3, <1>4
    DEF SelfFits, ExchangeInv, ToolFits, ForwardFits, EntryFits, DirsFit, Past,
        Registered, Filling, Moving, Withdrawing, Self
  <1>7. ToolFits'
    BY <1>1, <1>2, <1>3, <1>4
    DEF ExchangeInv, ToolFits, ForwardFits, BackwardFits, EntryFits, DirsFit,
        Registered, Filling, Moving, Withdrawing, Self, GoesOn, ExchangeTypes
  <1>8. QED
    BY <1>1, <1>2, <1>3, <1>5, <1>6, <1>7, StepKeeps DEF Points

\* Its identity.
LEMMA SaveTrashKeeps ==
  ASSUME ExchangeInv, SaveTrash
  PROVE  ExchangeInv'
  <1>1. tool.at = "trash" /\ UNCHANGED diskOf
    BY DEF SaveTrash
  <1>2. PICK s \in Transactions :
           /\ s = Self /\ s # 0 /\ tx[s] \in Entries
           /\ EntryFits(s) /\ DirsFit(s)
           /\ holder = "tool"
    BY <1>1, SelfIsOne
  <1>3. GoesOn("stageIntent")
    BY ToolGoesOn DEF SaveTrash, Points
  <1>4. EntrySaved(s, "trash_registered", TRUE, tx[s].stage)
    BY <1>2 DEF SaveTrash, EntrySaved, Entries, ExchangeInv, ExchangeTypes, Phases, Registered
  <1>5. ExchangeTypes' /\ OnlyAt(s)
    BY <1>1, <1>2, <1>3, <1>4 DEF ExchangeInv, ExchangeTypes, OnlyAt, GoesOn, EntrySaved, diskOf
  <1>6. SelfFits(s)
    BY <1>1, <1>2, <1>3, <1>4
    DEF SelfFits, ExchangeInv, ToolFits, ForwardFits, EntryFits, DirsFit, Past,
        Registered, Filling, Moving, Withdrawing, Self, EntrySaved, diskOf
  <1>7. ToolFits'
    BY <1>1, <1>2, <1>3, <1>4
    DEF ExchangeInv, ToolFits, ForwardFits, BackwardFits, EntryFits, DirsFit,
        Registered, Filling, Moving, Withdrawing, Self, GoesOn, EntrySaved, diskOf
  <1>8. QED
    BY <1>1, <1>2, <1>3, <1>5, <1>6, <1>7, StepKeeps DEF Points

\* The intent to make the stage.
LEMMA SaveStageIntentKeeps ==
  ASSUME ExchangeInv, SaveStageIntent
  PROVE  ExchangeInv'
  <1>1. tool.at = "stageIntent" /\ UNCHANGED diskOf
    BY DEF SaveStageIntent, Saving
  <1>2. PICK s \in Transactions :
           /\ s = Self /\ s # 0 /\ tx[s] \in Entries
           /\ EntryFits(s) /\ DirsFit(s)
           /\ holder = "tool"
    BY <1>1, SelfIsOne
  <1>3. GoesOn("stage")
    BY ToolGoesOn DEF SaveStageIntent, Saving, Points
  <1>4. EntrySaved(s, "create_stage_intent", tx[s].trash, tx[s].stage)
    BY <1>2, EnterSaves
    DEF SaveStageIntent, Saving, Phases, Registered, Filling, Moving, Withdrawing
  <1>5. ExchangeTypes' /\ OnlyAt(s)
    BY <1>1, <1>2, <1>3, <1>4 DEF ExchangeInv, ExchangeTypes, OnlyAt, GoesOn, EntrySaved, diskOf
  <1>6. SelfFits(s)
    BY <1>1, <1>2, <1>3, <1>4
    DEF SelfFits, ExchangeInv, ToolFits, ForwardFits, EntryFits, DirsFit, Past,
        Registered, Filling, Moving, Withdrawing, Self, EntrySaved, diskOf
  <1>7. ToolFits'
    BY <1>1, <1>2, <1>3, <1>4
    DEF ExchangeInv, ToolFits, ForwardFits, BackwardFits, EntryFits, DirsFit,
        Registered, Filling, Moving, Withdrawing, Self, GoesOn, EntrySaved, diskOf
  <1>8. QED
    BY <1>1, <1>2, <1>3, <1>5, <1>6, <1>7, StepKeeps DEF Points

\* The stage.
LEMMA MakeStageKeeps ==
  ASSUME ExchangeInv, MakeStage
  PROVE  ExchangeInv'
  <1>1. tool.at = "stage" /\ UNCHANGED <<tx, base, old, content, space>>
    BY DEF MakeStage
  <1>2. PICK s \in Transactions :
           /\ s = Self /\ s # 0 /\ tx[s] \in Entries
           /\ EntryFits(s) /\ DirsFit(s)
           /\ holder = "tool"
    BY <1>1, SelfIsOne
  <1>3. GoesOn("stageId")
    BY ToolGoesOn DEF MakeStage, Points
  <1>4. new' = [new EXCEPT ![s] = "stage"]
    BY <1>2 DEF MakeStage, Self
  <1>5. ExchangeTypes' /\ OnlyAt(s)
    BY <1>1, <1>2, <1>3, <1>4 DEF ExchangeInv, ExchangeTypes, OnlyAt, GoesOn
  <1>6. SelfFits(s)
    BY <1>1, <1>2, <1>3, <1>4
    DEF SelfFits, ExchangeInv, ToolFits, ForwardFits, EntryFits, DirsFit, Past,
        Registered, Filling, Moving, Withdrawing, Self
  <1>7. ToolFits'
    BY <1>1, <1>2, <1>3, <1>4
    DEF ExchangeInv, ToolFits, ForwardFits, BackwardFits, EntryFits, DirsFit,
        Registered, Filling, Moving, Withdrawing, Self, GoesOn, ExchangeTypes
  <1>8. QED
    BY <1>1, <1>2, <1>3, <1>5, <1>6, <1>7, StepKeeps DEF Points

\* Its identity.
LEMMA SaveStageKeeps ==
  ASSUME ExchangeInv, SaveStage
  PROVE  ExchangeInv'
  <1>1. tool.at = "stageId" /\ UNCHANGED diskOf
    BY DEF SaveStage
  <1>2. PICK s \in Transactions :
           /\ s = Self /\ s # 0 /\ tx[s] \in Entries
           /\ EntryFits(s) /\ DirsFit(s)
           /\ holder = "tool"
    BY <1>1, SelfIsOne
  <1>3. GoesOn("preparing")
    BY ToolGoesOn DEF SaveStage, Points
  <1>4. EntrySaved(s, "stage_registered", tx[s].trash, TRUE)
    BY <1>2 DEF SaveStage, EntrySaved, Entries, ExchangeInv, ExchangeTypes, Phases, Filling
  <1>5. ExchangeTypes' /\ OnlyAt(s)
    BY <1>1, <1>2, <1>3, <1>4 DEF ExchangeInv, ExchangeTypes, OnlyAt, GoesOn, EntrySaved, diskOf
  <1>6. SelfFits(s)
    BY <1>1, <1>2, <1>3, <1>4
    DEF SelfFits, ExchangeInv, ToolFits, ForwardFits, EntryFits, DirsFit, Past,
        Registered, Filling, Moving, Withdrawing, Self, EntrySaved, diskOf
  <1>7. ToolFits'
    BY <1>1, <1>2, <1>3, <1>4
    DEF ExchangeInv, ToolFits, ForwardFits, BackwardFits, EntryFits, DirsFit,
        Registered, Filling, Moving, Withdrawing, Self, GoesOn, EntrySaved, diskOf
  <1>8. QED
    BY <1>1, <1>2, <1>3, <1>5, <1>6, <1>7, StepKeeps DEF Points

\* The stage is about to be filled.
LEMMA SavePreparingKeeps ==
  ASSUME ExchangeInv, SavePreparing
  PROVE  ExchangeInv'
  <1>1. tool.at = "preparing" /\ UNCHANGED diskOf
    BY DEF SavePreparing, Saving
  <1>2. PICK s \in Transactions :
           /\ s = Self /\ s # 0 /\ tx[s] \in Entries
           /\ EntryFits(s) /\ DirsFit(s)
           /\ holder = "tool"
    BY <1>1, SelfIsOne
  <1>3. GoesOn("copy")
    BY ToolGoesOn DEF SavePreparing, Saving, Points
  <1>4. EntrySaved(s, "preparing", tx[s].trash, tx[s].stage)
    BY <1>2, EnterSaves
    DEF SavePreparing, Saving, Phases, Registered, Filling, Moving, Withdrawing
  <1>5. ExchangeTypes' /\ OnlyAt(s)
    BY <1>1, <1>2, <1>3, <1>4 DEF ExchangeInv, ExchangeTypes, OnlyAt, GoesOn, EntrySaved, diskOf
  <1>6. SelfFits(s)
    BY <1>1, <1>2, <1>3, <1>4
    DEF SelfFits, ExchangeInv, ToolFits, ForwardFits, EntryFits, DirsFit, Past,
        Registered, Filling, Moving, Withdrawing, Self, EntrySaved, diskOf
  <1>7. ToolFits'
    BY <1>1, <1>2, <1>3, <1>4
    DEF ExchangeInv, ToolFits, ForwardFits, BackwardFits, EntryFits, DirsFit,
        Registered, Filling, Moving, Withdrawing, Self, GoesOn, EntrySaved, diskOf
  <1>8. QED
    BY <1>1, <1>2, <1>3, <1>5, <1>6, <1>7, StepKeeps DEF Points

\* The stage is filled and verified as a whole.
LEMMA CopyKeeps ==
  ASSUME ExchangeInv, Copy
  PROVE  ExchangeInv'
  <1>1. tool.at = "copy" /\ UNCHANGED <<tx, base, new, old, space>>
    BY DEF Copy
  <1>2. PICK s \in Transactions :
           /\ s = Self /\ s # 0 /\ tx[s] \in Entries
           /\ EntryFits(s) /\ DirsFit(s)
           /\ holder = "tool"
    BY <1>1, SelfIsOne
  <1>3. GoesOn("prepared")
    BY ToolGoesOn DEF Copy, Points
  <1>4. content' = [content EXCEPT ![s] = "whole"]
    BY <1>2 DEF Copy, Self
  <1>5. ExchangeTypes' /\ OnlyAt(s)
    BY <1>1, <1>2, <1>3, <1>4 DEF ExchangeInv, ExchangeTypes, OnlyAt, GoesOn
  <1>6. SelfFits(s)
    BY <1>1, <1>2, <1>3, <1>4
    DEF SelfFits, ExchangeInv, ToolFits, ForwardFits, EntryFits, DirsFit, Past,
        Registered, Filling, Moving, Withdrawing, Self
  <1>7. ToolFits'
    BY <1>1, <1>2, <1>3, <1>4
    DEF ExchangeInv, ToolFits, ForwardFits, BackwardFits, EntryFits, DirsFit,
        Registered, Filling, Moving, Withdrawing, Self, GoesOn, ExchangeTypes
  <1>8. QED
    BY <1>1, <1>2, <1>3, <1>5, <1>6, <1>7, StepKeeps DEF Points

\* The stage is whole.
LEMMA SavePreparedKeeps ==
  ASSUME ExchangeInv, SavePrepared
  PROVE  ExchangeInv'
  <1>1. tool.at = "prepared" /\ UNCHANGED diskOf
    BY DEF SavePrepared, Saving
  <1>2. PICK s \in Transactions :
           /\ s = Self /\ s # 0 /\ tx[s] \in Entries
           /\ EntryFits(s) /\ DirsFit(s)
           /\ holder = "tool"
    BY <1>1, SelfIsOne
  <1>3. GoesOn("oldIntent")
    BY ToolGoesOn DEF SavePrepared, Saving, Points
  <1>4. EntrySaved(s, "prepared", tx[s].trash, tx[s].stage)
    BY <1>2, EnterSaves
    DEF SavePrepared, Saving, Phases, Registered, Filling, Moving, Withdrawing
  <1>5. ExchangeTypes' /\ OnlyAt(s)
    BY <1>1, <1>2, <1>3, <1>4 DEF ExchangeInv, ExchangeTypes, OnlyAt, GoesOn, EntrySaved, diskOf
  <1>6. SelfFits(s)
    BY <1>1, <1>2, <1>3, <1>4
    DEF SelfFits, ExchangeInv, ToolFits, ForwardFits, EntryFits, DirsFit, Past,
        Registered, Filling, Moving, Withdrawing, Self, EntrySaved, diskOf
  <1>7. ToolFits'
    BY <1>1, <1>2, <1>3, <1>4
    DEF ExchangeInv, ToolFits, ForwardFits, BackwardFits, EntryFits, DirsFit,
        Registered, Filling, Moving, Withdrawing, Self, GoesOn, EntrySaved, diskOf
  <1>8. QED
    BY <1>1, <1>2, <1>3, <1>5, <1>6, <1>7, StepKeeps DEF Points

\* The intent to move the original, as long as it is at home.
LEMMA SaveOldIntentKeeps ==
  ASSUME ExchangeInv, SaveOldIntent
  PROVE  ExchangeInv'
  <1>1. tool.at = "oldIntent" /\ UNCHANGED diskOf /\ old = 0
    BY DEF SaveOldIntent, Saving
  <1>2. PICK s \in Transactions :
           /\ s = Self /\ s # 0 /\ tx[s] \in Entries
           /\ EntryFits(s) /\ DirsFit(s)
           /\ holder = "tool"
    BY <1>1, SelfIsOne
  <1>3. GoesOn("moveOld")
    BY ToolGoesOn DEF SaveOldIntent, Saving, Points
  <1>4. EntrySaved(s, "move_old_intent", tx[s].trash, tx[s].stage)
    BY <1>2, EnterSaves
    DEF SaveOldIntent, Saving, Phases, Registered, Filling, Moving, Withdrawing
  <1>5. ExchangeTypes' /\ OnlyAt(s)
    BY <1>1, <1>2, <1>3, <1>4 DEF ExchangeInv, ExchangeTypes, OnlyAt, GoesOn, EntrySaved, diskOf
  <1>6. SelfFits(s)
    BY <1>1, <1>2, <1>3, <1>4
    DEF SelfFits, ExchangeInv, ToolFits, ForwardFits, EntryFits, DirsFit, Past,
        Registered, Filling, Moving, Withdrawing, Self, EntrySaved, diskOf
  <1>7. ToolFits'
    BY <1>1, <1>2, <1>3, <1>4
    DEF ExchangeInv, ToolFits, ForwardFits, BackwardFits, EntryFits, DirsFit,
        Registered, Filling, Moving, Withdrawing, Self, GoesOn, EntrySaved, diskOf
  <1>8. QED
    BY <1>1, <1>2, <1>3, <1>5, <1>6, <1>7, StepKeeps DEF Points

\* The original was moved by an earlier command.
LEMMA OldIsMovedKeeps ==
  ASSUME ExchangeInv, OldIsMoved
  PROVE  ExchangeInv'
  <1>1. tool.at = "oldIntent" /\ UNCHANGED <<tx, base, new, old, content, space>>
    BY DEF OldIsMoved, diskOf
  <1>2. PICK s \in Transactions :
           /\ s = Self /\ s # 0 /\ tx[s] \in Entries
           /\ EntryFits(s) /\ DirsFit(s)
           /\ holder = "tool"
    BY <1>1, SelfIsOne
  <1>3. GoesOn("newIntent")
    BY ToolGoesOn DEF OldIsMoved, Points
  <1>4. old # 0
    BY <1>2 DEF OldIsMoved
  <1>5. ExchangeTypes' /\ OnlyAt(s)
    BY <1>1, <1>2, <1>3, <1>4 DEF ExchangeInv, ExchangeTypes, OnlyAt, GoesOn
  <1>6. SelfFits(s)
    BY <1>1, <1>2, <1>3, <1>4
    DEF SelfFits, ExchangeInv, ToolFits, ForwardFits, EntryFits, DirsFit, Past,
        Registered, Filling, Moving, Withdrawing, Self
  <1>7. ToolFits'
    BY <1>1, <1>2, <1>3, <1>4
    DEF ExchangeInv, ToolFits, ForwardFits, BackwardFits, EntryFits, DirsFit,
        Registered, Filling, Moving, Withdrawing, Self, GoesOn
  <1>8. QED
    BY <1>1, <1>2, <1>3, <1>5, <1>6, <1>7, StepKeeps DEF Points

\* The original leaves its place.
LEMMA MoveOldKeeps ==
  ASSUME ExchangeInv, MoveOld
  PROVE  ExchangeInv'
  <1>1. tool.at = "moveOld" /\ UNCHANGED <<tx, base, new, content, space>>
    BY DEF MoveOld
  <1>2. PICK s \in Transactions :
           /\ s = Self /\ s # 0 /\ tx[s] \in Entries
           /\ EntryFits(s) /\ DirsFit(s)
           /\ holder = "tool"
    BY <1>1, SelfIsOne
  <1>3. GoesOn("oldMoved")
    BY ToolGoesOn DEF MoveOld, Points
  <1>4. old = 0 /\ old' = s
    BY <1>2 DEF MoveOld, Self
  <1>5. ExchangeTypes' /\ OnlyAt(s)
    BY <1>1, <1>2, <1>3, <1>4
    DEF ExchangeInv, ExchangeTypes, OnlyAt, GoesOn,
           Transactions
  <1>6. SelfFits(s)
    BY <1>1, <1>2, <1>3, <1>4
    DEF SelfFits, ExchangeInv, ToolFits, ForwardFits, EntryFits, DirsFit, Past,
        Registered, Filling, Moving, Withdrawing, Self
  <1>7. ToolFits'
    BY <1>1, <1>2, <1>3, <1>4
    DEF ExchangeInv, ToolFits, ForwardFits, BackwardFits, EntryFits, DirsFit,
        Registered, Filling, Moving, Withdrawing, Self, GoesOn
  <1>8. QED
    BY <1>1, <1>2, <1>3, <1>5, <1>6, <1>7, StepKeeps DEF Points

\* The original is in the trash.
LEMMA SaveOldMovedKeeps ==
  ASSUME ExchangeInv, SaveOldMoved
  PROVE  ExchangeInv'
  <1>1. tool.at = "oldMoved" /\ UNCHANGED diskOf
    BY DEF SaveOldMoved, Saving
  <1>2. PICK s \in Transactions :
           /\ s = Self /\ s # 0 /\ tx[s] \in Entries
           /\ EntryFits(s) /\ DirsFit(s)
           /\ holder = "tool"
    BY <1>1, SelfIsOne
  <1>3. GoesOn("newIntent")
    BY ToolGoesOn DEF SaveOldMoved, Saving, Points
  <1>4. EntrySaved(s, "old_moved", tx[s].trash, tx[s].stage)
    BY <1>2, EnterSaves
    DEF SaveOldMoved, Saving, Phases, Registered, Filling, Moving, Withdrawing
  <1>5. ExchangeTypes' /\ OnlyAt(s)
    BY <1>1, <1>2, <1>3, <1>4 DEF ExchangeInv, ExchangeTypes, OnlyAt, GoesOn, EntrySaved, diskOf
  <1>6. SelfFits(s)
    BY <1>1, <1>2, <1>3, <1>4
    DEF SelfFits, ExchangeInv, ToolFits, ForwardFits, EntryFits, DirsFit, Past,
        Registered, Filling, Moving, Withdrawing, Self, EntrySaved, diskOf
  <1>7. ToolFits'
    BY <1>1, <1>2, <1>3, <1>4
    DEF ExchangeInv, ToolFits, ForwardFits, BackwardFits, EntryFits, DirsFit,
        Registered, Filling, Moving, Withdrawing, Self, GoesOn, EntrySaved, diskOf
  <1>8. QED
    BY <1>1, <1>2, <1>3, <1>5, <1>6, <1>7, StepKeeps DEF Points

\* The intent to move the converted directory.
LEMMA SaveNewIntentKeeps ==
  ASSUME ExchangeInv, SaveNewIntent
  PROVE  ExchangeInv'
  <1>1. tool.at = "newIntent" /\ UNCHANGED diskOf /\ new[Self] = "stage"
    BY DEF SaveNewIntent, Saving
  <1>2. PICK s \in Transactions :
           /\ s = Self /\ s # 0 /\ tx[s] \in Entries
           /\ EntryFits(s) /\ DirsFit(s)
           /\ holder = "tool"
    BY <1>1, SelfIsOne
  <1>3. GoesOn("moveNew")
    BY ToolGoesOn DEF SaveNewIntent, Saving, Points
  <1>4. EntrySaved(s, "move_new_intent", tx[s].trash, tx[s].stage)
    BY <1>2, EnterSaves
    DEF SaveNewIntent, Saving, Phases, Registered, Filling, Moving, Withdrawing
  <1>5. ExchangeTypes' /\ OnlyAt(s)
    BY <1>1, <1>2, <1>3, <1>4 DEF ExchangeInv, ExchangeTypes, OnlyAt, GoesOn, EntrySaved, diskOf
  <1>6. SelfFits(s)
    BY <1>1, <1>2, <1>3, <1>4
    DEF SelfFits, ExchangeInv, ToolFits, ForwardFits, EntryFits, DirsFit, Past,
        Registered, Filling, Moving, Withdrawing, Self, EntrySaved, diskOf
  <1>7. ToolFits'
    BY <1>1, <1>2, <1>3, <1>4
    DEF ExchangeInv, ToolFits, ForwardFits, BackwardFits, EntryFits, DirsFit,
        Registered, Filling, Moving, Withdrawing, Self, GoesOn, EntrySaved, diskOf
  <1>8. QED
    BY <1>1, <1>2, <1>3, <1>5, <1>6, <1>7, StepKeeps DEF Points

\* The converted directory was moved by an earlier command.
LEMMA NewIsMovedKeeps ==
  ASSUME ExchangeInv, NewIsMoved
  PROVE  ExchangeInv'
  <1>1. tool.at = "newIntent" /\ UNCHANGED <<tx, base, new, old, content, space>>
    BY DEF NewIsMoved, diskOf
  <1>2. PICK s \in Transactions :
           /\ s = Self /\ s # 0 /\ tx[s] \in Entries
           /\ EntryFits(s) /\ DirsFit(s)
           /\ holder = "tool"
    BY <1>1, SelfIsOne
  <1>3. GoesOn("commit")
    BY ToolGoesOn DEF NewIsMoved, Points
  <1>4. new[s] # "stage"
    BY <1>2 DEF NewIsMoved, Self
  <1>5. ExchangeTypes' /\ OnlyAt(s)
    BY <1>1, <1>2, <1>3, <1>4 DEF ExchangeInv, ExchangeTypes, OnlyAt, GoesOn
  <1>6. SelfFits(s)
    BY <1>1, <1>2, <1>3, <1>4
    DEF SelfFits, ExchangeInv, ToolFits, ForwardFits, EntryFits, DirsFit, Past,
        Registered, Filling, Moving, Withdrawing, Self
  <1>7. ToolFits'
    BY <1>1, <1>2, <1>3, <1>4
    DEF ExchangeInv, ToolFits, ForwardFits, BackwardFits, EntryFits, DirsFit,
        Registered, Filling, Moving, Withdrawing, Self, GoesOn
  <1>8. QED
    BY <1>1, <1>2, <1>3, <1>5, <1>6, <1>7, StepKeeps DEF Points

\* The converted directory takes the place, which is free.
LEMMA MoveNewKeeps ==
  ASSUME ExchangeInv, MoveNew
  PROVE  ExchangeInv'
  <1>1. tool.at = "moveNew" /\ UNCHANGED <<tx, base, old, content, space>>
    BY DEF MoveNew
  <1>2. PICK s \in Transactions :
           /\ s = Self /\ s # 0 /\ tx[s] \in Entries
           /\ EntryFits(s) /\ DirsFit(s)
           /\ holder = "tool"
    BY <1>1, SelfIsOne
  <1>3. GoesOn("newMoved")
    BY ToolGoesOn DEF MoveNew, Points
  <1>4. old # 0 /\ new' = [new EXCEPT ![s] = "original"]
    BY <1>2 DEF MoveNew, Self
  <1>5. ExchangeTypes' /\ OnlyAt(s)
    BY <1>1, <1>2, <1>3, <1>4 DEF ExchangeInv, ExchangeTypes, OnlyAt, GoesOn
  <1>6. SelfFits(s)
    BY <1>1, <1>2, <1>3, <1>4
    DEF SelfFits, ExchangeInv, ToolFits, ForwardFits, EntryFits, DirsFit, Past,
        Registered, Filling, Moving, Withdrawing, Self
  <1>7. ToolFits'
    BY <1>1, <1>2, <1>3, <1>4
    DEF ExchangeInv, ToolFits, ForwardFits, BackwardFits, EntryFits, DirsFit,
        Registered, Filling, Moving, Withdrawing, Self, GoesOn, ExchangeTypes
  <1>8. QED
    BY <1>1, <1>2, <1>3, <1>5, <1>6, <1>7, StepKeeps DEF Points

\* The converted directory is published.
LEMMA SaveNewMovedKeeps ==
  ASSUME ExchangeInv, SaveNewMoved
  PROVE  ExchangeInv'
  <1>1. tool.at = "newMoved" /\ UNCHANGED diskOf
    BY DEF SaveNewMoved, Saving
  <1>2. PICK s \in Transactions :
           /\ s = Self /\ s # 0 /\ tx[s] \in Entries
           /\ EntryFits(s) /\ DirsFit(s)
           /\ holder = "tool"
    BY <1>1, SelfIsOne
  <1>3. GoesOn("commit")
    BY ToolGoesOn DEF SaveNewMoved, Saving, Points
  <1>4. EntrySaved(s, "new_moved", tx[s].trash, tx[s].stage)
    BY <1>2, EnterSaves
    DEF SaveNewMoved, Saving, Phases, Registered, Filling, Moving, Withdrawing
  <1>5. ExchangeTypes' /\ OnlyAt(s)
    BY <1>1, <1>2, <1>3, <1>4 DEF ExchangeInv, ExchangeTypes, OnlyAt, GoesOn, EntrySaved, diskOf
  <1>6. SelfFits(s)
    BY <1>1, <1>2, <1>3, <1>4
    DEF SelfFits, ExchangeInv, ToolFits, ForwardFits, EntryFits, DirsFit, Past,
        Registered, Filling, Moving, Withdrawing, Self, EntrySaved, diskOf
  <1>7. ToolFits'
    BY <1>1, <1>2, <1>3, <1>4
    DEF ExchangeInv, ToolFits, ForwardFits, BackwardFits, EntryFits, DirsFit,
        Registered, Filling, Moving, Withdrawing, Self, GoesOn, EntrySaved, diskOf
  <1>8. QED
    BY <1>1, <1>2, <1>3, <1>5, <1>6, <1>7, StepKeeps DEF Points

\* The converted directory goes back to the trash.
LEMMA RetainKeeps ==
  ASSUME ExchangeInv, Retain
  PROVE  ExchangeInv'
  <1>1. tool.at = "retain" /\ UNCHANGED <<tx, base, old, content, space>>
    BY DEF Retain
  <1>2. PICK s \in Transactions :
           /\ s = Self /\ s # 0 /\ tx[s] \in Entries
           /\ EntryFits(s) /\ DirsFit(s)
           /\ holder = "tool"
    BY <1>1, SelfIsOne
  <1>3. GoesOn("retained")
    BY ToolGoesOn DEF Retain, Points
  <1>4. new' = [new EXCEPT ![s] = "retained"]
    BY <1>2 DEF Retain, Self
  <1>5. ExchangeTypes' /\ OnlyAt(s)
    BY <1>1, <1>2, <1>3, <1>4 DEF ExchangeInv, ExchangeTypes, OnlyAt, GoesOn
  <1>6. SelfFits(s)
    BY <1>1, <1>2, <1>3, <1>4
    DEF SelfFits, ExchangeInv, ToolFits, BackwardFits, EntryFits, DirsFit, Past,
        Registered, Filling, Moving, Withdrawing, Self
  <1>7. ToolFits'
    BY <1>1, <1>2, <1>3, <1>4
    DEF ExchangeInv, ToolFits, ForwardFits, BackwardFits, EntryFits, DirsFit,
        Registered, Filling, Moving, Withdrawing, Self, GoesOn, ExchangeTypes
  <1>8. QED
    BY <1>1, <1>2, <1>3, <1>5, <1>6, <1>7, StepKeeps DEF Points

\* The converted directory is back in the trash.
LEMMA SaveRetainedKeeps ==
  ASSUME ExchangeInv, SaveRetained
  PROVE  ExchangeInv'
  <1>1. tool.at = "retained" /\ UNCHANGED diskOf
    BY DEF SaveRetained, Saving
  <1>2. PICK s \in Transactions :
           /\ s = Self /\ s # 0 /\ tx[s] \in Entries
           /\ EntryFits(s) /\ DirsFit(s)
           /\ holder = "tool"
    BY <1>1, SelfIsOne
  <1>3. GoesOn("oldBack")
    BY ToolGoesOn DEF SaveRetained, Saving, Points
  <1>4. EntrySaved(s, "rollback_new_moved", tx[s].trash, tx[s].stage)
    BY <1>2, EnterSaves
    DEF SaveRetained, Saving, Phases, Registered, Filling, Moving, Withdrawing
  <1>5. ExchangeTypes' /\ OnlyAt(s)
    BY <1>1, <1>2, <1>3, <1>4 DEF ExchangeInv, ExchangeTypes, OnlyAt, GoesOn, EntrySaved, diskOf
  <1>6. SelfFits(s)
    BY <1>1, <1>2, <1>3, <1>4
    DEF SelfFits, ExchangeInv, ToolFits, BackwardFits, EntryFits, DirsFit, Past,
        Registered, Filling, Moving, Withdrawing, Self, EntrySaved, diskOf
  <1>7. ToolFits'
    BY <1>1, <1>2, <1>3, <1>4
    DEF ExchangeInv, ToolFits, ForwardFits, BackwardFits, EntryFits, DirsFit,
        Registered, Filling, Moving, Withdrawing, Self, GoesOn, EntrySaved, diskOf
  <1>8. QED
    BY <1>1, <1>2, <1>3, <1>5, <1>6, <1>7, StepKeeps DEF Points

\* The intent to move the original back.
LEMMA SaveOldBackKeeps ==
  ASSUME ExchangeInv, SaveOldBack
  PROVE  ExchangeInv'
  <1>1. tool.at = "oldBack" /\ UNCHANGED diskOf /\ old # 0
    BY DEF SaveOldBack, Saving
  <1>2. PICK s \in Transactions :
           /\ s = Self /\ s # 0 /\ tx[s] \in Entries
           /\ EntryFits(s) /\ DirsFit(s)
           /\ holder = "tool"
    BY <1>1, SelfIsOne
  <1>3. GoesOn("restore")
    BY ToolGoesOn DEF SaveOldBack, Saving, Points
  <1>4. EntrySaved(s, "rollback_old_intent", tx[s].trash, tx[s].stage)
    BY <1>2, EnterSaves
    DEF SaveOldBack, Saving, Phases, Registered, Filling, Moving, Withdrawing
  <1>5. ExchangeTypes' /\ OnlyAt(s)
    BY <1>1, <1>2, <1>3, <1>4 DEF ExchangeInv, ExchangeTypes, OnlyAt, GoesOn, EntrySaved, diskOf
  <1>6. SelfFits(s)
    BY <1>1, <1>2, <1>3, <1>4
    DEF SelfFits, ExchangeInv, ToolFits, BackwardFits, EntryFits, DirsFit, Past,
        Registered, Filling, Moving, Withdrawing, Self, EntrySaved, diskOf
  <1>7. ToolFits'
    BY <1>1, <1>2, <1>3, <1>4
    DEF ExchangeInv, ToolFits, ForwardFits, BackwardFits, EntryFits, DirsFit,
        Registered, Filling, Moving, Withdrawing, Self, GoesOn, EntrySaved, diskOf
  <1>8. QED
    BY <1>1, <1>2, <1>3, <1>5, <1>6, <1>7, StepKeeps DEF Points

\* The original never left, or is back already.
LEMMA OldIsBackKeeps ==
  ASSUME ExchangeInv, OldIsBack
  PROVE  ExchangeInv'
  <1>1. tool.at = "oldBack" /\ UNCHANGED <<tx, base, new, old, content, space>>
    BY DEF OldIsBack, diskOf
  <1>2. PICK s \in Transactions :
           /\ s = Self /\ s # 0 /\ tx[s] \in Entries
           /\ EntryFits(s) /\ DirsFit(s)
           /\ holder = "tool"
    BY <1>1, SelfIsOne
  <1>3. GoesOn("settle")
    BY ToolGoesOn DEF OldIsBack, Points
  <1>4. old = 0
    BY <1>2 DEF OldIsBack
  <1>5. ExchangeTypes' /\ OnlyAt(s)
    BY <1>1, <1>2, <1>3, <1>4 DEF ExchangeInv, ExchangeTypes, OnlyAt, GoesOn
  <1>6. SelfFits(s)
    BY <1>1, <1>2, <1>3, <1>4
    DEF SelfFits, ExchangeInv, ToolFits, BackwardFits, EntryFits, DirsFit, Past,
        Registered, Filling, Moving, Withdrawing, Self
  <1>7. ToolFits'
    BY <1>1, <1>2, <1>3, <1>4
    DEF ExchangeInv, ToolFits, ForwardFits, BackwardFits, EntryFits, DirsFit,
        Registered, Filling, Moving, Withdrawing, Self, GoesOn
  <1>8. QED
    BY <1>1, <1>2, <1>3, <1>5, <1>6, <1>7, StepKeeps DEF Points

\* The original is back at its place, which is free.
LEMMA RestoreKeeps ==
  ASSUME ExchangeInv, Restore
  PROVE  ExchangeInv'
  <1>1. tool.at = "restore" /\ UNCHANGED <<tx, base, new, content, space>>
    BY DEF Restore
  <1>2. PICK s \in Transactions :
           /\ s = Self /\ s # 0 /\ tx[s] \in Entries
           /\ EntryFits(s) /\ DirsFit(s)
           /\ holder = "tool"
    BY <1>1, SelfIsOne
  <1>3. GoesOn("settle")
    BY ToolGoesOn DEF Restore, Points
  <1>4. old' = 0
    BY <1>2 DEF Restore
  <1>5. ExchangeTypes' /\ OnlyAt(s)
    BY <1>1, <1>2, <1>3, <1>4, ExchangeAssumption
    DEF ExchangeInv, ExchangeTypes, OnlyAt, GoesOn,
           Transactions, Self, ToolFits, BackwardFits
  <1>6. SelfFits(s)
    BY <1>1, <1>2, <1>3, <1>4
    DEF SelfFits, ExchangeInv, ToolFits, BackwardFits, EntryFits, DirsFit, Past,
        Registered, Filling, Moving, Withdrawing, Self
  <1>7. ToolFits'
    BY <1>1, <1>2, <1>3, <1>4
    DEF ExchangeInv, ToolFits, ForwardFits, BackwardFits, EntryFits, DirsFit,
        Registered, Filling, Moving, Withdrawing, Self, GoesOn
  <1>8. QED
    BY <1>1, <1>2, <1>3, <1>5, <1>6, <1>7, StepKeeps DEF Points

-----------------------------------------------------------------------------
(* The exchange: the beginnings and the ends of a command.                 *)

\* Wherever the tool dies, it leaves what its last save announced.
LEMMA ToolDiesKeeps ==
  ASSUME ExchangeInv, ToolDies
  PROVE  ExchangeInv'
  <1>1. tool.at # "none" /\ ToolEnds /\ UNCHANGED <<space, base, tx, old, new>>
    BY DEF ToolDies, NoTool, Running, ExchangeInv, ExchangeTypes, ToolFits
  <1>2. PICK s \in Transactions :
           /\ s = Self /\ s # 0 /\ tx[s] \in Entries
           /\ EntryFits(s) /\ DirsFit(s)
           /\ holder = "tool"
    BY <1>1, SelfIsOne
  <1>3. content' = content
           \/ (tool.at = "copy" /\ content' = [content EXCEPT ![s] = "partial"])
    BY <1>2 DEF ToolDies
  <1>4. tool' \in Running
    BY <1>1, ExchangeAssumption DEF ToolEnds, NoTool, Running, Points
  <1>5. ExchangeTypes' /\ OnlyAt(s)
    BY <1>1, <1>2, <1>3, <1>4 DEF ExchangeInv, ExchangeTypes, OnlyAt
  <1>6. SelfFits(s)
    BY <1>1, <1>2, <1>3
    DEF SelfFits, ExchangeInv, ExchangeTypes, ToolFits, ForwardFits, EntryFits, DirsFit, Past,
        Registered, Filling, Moving, Withdrawing, Self
  <1>7. QED
    BY <1>1, <1>2, <1>5, <1>6, EndKeeps

\* A command that begins changes nothing but itself.
LEMMA BeginKeeps ==
  ASSUME ExchangeInv, UNCHANGED <<diskOf, tx>>, Take("tool"), tool' \in Running,
         tool'.at # "none", ToolFits'
  PROVE  ExchangeInv'
  <1>1. ExchangeTypes'
    BY DEF ExchangeInv, ExchangeTypes, diskOf
  <1>2. EntriesFit' /\ OneAtATime'
    BY DEF ExchangeInv, EntriesFit, OneAtATime, EntryFits, DirsFit, Latest, Past, diskOf
  <1>3. LockFits'
    BY DEF ExchangeInv, LockFits, Take, Holders
  <1>4. QED
    BY <1>1, <1>2, <1>3 DEF ExchangeInv

\* A conversion begins when all others are rolled back: were one committed, the
\* original would not be at home.
LEMMA ConversionKeeps ==
  ASSUME ExchangeInv, Conversion
  PROVE  ExchangeInv'
  <1>1. UNCHANGED <<diskOf, tx>> /\ Take("tool") /\ old = 0
    BY DEF Conversion
  <1>2. PICK t \in Transactions \ Begun :
           /\ \A u \in Transactions : u < t => u \in Begun
           /\ tool' = [at |-> IF sentinel THEN "intent" ELSE "sentinel", tx |-> t]
    BY DEF Conversion
  <1>3. ASSUME NEW u \in Transactions, u < t
        PROVE  Past(u)
    <2>1. u \in Begun /\ tx[u].phase \in Terminal /\ EntryFits(u) /\ DirsFit(u) /\ u # 0
      BY <1>2, <1>3 DEF Conversion, ExchangeQuiet, ExchangeInv, EntriesFit, Transactions
    <2>2. tx[u].phase = "rolled_back"
      BY <1>1, <2>1 DEF DirsFit, Terminal
    <2>3. QED
      BY <2>1, <2>2 DEF DirsFit, Past, Withdrawing
  <1>4. Latest(t) /\ tx[t].phase = "none"
    BY <1>2, <1>3 DEF Latest, Begun
  <1>5. (Latest(t) /\ tx[t].phase = "none" /\ old = 0)'
    BY <1>1, <1>4 DEF Latest, Past, diskOf
  <1>6. tool' \in Running /\ tool'.at \in {"intent", "sentinel"} /\ tool'.tx = t
    BY <1>2 DEF Running, Points, Transactions
  <1>7. ToolFits'
    BY <1>5, <1>6 DEF ToolFits, ForwardFits, BackwardFits
  <1>8. QED
    BY <1>1, <1>6, <1>7, BeginKeeps

\* finish and rollback begin with any transaction of the journal.
LEMMA CommandKeeps ==
  ASSUME ExchangeInv, NEW step \in {"finish", "rollback"}, Command(step)
  PROVE  ExchangeInv'
  <1>1. UNCHANGED <<diskOf, tx>> /\ Take("tool")
    BY DEF Command
  <1>2. PICK t \in Begun : tool' = [at |-> step, tx |-> t]
    BY DEF Command
  <1>3. tool' \in Running /\ tool'.at = step /\ tool'.tx = t
    BY <1>2 DEF Running, Points, Transactions, Begun
  <1>4. ToolFits'
    BY <1>1, <1>2, <1>3 DEF ToolFits, ForwardFits, BackwardFits, Begun
  <1>5. QED
    BY <1>1, <1>3, <1>4, BeginKeeps

\* What finish admits is in order up to the point where it goes on.
LEMMA FinishKeeps ==
  ASSUME ExchangeInv, Finish
  PROVE  ExchangeInv'
  <1>1. tool.at = "finish" /\ UNCHANGED <<tx, base, new, old, content, space>>
    BY DEF Finish, diskOf
  <1>2. PICK s \in Transactions :
           /\ s = Self /\ s # 0 /\ tx[s] \in Entries
           /\ EntryFits(s) /\ DirsFit(s)
           /\ holder = "tool"
    BY <1>1, SelfIsOne
  <1>3. FinishAdmitted(s) /\ tx[s].phase # "none" /\ tx[s].phase \in Phases
    BY <1>1, <1>2 DEF Finish, ExchangeInv, ToolFits, Self, Entries
  <1>4. old \in {0, s} /\ tx[s].phase \notin Withdrawing /\ tx[s].trash = base[s]
    BY <1>3 DEF FinishAdmitted, OldKnown, TrashKnown
  <1>5. OnlyAt(s) /\ SelfFits(s)
    BY <1>1, <1>2, <1>3 DEF OnlyAt, SelfFits, EntryFits, DirsFit, Past
  <1>6. ASSUME NEW step \in Points \ {"none"}, ToolGoes(step),
               GoesOn(step) => ToolFits'
        PROVE  ExchangeInv'
    <2>1. GoesOn(step)
      BY <1>6, ToolGoesOn
    <2>2. ExchangeTypes'
      BY <1>1, <2>1 DEF ExchangeInv, ExchangeTypes, GoesOn
    <2>3. QED
      BY <1>1, <1>2, <1>5, <1>6, <2>1, <2>2, StepKeeps
  <1>7. CASE ~tx[s].trash /\ space = "absent"
    <2>1. ToolGoes("namespace")
      BY <1>2, <1>7 DEF Finish, Entry, EntryFits, Filling
    <2>2. GoesOn("namespace") => ToolFits'
      BY <1>1, <1>2, <1>3, <1>4, <1>7
      DEF ToolFits, ForwardFits, BackwardFits, EntryFits, DirsFit, Phases,
          Registered, Filling, Moving, Self, GoesOn
    <2>3. QED
      BY <1>6, <2>1, <2>2 DEF Points
  <1>8. CASE ~tx[s].trash /\ space = "owned"
    <2>1. ToolGoes("base")
      BY <1>2, <1>8 DEF Finish, Entry, EntryFits, Filling
    <2>2. GoesOn("base") => ToolFits'
      BY <1>1, <1>2, <1>3, <1>4, <1>8
      DEF ToolFits, ForwardFits, BackwardFits, EntryFits, DirsFit, Phases,
          Registered, Filling, Moving, Self, GoesOn
    <2>3. QED
      BY <1>6, <2>1, <2>2 DEF Points
  <1>9. CASE tx[s].trash /\ ~tx[s].stage
    <2>1. ToolGoes("stageIntent")
      BY <1>2, <1>9 DEF Finish, Entry, EntryFits, Filling
    <2>2. GoesOn("stageIntent") => ToolFits'
      BY <1>1, <1>2, <1>3, <1>4, <1>9
      DEF ToolFits, ForwardFits, BackwardFits, FinishAdmitted, Registered, Self, GoesOn
    <2>3. QED
      BY <1>6, <2>1, <2>2 DEF Points
  <1>10. CASE tx[s].stage /\ tx[s].phase \in Filling
    <2>1. tx[s].trash
      BY <1>2, <1>10 DEF EntryFits
    <2>2. ToolGoes("preparing")
      BY <1>2, <1>10, <2>1 DEF Finish, Entry, Filling
    <2>3. GoesOn("preparing") => ToolFits'
      BY <1>1, <1>2, <1>3, <1>4, <1>10
      DEF ToolFits, ForwardFits, BackwardFits, FinishAdmitted, Filling, Self, GoesOn
    <2>4. QED
      BY <1>6, <2>2, <2>3 DEF Points
  <1>11. CASE tx[s].stage /\ tx[s].phase \notin Filling
    <2>1. tx[s].trash /\ tx[s].phase \in Moving
      BY <1>2, <1>3, <1>4, <1>11 DEF EntryFits, Phases, Registered
    <2>2. ToolGoes("oldIntent")
      BY <1>2, <1>11, <2>1 DEF Finish, Entry, Filling
    <2>3. GoesOn("oldIntent") => ToolFits'
      BY <1>1, <1>2, <1>3, <1>4, <2>1
      DEF ToolFits, ForwardFits, BackwardFits, Self, GoesOn
    <2>4. QED
      BY <1>6, <2>2, <2>3 DEF Points
  <1>12. tx[s].trash \/ space \in {"absent", "owned"}
    BY <1>3 DEF FinishAdmitted, ExchangeInv, ExchangeTypes
  <1>13. QED
    BY <1>7, <1>8, <1>9, <1>10, <1>11, <1>12, <1>2 DEF EntryFits, Entries

\* The end of a command that commits.
LEMMA CommitKeeps ==
  ASSUME ExchangeInv, Commit
  PROVE  ExchangeInv'
  <1>1. tool.at = "commit" /\ ToolEnds /\ UNCHANGED diskOf
    BY DEF Commit
  <1>2. PICK s \in Transactions :
           /\ s = Self /\ s # 0 /\ tx[s] \in Entries
           /\ EntryFits(s) /\ DirsFit(s)
           /\ holder = "tool"
    BY <1>1, SelfIsOne
  <1>3. EntrySaved(s, "committed", tx[s].trash, tx[s].stage)
    BY <1>2, EnterSaves DEF Commit, Phases, Moving
  <1>4. tool' \in Running
    BY <1>1, ExchangeAssumption DEF ToolEnds, NoTool, Running, Points
  <1>5. ExchangeTypes' /\ OnlyAt(s)
    BY <1>1, <1>3, <1>4 DEF ExchangeInv, ExchangeTypes, OnlyAt, EntrySaved, diskOf
  <1>6. SelfFits(s)
    BY <1>1, <1>2, <1>3
    DEF SelfFits, ExchangeInv, ToolFits, ForwardFits, EntryFits, DirsFit, Past,
        Registered, Filling, Moving, Withdrawing, Self, EntrySaved, diskOf
  <1>7. QED
    BY <1>1, <1>2, <1>5, <1>6, EndKeeps

\* Without a stage there was nothing to move.
LEMMA RollbackAtOnceKeeps ==
  ASSUME ExchangeInv, RollbackAtOnce
  PROVE  ExchangeInv'
  <1>1. tool.at = "rollback" /\ ToolEnds /\ UNCHANGED diskOf
    BY DEF RollbackAtOnce
  <1>2. PICK s \in Transactions :
           /\ s = Self /\ s # 0 /\ tx[s] \in Entries
           /\ EntryFits(s) /\ DirsFit(s)
           /\ holder = "tool"
    BY <1>1, SelfIsOne
  <1>3. tx[s].phase # "none" /\ RollbackAdmitted(s) /\ ~tx[s].stage
    BY <1>1, <1>2 DEF RollbackAtOnce, Entry, Self, ExchangeInv, ToolFits
  <1>4. EntrySaved(s, "rolled_back", tx[s].trash, tx[s].stage)
    BY <1>2, EnterSaves DEF RollbackAtOnce, Phases, Withdrawing
  <1>5. tool' \in Running
    BY <1>1, ExchangeAssumption DEF ToolEnds, NoTool, Running, Points
  <1>6. ExchangeTypes' /\ OnlyAt(s)
    BY <1>1, <1>4, <1>5 DEF ExchangeInv, ExchangeTypes, OnlyAt, EntrySaved, diskOf
  <1>7. SelfFits(s)
    BY <1>1, <1>2, <1>3, <1>4
    DEF SelfFits, RollbackAdmitted, TrashKnown, EntryFits, DirsFit, Past,
        Registered, Filling, Moving, Withdrawing, EntrySaved, diskOf
  <1>8. QED
    BY <1>1, <1>2, <1>6, <1>7, EndKeeps

\* The end of a rollback: both directories are back where they belong.
LEMMA SettleKeeps ==
  ASSUME ExchangeInv, Settle
  PROVE  ExchangeInv'
  <1>1. tool.at = "settle" /\ ToolEnds /\ UNCHANGED diskOf
    BY DEF Settle
  <1>2. PICK s \in Transactions :
           /\ s = Self /\ s # 0 /\ tx[s] \in Entries
           /\ EntryFits(s) /\ DirsFit(s)
           /\ holder = "tool"
    BY <1>1, SelfIsOne
  <1>3. EntrySaved(s, "rolled_back", tx[s].trash, tx[s].stage)
    BY <1>2, EnterSaves DEF Settle, Phases, Withdrawing
  <1>4. tool' \in Running
    BY <1>1, ExchangeAssumption DEF ToolEnds, NoTool, Running, Points
  <1>5. ExchangeTypes' /\ OnlyAt(s)
    BY <1>1, <1>3, <1>4 DEF ExchangeInv, ExchangeTypes, OnlyAt, EntrySaved, diskOf
  <1>6. SelfFits(s)
    BY <1>1, <1>2, <1>3
    DEF SelfFits, ExchangeInv, ToolFits, BackwardFits, EntryFits, DirsFit, Past,
        Registered, Filling, Moving, Withdrawing, Self, EntrySaved, Entries, diskOf
  <1>7. QED
    BY <1>1, <1>2, <1>5, <1>6, EndKeeps

\* What a rollback admits has its stage at one of three places.
LEMMA RollbackKeeps ==
  ASSUME ExchangeInv, Rollback
  PROVE  ExchangeInv'
  <1> DEFINE step == IF new[Self] = "retained" THEN "oldBack" ELSE "retain"
  <1>1. tool.at = "rollback" /\ UNCHANGED diskOf /\ step \in Points \ {"none"}
    BY DEF Rollback, Saving, Points
  <1>2. PICK s \in Transactions :
           /\ s = Self /\ s # 0 /\ tx[s] \in Entries
           /\ EntryFits(s) /\ DirsFit(s)
           /\ holder = "tool"
    BY <1>1, SelfIsOne
  <1>3. tx[s].phase # "none" /\ RollbackAdmitted(s) /\ tx[s].stage
    BY <1>1, <1>2 DEF Rollback, Entry, Self, ExchangeInv, ToolFits
  <1>4. ToolGoes(step) /\ Enter("rollback_intent")
    BY DEF Rollback, Saving
  <1>5. GoesOn(step)
    BY <1>1, <1>4, ToolGoesOn
  <1>6. EntrySaved(s, "rollback_intent", tx[s].trash, tx[s].stage)
    BY <1>2, <1>4, EnterSaves DEF Phases, Withdrawing
  <1>7. ExchangeTypes' /\ OnlyAt(s)
    BY <1>1, <1>5, <1>6 DEF ExchangeInv, ExchangeTypes, OnlyAt, GoesOn, EntrySaved, diskOf
  <1>8. SelfFits(s)
    BY <1>1, <1>2, <1>3, <1>6
    DEF SelfFits, RollbackAdmitted, NewKnown, OldKnown, EntryFits, DirsFit, Past,
        Registered, Filling, Moving, Withdrawing, EntrySaved, diskOf
  <1>9. ToolFits'
    BY <1>1, <1>2, <1>3, <1>5, <1>6
    DEF ToolFits, ForwardFits, BackwardFits, RollbackAdmitted, OldKnown, NewKnown,
        Self, GoesOn, EntrySaved, diskOf
  <1>10. QED
    BY <1>1, <1>2, <1>5, <1>7, <1>8, <1>9, StepKeeps

-----------------------------------------------------------------------------
(* The whole exchange.                                                     *)

\* Nothing has begun.
LEMMA ExchangeStarts ==
  ASSUME holder = "none", ExchangeInit
  PROVE  ExchangeInv
  <1> USE DEF ExchangeInit, NoEntry, NoTool
  <1>1. ExchangeTypes
    BY ExchangeAssumption DEF ExchangeTypes, Entries, Running, Points, Phases
  <1>2. ASSUME NEW t \in Transactions
        PROVE  EntryFits(t) /\ DirsFit(t)
    <2>1. /\ tx[t] = NoEntry /\ base[t] = FALSE /\ new[t] = "none" /\ content[t] = "empty"
          /\ old # t
      BY DEF Transactions
    <2>2. tx[t].phase = "none" /\ tx[t].trash = FALSE /\ tx[t].stage = FALSE
      BY <2>1
    <2>3. QED
      BY <2>1, <2>2 DEF EntryFits, DirsFit, Registered, Filling, Moving, Withdrawing
  <1>3. OneAtATime /\ ToolFits /\ LockFits
    BY DEF OneAtATime, ToolFits, ForwardFits, BackwardFits, LockFits, Holders
  <1>4. QED
    BY <1>1, <1>2, <1>3 DEF ExchangeInv, EntriesFit

\* Every step of the tool, its death included, keeps the invariant.
LEMMA ExchangeNextKeeps ==
  ASSUME ExchangeInv, ExchangeNext
  PROVE  ExchangeInv'
  BY ToolDiesKeeps, ConversionKeeps, SaveSentinelKeeps, SaveIntentKeeps, CommandKeeps,
     FinishKeeps, MakeNamespaceKeeps, SaveOwnerKeeps, MakeBaseKeeps, SaveTrashKeeps,
     SaveStageIntentKeeps, MakeStageKeeps, SaveStageKeeps, SavePreparingKeeps, CopyKeeps,
     SavePreparedKeeps, SaveOldIntentKeeps, OldIsMovedKeeps, MoveOldKeeps, SaveOldMovedKeeps,
     SaveNewIntentKeeps, NewIsMovedKeeps, MoveNewKeeps, SaveNewMovedKeeps, CommitKeeps,
     RollbackAtOnceKeeps, RollbackKeeps, RetainKeeps, SaveRetainedKeeps, SaveOldBackKeeps,
     OldIsBackKeeps, RestoreKeeps, SettleKeeps
  DEF ExchangeNext

\* Nobody else writes what the invariant reads, and the lock changes hands only when
\* the service looks at the journal first, or leaves.
LEMMA ServiceKeepsExchange ==
  ASSUME ExchangeInv, UNCHANGED exchangeVars,
         \/ holder' = holder
         \/ holder = "none" /\ holder' = "service" /\ ExchangeQuiet
         \/ holder = "service" /\ holder' = "none"
  PROVE  ExchangeInv'
  <1>1. ExchangeTypes' /\ EntriesFit' /\ OneAtATime'
    BY DEF ExchangeInv, ExchangeTypes, EntriesFit, OneAtATime, EntryFits, DirsFit, Latest, Past,
        exchangeVars
  <1>2. ToolFits'
    BY DEF ExchangeInv, ToolFits, ForwardFits, BackwardFits, Latest, Past, exchangeVars
  <1>3. LockFits'
    BY DEF ExchangeInv, LockFits, ExchangeQuiet, Begun, Terminal, Holders, exchangeVars
  <1>4. QED
    BY <1>1, <1>2, <1>3 DEF ExchangeInv

-----------------------------------------------------------------------------
(* The exchange: what follows.                                             *)

\* Under the service no move is half done: if the original is away, it is in the trash
\* of a transaction that is terminal, hence committed.
LEMMA WholeUnderService ==
  ASSUME ExchangeInv
  PROVE  ServiceSeesWholePublication
  <1> SUFFICES ASSUME holder = "service" PROVE Whole
    BY DEF ServiceSeesWholePublication
  <1>1. CASE old = 0
    BY <1>1 DEF Whole, ExchangeInv, EntriesFit, DirsFit, Transactions
  <1>2. CASE old # 0
    <2>1. old \in Transactions
      BY <1>2 DEF ExchangeInv, ExchangeTypes, Transactions
    <2>2. EntryFits(old) /\ DirsFit(old) /\ tx[old].phase \in Terminal \union {"none"}
      BY <2>1 DEF ExchangeInv, EntriesFit, LockFits
    <2>3. tx[old].phase = "committed"
      BY <2>1, <2>2 DEF EntryFits, DirsFit, Terminal
    <2>4. QED
      BY <2>1, <2>2, <2>3 DEF DirsFit, Whole, Moving
  <1>3. QED
    BY <1>1, <1>2

\* What the journal says of the directories is what the invariant says of the phases.
LEMMA JournalIsTrue ==
  ASSUME ExchangeInv
  PROVE  JournalTellsTheTruth
  <1> SUFFICES ASSUME NEW t \in Transactions
               PROVE  /\ tx[t].phase = "committed" =>
                           old = t /\ new[t] = "original" /\ content[t] = "whole"
                      /\ tx[t].phase = "rolled_back" =>
                           old # t /\ new[t] \in {"none", "retained"}
                      /\ old = t => tx[t].phase \in
                           {"move_old_intent", "old_moved", "move_new_intent", "new_moved",
                            "committed"} \union Withdrawing
                      /\ new[t] = "original" => tx[t].phase \in
                           {"move_new_intent", "new_moved", "committed", "rollback_intent"}
                      /\ new[t] = "retained" => tx[t].phase \in Withdrawing
    BY DEF JournalTellsTheTruth
  <1>1. EntryFits(t) /\ DirsFit(t) /\ tx[t].phase \in Phases /\ tx[t].stage \in BOOLEAN
    BY DEF ExchangeInv, EntriesFit, ExchangeTypes, Entries
  <1>2. QED
    BY <1>1 DEF EntryFits, DirsFit, Phases, Registered, Filling, Moving, Withdrawing

\* A transaction whose directories are all known can be rolled back, or the one can
\* that holds the original.
LEMMA RollbackIsOpen ==
  ASSUME ExchangeInv
  PROVE  PendingCanBeRolledBack
  <1> SUFFICES ASSUME NEW t \in Begun, ~Unregistered(t)
               PROVE  RollbackAdmitted(IF OldKnown(t) THEN t ELSE old)
    BY DEF PendingCanBeRolledBack
  <1>1. ASSUME NEW u \in Transactions
        PROVE  EntryFits(u) /\ DirsFit(u) /\ tx[u].phase \in Phases /\ u # 0
    BY DEF ExchangeInv, EntriesFit, ExchangeTypes, Entries, Transactions
  <1>2. CASE OldKnown(t)
    <2>1. t \in Transactions /\ tx[t].phase # "none"
      BY DEF Begun
    <2>2. CASE tx[t].stage
      BY <1>1, <1>2, <2>1, <2>2
      DEF RollbackAdmitted, NewKnown, TrashKnown, OldKnown, Unregistered, EntryFits, DirsFit,
          Phases, Registered, Filling, Moving, Withdrawing
    <2>3. CASE ~tx[t].stage
      BY <1>1, <1>2, <2>1, <2>3
      DEF RollbackAdmitted, TrashKnown, OldKnown, Unregistered, DirsFit
    <2>4. QED
      BY <1>2, <2>2, <2>3
  <1>3. CASE ~OldKnown(t)
    <2>1. old \in Transactions
      BY <1>3 DEF OldKnown, ExchangeInv, ExchangeTypes, Transactions
    <2>2. tx[old].stage /\ tx[old].phase \notin {"none", "intent", "rolled_back"}
      BY <1>1, <2>1 DEF EntryFits, DirsFit
    <2>3. tx[old].trash = base[old]
      BY <1>1, <2>1, <2>2 DEF EntryFits, ExchangeInv, ExchangeTypes, Entries
    <2>4. RollbackAdmitted(old)
      BY <1>1, <2>1, <2>2, <2>3
      DEF RollbackAdmitted, NewKnown, TrashKnown, OldKnown, EntryFits, DirsFit, Phases,
          Registered, Filling, Moving, Withdrawing
    <2>5. QED
      BY <1>3, <2>4
  <1>4. QED
    BY <1>2, <1>3

-----------------------------------------------------------------------------
(* The slot: its invariant.                                                *)

\* The steps of a preparation that look, that change the slot, that own a package
\* and that hold one open.
Outside  == {"rest", "account", "root", "rootRecord", "look"}
Building == {"retire", "erase", "emptied", "create", "slotRecord", "stage", "rename",
             "register", "bind", "spawn", "withdraw", "withdrawBound", "unbind"}
Owning   == {"rename", "register", "bind", "spawn", "withdraw", "withdrawBound", "unbind"}
Holding  == {"register", "bind", "spawn"}

\* A run of this revision was handed over; a handed run has not settled.
Accepted(r) == \E i \in 1..Len(runs) : runs[i].handed /\ runs[i].rev = r
Open(i)     == runs[i].handed /\ runs[i].result # "settled"

\* One thread prepares or accounts, never beside the worker, and each reader has a
\* package open exactly as long as its step lasts.
ThreadInv ==
  /\ at \in Outside \union Building
  /\ at \notin {"rest", "account"} => rev \in Revisions
  /\ owned \in BOOLEAN
  /\ owned => at \in Owning
  /\ worker # "none" => at = "rest"
  /\ "prep" \in readers <=> at \in Holding
  /\ "watcher" \in readers <=> at = "account"
  /\ "worker" \in readers <=> worker # "none"

\* The uses the record and the rollback name are runs, and the last run is the one
\* that is being bound or executed.
RunInv ==
  /\ Len(runs) <= MaxRuns
  /\ record.use \in 0..Len(runs) /\ before \in 0..Len(runs)
  /\ made \in 0..MaxSlots
  /\ at \in {"bind", "spawn"} =>
       /\ Len(runs) # 0
       /\ ~runs[Len(runs)].handed /\ runs[Len(runs)].result = "none"
       /\ runs[Len(runs)].rev = rev
  /\ at = "spawn" => record.use = Len(runs) /\ bundle = rev
  /\ worker = "running" => Len(runs) # 0 /\ Open(Len(runs))

\* The phase of the record at each step: saved before the first deletion, and again
\* after the last.
RecordInv ==
  /\ at \in {"retire", "stage"} \union Owning => record.phase = "ready"
  /\ at \in {"erase", "emptied"} => record.phase = "retiring"
  /\ at \in {"create", "slotRecord"} => record.phase = "empty"
  /\ at = "slotRecord" => current # 0
  /\ ReadySlotExists

\* The slot changes only when no run is open, and a package is either accepted or
\* marked.
PackageInv ==
  /\ at \in Building => \A i \in 1..Len(runs) : ~Open(i)
  /\ OpenRunKeepsPackage
  /\ at = "rename" => owned /\ marker
  /\ bundle # None => marker \/ Accepted(bundle)
  /\ at \in Holding /\ ~owned => Accepted(bundle)

\* While the disk has obeyed, what is open is what the running step will take away.
CleanInv ==
  ~lost =>
    /\ ~stray /\ ~blocked
    /\ root = "bare" => at = "rootRecord"
    /\ marker => owned /\ at # "unbind"
    /\ IF at \in {"spawn", "withdrawBound", "unbind"}
       THEN before # 0 => runs[before].handed
       ELSE record.use # 0 => runs[record.use].handed

SlotInv == SlotTypeOK /\ ThreadInv /\ RunInv /\ RecordInv /\ PackageInv /\ CleanInv

-----------------------------------------------------------------------------
(* The slot: the runs, a sequence.                                         *)

Results == {"none", "settled", "unsettled"}
RunSet == [rev : Revisions, result : Results, handed : BOOLEAN]

\* A registered run comes last, and the others stay what they were.
LEMMA RunAppended ==
  ASSUME runs \in Seq(RunSet), NEW e \in RunSet, runs' = Append(runs, e)
  PROVE  /\ runs' \in Seq(RunSet)
         /\ Len(runs) \in Nat /\ Len(runs') = Len(runs) + 1
         /\ runs'[Len(runs) + 1] = e
         /\ \A i \in 1..Len(runs) : runs'[i] = runs[i]
  OBVIOUS

\* The last run.
LEMMA LastIsRun ==
  ASSUME runs \in Seq(RunSet), Len(runs) # 0
  PROVE  runs[Len(runs)] \in RunSet
  OBVIOUS

\* A change of the last run.
LEMMA LastRunChanged ==
  ASSUME runs \in Seq(RunSet), Len(runs) # 0, NEW e \in RunSet,
         runs' = [runs EXCEPT ![Len(runs)] = e]
  PROVE  /\ runs' \in Seq(RunSet)
         /\ Len(runs) \in Nat /\ Len(runs') = Len(runs)
         /\ runs'[Len(runs)] = e
         /\ \A i \in 1..Len(runs) : i # Len(runs) => runs'[i] = runs[i]
  OBVIOUS

\* A preparation begins when nobody else has a package open.
LEMMA PrepareKeeps ==
  ASSUME SlotInv, NEW r \in Revisions, Prepare(r)
  PROVE  SlotInv'
  <1> USE DEF SlotInv, Prepare, StepFrame, diskVars, Collected
  <1>1. SlotTypeOK'
    BY SlotAssumption DEF SlotTypeOK
  <1>2. ThreadInv'
    BY DEF SlotTypeOK, ThreadInv, Outside, Building, Owning, Holding
  <1>3. RunInv'
    BY DEF SlotTypeOK, ThreadInv, RunInv, Open, Outside, Building, Owning, Holding
  <1>4. RecordInv'
    BY DEF SlotTypeOK, ThreadInv, RecordInv, ReadySlotExists, Outside, Building, Owning, Holding
  <1>5. PackageInv'
    BY DEF SlotTypeOK, ThreadInv, RunInv, RecordInv, PackageInv, OpenRunKeepsPackage,
        ReadySlotExists, Open, Accepted, Outside, Building, Owning, Holding
  <1>6. CleanInv'
    BY DEF SlotTypeOK, ThreadInv, RunInv, RecordInv, PackageInv, CleanInv, Outside,
        Building, Owning, Holding
  <1>7. QED
    BY <1>1, <1>2, <1>3, <1>4, <1>5, <1>6

\* The root.
LEMMA MakeRootKeeps ==
  ASSUME SlotInv, MakeRoot
  PROVE  SlotInv'
  <1> USE DEF SlotInv, MakeRoot, Goes, StepFrame
  <1>1. SlotTypeOK'
    BY SlotAssumption DEF SlotTypeOK
  <1>2. ThreadInv'
    BY DEF SlotTypeOK, ThreadInv, Outside, Building, Owning, Holding
  <1>3. RunInv'
    BY DEF SlotTypeOK, ThreadInv, RunInv, Open, Outside, Building, Owning, Holding
  <1>4. RecordInv'
    BY DEF SlotTypeOK, ThreadInv, RecordInv, ReadySlotExists, Outside, Building, Owning, Holding
  <1>5. PackageInv'
    BY DEF SlotTypeOK, ThreadInv, RunInv, RecordInv, PackageInv, OpenRunKeepsPackage,
        ReadySlotExists, Open, Accepted, Outside, Building, Owning, Holding
  <1>6. CleanInv'
    BY DEF SlotTypeOK, ThreadInv, RunInv, RecordInv, PackageInv, CleanInv, Outside,
        Building, Owning, Holding
  <1>7. QED
    BY <1>1, <1>2, <1>3, <1>4, <1>5, <1>6

\* The root is withdrawn, or stays without a record.
LEMMA RootWithdrawnKeeps ==
  ASSUME SlotInv, RootWithdrawn
  PROVE  SlotInv'
  <1> USE DEF SlotInv, RootWithdrawn, Rests, StepFrame
  <1>1. SlotTypeOK'
    BY SlotAssumption DEF SlotTypeOK
  <1>2. ThreadInv'
    BY DEF SlotTypeOK, ThreadInv, Outside, Building, Owning, Holding
  <1>3. RunInv'
    BY DEF SlotTypeOK, ThreadInv, RunInv, Open, Outside, Building, Owning, Holding
  <1>4. RecordInv'
    BY DEF SlotTypeOK, ThreadInv, RecordInv, ReadySlotExists, Outside, Building, Owning, Holding
  <1>5. PackageInv'
    BY DEF SlotTypeOK, ThreadInv, RunInv, RecordInv, PackageInv, OpenRunKeepsPackage,
        ReadySlotExists, Open, Accepted, Outside, Building, Owning, Holding
  <1>6. CleanInv'
    BY DEF SlotTypeOK, ThreadInv, RunInv, RecordInv, PackageInv, CleanInv, Outside,
        Building, Owning, Holding
  <1>7. QED
    BY <1>1, <1>2, <1>3, <1>4, <1>5, <1>6

\* The root has its record.
LEMMA SaveRootKeeps ==
  ASSUME SlotInv, SaveRoot
  PROVE  SlotInv'
  <1> USE DEF SlotInv, SaveRoot, Goes, StepFrame
  <1>1. SlotTypeOK'
    BY SlotAssumption DEF SlotTypeOK
  <1>2. ThreadInv'
    BY DEF SlotTypeOK, ThreadInv, Outside, Building, Owning, Holding
  <1>3. RunInv'
    BY DEF SlotTypeOK, ThreadInv, RunInv, Open, Outside, Building, Owning, Holding
  <1>4. RecordInv'
    BY DEF SlotTypeOK, ThreadInv, RecordInv, ReadySlotExists, Outside, Building, Owning, Holding
  <1>5. PackageInv'
    BY DEF SlotTypeOK, ThreadInv, RunInv, RecordInv, PackageInv, OpenRunKeepsPackage,
        ReadySlotExists, Open, Accepted, Outside, Building, Owning, Holding
  <1>6. CleanInv'
    BY DEF SlotTypeOK, ThreadInv, RunInv, RecordInv, PackageInv, CleanInv, Outside,
        Building, Owning, Holding
  <1>7. QED
    BY <1>1, <1>2, <1>3, <1>4, <1>5, <1>6

\* What the record does not allow ends before anything is touched.
LEMMA RefuseKeeps ==
  ASSUME SlotInv, Refuse
  PROVE  SlotInv'
  <1> USE
        DEF SlotInv, Refuse, Rests, StepFrame, diskVars, Consistent, Readable, Settled,
            NoPending
  <1>1. SlotTypeOK'
    BY SlotAssumption DEF SlotTypeOK
  <1>2. ThreadInv'
    BY DEF SlotTypeOK, ThreadInv, Outside, Building, Owning, Holding
  <1>3. RunInv'
    BY DEF SlotTypeOK, ThreadInv, RunInv, Open, Outside, Building, Owning, Holding
  <1>4. RecordInv'
    BY DEF SlotTypeOK, ThreadInv, RecordInv, ReadySlotExists, Outside, Building, Owning, Holding
  <1>5. PackageInv'
    BY DEF SlotTypeOK, ThreadInv, RunInv, RecordInv, PackageInv, OpenRunKeepsPackage,
        ReadySlotExists, Open, Accepted, Outside, Building, Owning, Holding
  <1>6. CleanInv'
    BY DEF SlotTypeOK, ThreadInv, RunInv, RecordInv, PackageInv, CleanInv, Outside,
        Building, Owning, Holding
  <1>7. QED
    BY <1>1, <1>2, <1>3, <1>4, <1>5, <1>6

\* The package that is there is opened again.
LEMMA ReuseKeeps ==
  ASSUME SlotInv, Reuse
  PROVE  SlotInv'
  <1> USE DEF SlotInv, Reuse, Goes, diskVars, Consistent, Readable, Settled, NoPending
  <1>1. SlotTypeOK'
    BY SlotAssumption DEF SlotTypeOK
  <1>2. ThreadInv'
    BY DEF SlotTypeOK, ThreadInv, Outside, Building, Owning, Holding
  <1>3. RunInv'
    BY DEF SlotTypeOK, ThreadInv, RunInv, Open, Outside, Building, Owning, Holding
  <1>4. RecordInv'
    BY DEF SlotTypeOK, ThreadInv, RecordInv, ReadySlotExists, Outside, Building, Owning, Holding
  <1>5. PackageInv'
    <2>1. \A i \in 1..Len(runs) : ~Open(i)
      BY DEF PackageInv, OpenRunKeepsPackage, Open, RunInv
    <2>2. Accepted(bundle)
      BY SlotAssumption DEF SlotTypeOK, ThreadInv, PackageInv, CleanInv
    <2>3. QED
      BY <2>1, <2>2 DEF PackageInv, OpenRunKeepsPackage, Open, Accepted, Holding
  <1>6. CleanInv'
    BY DEF SlotTypeOK, ThreadInv, RunInv, RecordInv, PackageInv, CleanInv, Outside,
        Building, Owning, Holding
  <1>7. QED
    BY <1>1, <1>2, <1>3, <1>4, <1>5, <1>6

\* The slot is retired, or the retirement or creation that was interrupted goes on.
LEMMA ProceedKeeps ==
  ASSUME SlotInv, Proceed
  PROVE  SlotInv'
  <1> USE
        DEF SlotInv, Proceed, Goes, StepFrame, diskVars, Consistent, Readable, Settled,
            NoPending
  <1>1. SlotTypeOK'
    BY SlotAssumption DEF SlotTypeOK
  <1>2. ThreadInv'
    BY DEF SlotTypeOK, ThreadInv, Outside, Building, Owning, Holding
  <1>3. RunInv'
    BY DEF SlotTypeOK, ThreadInv, RunInv, Open, Outside, Building, Owning, Holding
  <1>4. RecordInv'
    BY DEF SlotTypeOK, ThreadInv, RecordInv, ReadySlotExists, Outside, Building, Owning, Holding
  <1>5. PackageInv'
    BY DEF SlotTypeOK, ThreadInv, RunInv, RecordInv, PackageInv, OpenRunKeepsPackage,
        ReadySlotExists, Open, Accepted, Outside, Building, Owning, Holding
  <1>6. CleanInv'
    BY DEF SlotTypeOK, ThreadInv, RunInv, RecordInv, PackageInv, CleanInv, Outside,
        Building, Owning, Holding
  <1>7. QED
    BY <1>1, <1>2, <1>3, <1>4, <1>5, <1>6

\* The intent to retire.
LEMMA SaveRetiringKeeps ==
  ASSUME SlotInv, SaveRetiring
  PROVE  SlotInv'
  <1> USE DEF SlotInv, SaveRetiring, Goes, StepFrame
  <1>1. SlotTypeOK'
    BY SlotAssumption DEF SlotTypeOK
  <1>2. ThreadInv'
    BY DEF SlotTypeOK, ThreadInv, Outside, Building, Owning, Holding
  <1>3. RunInv'
    BY DEF SlotTypeOK, ThreadInv, RunInv, Open, Outside, Building, Owning, Holding
  <1>4. RecordInv'
    BY DEF SlotTypeOK, ThreadInv, RecordInv, ReadySlotExists, Outside, Building, Owning, Holding
  <1>5. PackageInv'
    BY DEF SlotTypeOK, ThreadInv, RunInv, RecordInv, PackageInv, OpenRunKeepsPackage,
        ReadySlotExists, Open, Accepted, Outside, Building, Owning, Holding
  <1>6. CleanInv'
    BY DEF SlotTypeOK, ThreadInv, RunInv, RecordInv, PackageInv, CleanInv, Outside,
        Building, Owning, Holding
  <1>7. QED
    BY <1>1, <1>2, <1>3, <1>4, <1>5, <1>6

\* The slot is deleted: nobody has a package open.
LEMMA EraseKeeps ==
  ASSUME SlotInv, Erase
  PROVE  SlotInv'
  <1> USE DEF SlotInv, Erase, Goes, StepFrame
  <1>1. SlotTypeOK'
    <2>1. current' \in 0..MaxSlots
      BY SlotAssumption DEF SlotTypeOK
    <2>2. QED
      BY <2>1 DEF SlotTypeOK
  <1>2. ThreadInv'
    BY DEF SlotTypeOK, ThreadInv, Outside, Building, Owning, Holding
  <1>3. RunInv'
    BY DEF SlotTypeOK, ThreadInv, RunInv, Open, Outside, Building, Owning, Holding
  <1>4. RecordInv'
    BY DEF SlotTypeOK, ThreadInv, RecordInv, ReadySlotExists, Outside, Building, Owning, Holding
  <1>5. PackageInv'
    BY DEF SlotTypeOK, ThreadInv, RunInv, RecordInv, PackageInv, OpenRunKeepsPackage,
        ReadySlotExists, Open, Accepted, Outside, Building, Owning, Holding
  <1>6. CleanInv'
    BY DEF SlotTypeOK, ThreadInv, RunInv, RecordInv, PackageInv, CleanInv, Outside,
        Building, Owning, Holding
  <1>7. QED
    BY <1>1, <1>2, <1>3, <1>4, <1>5, <1>6

\* It fails before the first deletion, or inside.
LEMMA EraseFailsKeeps ==
  ASSUME SlotInv, EraseFails
  PROVE  SlotInv'
  <1> USE DEF SlotInv, EraseFails, Rests, StepFrame
  <1>1. SlotTypeOK'
    BY SlotAssumption DEF SlotTypeOK
  <1>2. ThreadInv'
    BY DEF SlotTypeOK, ThreadInv, Outside, Building, Owning, Holding
  <1>3. RunInv'
    BY DEF SlotTypeOK, ThreadInv, RunInv, Open, Outside, Building, Owning, Holding
  <1>4. RecordInv'
    BY DEF SlotTypeOK, ThreadInv, RecordInv, ReadySlotExists, Outside, Building, Owning, Holding
  <1>5. PackageInv'
    BY DEF SlotTypeOK, ThreadInv, RunInv, RecordInv, PackageInv, OpenRunKeepsPackage,
        ReadySlotExists, Open, Accepted, Outside, Building, Owning, Holding
  <1>6. CleanInv'
    BY DEF SlotTypeOK, ThreadInv, RunInv, RecordInv, PackageInv, CleanInv, Outside,
        Building, Owning, Holding
  <1>7. QED
    BY <1>1, <1>2, <1>3, <1>4, <1>5, <1>6

\* The record says that there is no slot.
LEMMA SaveEmptyKeeps ==
  ASSUME SlotInv, SaveEmpty
  PROVE  SlotInv'
  <1> USE DEF SlotInv, SaveEmpty, Goes, StepFrame, EmptyRecord
  <1>1. SlotTypeOK'
    BY SlotAssumption DEF SlotTypeOK
  <1>2. ThreadInv'
    BY DEF SlotTypeOK, ThreadInv, Outside, Building, Owning, Holding
  <1>3. RunInv'
    BY DEF SlotTypeOK, ThreadInv, RunInv, Open, Outside, Building, Owning, Holding
  <1>4. RecordInv'
    BY DEF SlotTypeOK, ThreadInv, RecordInv, ReadySlotExists, Outside, Building, Owning, Holding
  <1>5. PackageInv'
    BY DEF SlotTypeOK, ThreadInv, RunInv, RecordInv, PackageInv, OpenRunKeepsPackage,
        ReadySlotExists, Open, Accepted, Outside, Building, Owning, Holding
  <1>6. CleanInv'
    BY DEF SlotTypeOK, ThreadInv, RunInv, RecordInv, PackageInv, CleanInv, Outside,
        Building, Owning, Holding
  <1>7. QED
    BY <1>1, <1>2, <1>3, <1>4, <1>5, <1>6

\* The new slot, which the record does not know yet.
LEMMA CreateKeeps ==
  ASSUME SlotInv, Create
  PROVE  SlotInv'
  <1> USE DEF SlotInv, Create, Goes
  <1>1. SlotTypeOK'
    BY SlotAssumption DEF SlotTypeOK, RunInv
  <1>2. ThreadInv'
    BY DEF SlotTypeOK, ThreadInv, Outside, Building, Owning, Holding
  <1>3. RunInv'
    BY SlotAssumption DEF SlotTypeOK, ThreadInv, RunInv
  <1>4. RecordInv'
    BY DEF SlotTypeOK, RunInv, RecordInv, ReadySlotExists, Owning
  <1>5. PackageInv'
    BY DEF SlotTypeOK, ThreadInv, RunInv, RecordInv, PackageInv, OpenRunKeepsPackage,
        ReadySlotExists, Open, Accepted, Outside, Building, Owning, Holding
  <1>6. CleanInv'
    BY DEF SlotTypeOK, ThreadInv, RunInv, RecordInv, PackageInv, CleanInv, Outside,
        Building, Owning, Holding
  <1>7. QED
    BY <1>1, <1>2, <1>3, <1>4, <1>5, <1>6

\* The record names it.
LEMMA SaveReadyKeeps ==
  ASSUME SlotInv, SaveReady
  PROVE  SlotInv'
  <1> USE DEF SlotInv, SaveReady, Goes, StepFrame
  <1>1. SlotTypeOK'
    BY SlotAssumption DEF SlotTypeOK, RunInv
  <1>2. ThreadInv'
    BY DEF SlotTypeOK, ThreadInv, Outside, Building, Owning, Holding
  <1>3. RunInv'
    BY DEF SlotTypeOK, ThreadInv, RunInv, Open, Outside, Building, Owning, Holding
  <1>4. RecordInv'
    BY DEF SlotTypeOK, ThreadInv, RecordInv, ReadySlotExists, Outside, Building, Owning, Holding
  <1>5. PackageInv'
    BY DEF SlotTypeOK, ThreadInv, RunInv, RecordInv, PackageInv, OpenRunKeepsPackage,
        ReadySlotExists, Open, Accepted, Outside, Building, Owning, Holding
  <1>6. CleanInv'
    BY DEF SlotTypeOK, ThreadInv, RunInv, RecordInv, PackageInv, CleanInv, Outside,
        Building, Owning, Holding
  <1>7. QED
    BY <1>1, <1>2, <1>3, <1>4, <1>5, <1>6

\* A save fails before the record changes.
LEMMA SaveFailsKeeps ==
  ASSUME SlotInv, SaveFails
  PROVE  SlotInv'
  <1> USE DEF SlotInv, SaveFails, Rests, StepFrame
  <1>1. SlotTypeOK'
    <2>1. current' \in 0..MaxSlots
      BY SlotAssumption DEF SlotTypeOK
    <2>2. QED
      BY <2>1 DEF SlotTypeOK
  <1>2. ThreadInv'
    BY DEF SlotTypeOK, ThreadInv, Outside, Building, Owning, Holding
  <1>3. RunInv'
    BY DEF SlotTypeOK, ThreadInv, RunInv, Open, Outside, Building, Owning, Holding
  <1>4. RecordInv'
    BY DEF SlotTypeOK, ThreadInv, RecordInv, ReadySlotExists, Outside, Building, Owning, Holding
  <1>5. PackageInv'
    BY DEF SlotTypeOK, ThreadInv, RunInv, RecordInv, PackageInv, OpenRunKeepsPackage,
        ReadySlotExists, Open, Accepted, Outside, Building, Owning, Holding
  <1>6. CleanInv'
    BY DEF SlotTypeOK, ThreadInv, RunInv, RecordInv, PackageInv, CleanInv, Outside,
        Building, Owning, Holding
  <1>7. QED
    BY <1>1, <1>2, <1>3, <1>4, <1>5, <1>6

\* The package is staged under a marker.
LEMMA StageKeeps ==
  ASSUME SlotInv, Stage
  PROVE  SlotInv'
  <1> USE DEF SlotInv, Stage, StepFrame
  <1>1. SlotTypeOK'
    BY SlotAssumption DEF SlotTypeOK
  <1>2. ThreadInv'
    BY DEF SlotTypeOK, ThreadInv, Outside, Building, Owning, Holding
  <1>3. RunInv'
    BY DEF SlotTypeOK, ThreadInv, RunInv, Open, Outside, Building, Owning, Holding
  <1>4. RecordInv'
    BY DEF SlotTypeOK, ThreadInv, RecordInv, ReadySlotExists, Outside, Building, Owning, Holding
  <1>5. PackageInv'
    BY DEF SlotTypeOK, ThreadInv, RunInv, RecordInv, PackageInv, OpenRunKeepsPackage,
        ReadySlotExists, Open, Accepted, Outside, Building, Owning, Holding
  <1>6. CleanInv'
    BY DEF SlotTypeOK, ThreadInv, RunInv, RecordInv, PackageInv, CleanInv, Outside,
        Building, Owning, Holding
  <1>7. QED
    BY <1>1, <1>2, <1>3, <1>4, <1>5, <1>6

\* It is not.
LEMMA StageFailsKeeps ==
  ASSUME SlotInv, StageFails
  PROVE  SlotInv'
  <1> USE DEF SlotInv, StageFails, Rests, StepFrame, diskVars
  <1>1. SlotTypeOK'
    BY SlotAssumption DEF SlotTypeOK
  <1>2. ThreadInv'
    BY DEF SlotTypeOK, ThreadInv, Outside, Building, Owning, Holding
  <1>3. RunInv'
    BY DEF SlotTypeOK, ThreadInv, RunInv, Open, Outside, Building, Owning, Holding
  <1>4. RecordInv'
    BY DEF SlotTypeOK, ThreadInv, RecordInv, ReadySlotExists, Outside, Building, Owning, Holding
  <1>5. PackageInv'
    BY DEF SlotTypeOK, ThreadInv, RunInv, RecordInv, PackageInv, OpenRunKeepsPackage,
        ReadySlotExists, Open, Accepted, Outside, Building, Owning, Holding
  <1>6. CleanInv'
    BY DEF SlotTypeOK, ThreadInv, RunInv, RecordInv, PackageInv, CleanInv, Outside,
        Building, Owning, Holding
  <1>7. QED
    BY <1>1, <1>2, <1>3, <1>4, <1>5, <1>6

\* The package takes its name, still under the marker.
LEMMA RenameKeeps ==
  ASSUME SlotInv, Rename
  PROVE  SlotInv'
  <1> USE DEF SlotInv, Rename, Goes
  <1>1. SlotTypeOK'
    BY SlotAssumption DEF SlotTypeOK, ThreadInv
  <1>2. ThreadInv'
    BY DEF SlotTypeOK, ThreadInv, Outside, Building, Owning, Holding
  <1>3. RunInv'
    BY DEF SlotTypeOK, ThreadInv, RunInv, Open, Outside, Building, Owning, Holding
  <1>4. RecordInv'
    BY DEF SlotTypeOK, ThreadInv, RecordInv, ReadySlotExists, Outside, Building, Owning, Holding
  <1>5. PackageInv'
    <2>1. \A i \in 1..Len(runs) : ~Open(i)
      BY DEF PackageInv, Building
    <2>2. owned' /\ marker'
      BY DEF PackageInv
    <2>3. QED
      BY <2>1, <2>2 DEF PackageInv, OpenRunKeepsPackage, Open, Accepted, Building
  <1>6. CleanInv'
    BY DEF SlotTypeOK, ThreadInv, RunInv, RecordInv, PackageInv, CleanInv, Outside,
        Building, Owning, Holding
  <1>7. QED
    BY <1>1, <1>2, <1>3, <1>4, <1>5, <1>6

\* The preparation fails between the publication and the binding.
LEMMA AbandonKeeps ==
  ASSUME SlotInv, Abandon
  PROVE  SlotInv'
  <1> USE DEF SlotInv, Abandon, Goes, diskVars, Released
  <1>1. SlotTypeOK'
    BY SlotAssumption DEF SlotTypeOK
  <1>2. ThreadInv'
    BY DEF SlotTypeOK, ThreadInv, Outside, Building, Owning, Holding
  <1>3. RunInv'
    BY DEF SlotTypeOK, ThreadInv, RunInv, Open, Outside, Building, Owning, Holding
  <1>4. RecordInv'
    BY DEF SlotTypeOK, ThreadInv, RecordInv, ReadySlotExists, Outside, Building, Owning, Holding
  <1>5. PackageInv'
    BY DEF SlotTypeOK, ThreadInv, RunInv, RecordInv, PackageInv, OpenRunKeepsPackage,
        ReadySlotExists, Open, Accepted, Outside, Building, Owning, Holding
  <1>6. CleanInv'
    BY DEF SlotTypeOK, ThreadInv, RunInv, RecordInv, PackageInv, CleanInv, Outside,
        Building, Owning, Holding
  <1>7. QED
    BY <1>1, <1>2, <1>3, <1>4, <1>5, <1>6

\* A package that was there before stays there.
LEMMA WithdrawReusedKeeps ==
  ASSUME SlotInv, WithdrawReused
  PROVE  SlotInv'
  <1> USE DEF SlotInv, WithdrawReused, Rests, Goes, StepFrame, diskVars, Withdrawn
  <1>1. SlotTypeOK'
    BY SlotAssumption DEF SlotTypeOK
  <1>2. ThreadInv'
    BY DEF SlotTypeOK, ThreadInv, Outside, Building, Owning, Holding
  <1>3. RunInv'
    BY DEF SlotTypeOK, ThreadInv, RunInv, Open, Outside, Building, Owning, Holding
  <1>4. RecordInv'
    BY DEF SlotTypeOK, ThreadInv, RecordInv, ReadySlotExists, Outside, Building, Owning, Holding
  <1>5. PackageInv'
    BY DEF SlotTypeOK, ThreadInv, RunInv, RecordInv, PackageInv, OpenRunKeepsPackage,
        ReadySlotExists, Open, Accepted, Outside, Building, Owning, Holding
  <1>6. CleanInv'
    BY DEF SlotTypeOK, ThreadInv, RunInv, RecordInv, PackageInv, CleanInv, Outside,
        Building, Owning, Holding
  <1>7. QED
    BY <1>1, <1>2, <1>3, <1>4, <1>5, <1>6

\* A package of this preparation goes with its marker.
LEMMA WithdrawKeeps ==
  ASSUME SlotInv, Withdraw
  PROVE  SlotInv'
  <1> USE DEF SlotInv, Withdraw, Rests, Goes, StepFrame, Withdrawn
  <1>1. SlotTypeOK'
    BY SlotAssumption DEF SlotTypeOK
  <1>2. ThreadInv'
    BY DEF SlotTypeOK, ThreadInv, Outside, Building, Owning, Holding
  <1>3. RunInv'
    <2>1. CASE at = "withdrawBound"
      BY <2>1 DEF SlotTypeOK, ThreadInv, RunInv, Open
    <2>2. CASE at = "withdraw"
      BY <2>2 DEF SlotTypeOK, ThreadInv, RunInv, Open
    <2>3. QED
      BY <2>1, <2>2
  <1>4. RecordInv'
    BY DEF SlotTypeOK, ThreadInv, RecordInv, ReadySlotExists, Outside, Building, Owning, Holding
  <1>5. PackageInv'
    BY DEF SlotTypeOK, ThreadInv, RunInv, RecordInv, PackageInv, OpenRunKeepsPackage,
        ReadySlotExists, Open, Accepted, Outside, Building, Owning, Holding
  <1>6. CleanInv'
    BY DEF SlotTypeOK, ThreadInv, RunInv, RecordInv, PackageInv, CleanInv, Outside,
        Building, Owning, Holding
  <1>7. QED
    BY <1>1, <1>2, <1>3, <1>4, <1>5, <1>6

\* Or stays with it, and blocks.
LEMMA WithdrawFailsKeeps ==
  ASSUME SlotInv, WithdrawFails
  PROVE  SlotInv'
  <1> USE DEF SlotInv, WithdrawFails, Rests, Goes, diskVars, Withdrawn
  <1>1. SlotTypeOK'
    BY SlotAssumption DEF SlotTypeOK
  <1>2. ThreadInv'
    BY DEF SlotTypeOK, ThreadInv, Outside, Building, Owning, Holding
  <1>3. RunInv'
    <2>1. CASE at = "withdrawBound"
      BY <2>1 DEF SlotTypeOK, ThreadInv, RunInv, Open
    <2>2. CASE at = "withdraw"
      BY <2>2 DEF SlotTypeOK, ThreadInv, RunInv, Open
    <2>3. QED
      BY <2>1, <2>2
  <1>4. RecordInv'
    BY DEF SlotTypeOK, ThreadInv, RecordInv, ReadySlotExists, Outside, Building, Owning, Holding
  <1>5. PackageInv'
    BY DEF SlotTypeOK, ThreadInv, RunInv, RecordInv, PackageInv, OpenRunKeepsPackage,
        ReadySlotExists, Open, Accepted, Outside, Building, Owning, Holding
  <1>6. CleanInv'
    BY DEF SlotTypeOK, ThreadInv, RunInv, RecordInv, PackageInv, CleanInv, Outside,
        Building, Owning, Holding
  <1>7. QED
    BY <1>1, <1>2, <1>3, <1>4, <1>5, <1>6

\* A run is registered, not yet handed over.
LEMMA RegisterKeeps ==
  ASSUME SlotInv, Register
  PROVE  SlotInv'
  <1> USE DEF SlotInv, Register, Goes, StepFrame
  <1> DEFINE e == [rev |-> rev, result |-> "none", handed |-> FALSE]
  <1>0. /\ runs' \in Seq(RunSet)
        /\ Len(runs) \in Nat /\ Len(runs') = Len(runs) + 1
        /\ runs'[Len(runs) + 1] = e
        /\ \A i \in 1..Len(runs) : runs'[i] = runs[i]
    <2>1. e \in RunSet
      BY DEF RunSet, Results, ThreadInv
    <2>2. runs \in Seq(RunSet)
      BY DEF SlotTypeOK, RunSet, Results
    <2>3. QED
      BY <2>1, <2>2, RunAppended
  <1>1. SlotTypeOK'
    <2>1. runs' \in Seq(RunSet)
      BY <1>0
    <2>2. QED
      BY <2>1 DEF SlotTypeOK, RunSet, Results
  <1>2. ThreadInv'
    BY DEF SlotTypeOK, ThreadInv, Outside, Building, Owning, Holding
  <1>3. RunInv'
    <2>1. e.handed = FALSE /\ e.result = "none" /\ e.rev = rev
      OBVIOUS
    <2>2. worker # "running"
      BY DEF ThreadInv
    <2>3. runs'[Len(runs')] = e /\ Len(runs') # 0 /\ Len(runs') \in Nat /\ Len(runs') <= MaxRuns
      BY <1>0, SlotAssumption
    <2>4. record.use \in 0..Len(runs') /\ before \in 0..Len(runs')
      BY <1>0 DEF RunInv
    <2>5. QED
      BY <2>1, <2>2, <2>3, <2>4 DEF RunInv
  <1>4. RecordInv'
    BY DEF SlotTypeOK, ThreadInv, RecordInv, ReadySlotExists, Outside, Building, Owning, Holding
  <1>5. PackageInv'
    BY DEF SlotTypeOK, ThreadInv, RunInv, RecordInv, PackageInv, OpenRunKeepsPackage,
        ReadySlotExists, Open, Accepted, Outside, Building, Owning, Holding
  <1>6. CleanInv'
    BY DEF SlotTypeOK, ThreadInv, RunInv, RecordInv, PackageInv, CleanInv, Outside,
        Building, Owning, Holding
  <1>7. QED
    BY <1>1, <1>2, <1>3, <1>4, <1>5, <1>6

\* The record names it as the last use.
LEMMA BindKeeps ==
  ASSUME SlotInv, Bind
  PROVE  SlotInv'
  <1> USE DEF SlotInv, Bind, StepFrame, Readable, Settled
  <1>1. SlotTypeOK'
    BY SlotAssumption DEF SlotTypeOK, RunInv
  <1>2. ThreadInv'
    BY DEF SlotTypeOK, ThreadInv, Outside, Building, Owning, Holding
  <1>3. RunInv'
    BY DEF SlotTypeOK, ThreadInv, RunInv, Open, Outside, Building, Owning, Holding
  <1>4. RecordInv'
    BY DEF SlotTypeOK, ThreadInv, RecordInv, ReadySlotExists, Outside, Building, Owning, Holding
  <1>5. PackageInv'
    BY DEF SlotTypeOK, ThreadInv, RunInv, RecordInv, PackageInv, OpenRunKeepsPackage,
        ReadySlotExists, Open, Accepted, Outside, Building, Owning, Holding
  <1>6. CleanInv'
    BY DEF SlotTypeOK, ThreadInv, RunInv, RecordInv, PackageInv, CleanInv, Outside,
        Building, Owning, Holding
  <1>7. QED
    BY <1>1, <1>2, <1>3, <1>4, <1>5, <1>6

\* The record cannot be saved.
LEMMA BindFailsKeeps ==
  ASSUME SlotInv, BindFails
  PROVE  SlotInv'
  <1> USE DEF SlotInv, BindFails, Goes, Released
  <1>1. SlotTypeOK'
    BY SlotAssumption DEF SlotTypeOK
  <1>2. ThreadInv'
    BY DEF SlotTypeOK, ThreadInv, Outside, Building, Owning, Holding
  <1>3. RunInv'
    BY DEF SlotTypeOK, ThreadInv, RunInv, Open, Outside, Building, Owning, Holding
  <1>4. RecordInv'
    BY DEF SlotTypeOK, ThreadInv, RecordInv, ReadySlotExists, Outside, Building, Owning, Holding
  <1>5. PackageInv'
    BY DEF SlotTypeOK, ThreadInv, RunInv, RecordInv, PackageInv, OpenRunKeepsPackage,
        ReadySlotExists, Open, Accepted, Outside, Building, Owning, Holding
  <1>6. CleanInv'
    BY DEF SlotTypeOK, ThreadInv, RunInv, RecordInv, PackageInv, CleanInv, Outside,
        Building, Owning, Holding
  <1>7. QED
    BY <1>1, <1>2, <1>3, <1>4, <1>5, <1>6

\* The worker takes the package and the run over.
LEMMA AdoptKeeps ==
  ASSUME SlotInv, Adopt
  PROVE  SlotInv'
  <1> USE DEF SlotInv, Adopt, Rests
  <1> DEFINE last == runs[Len(runs)]
  <1>0. \E e \in RunSet :
           /\ e.rev = last.rev /\ e.handed /\ e.result = last.result
           /\ runs' \in Seq(RunSet)
           /\ Len(runs') = Len(runs) /\ runs'[Len(runs)] = e
           /\ \A i \in 1..Len(runs) : i # Len(runs) => runs'[i] = runs[i]
    <2>0. runs \in Seq(RunSet) /\ Len(runs) # 0
      BY DEF SlotTypeOK, RunInv, RunSet, Results
    <2>1. runs \in Seq(RunSet) /\ Len(runs) # 0 /\ last \in RunSet
      BY <2>0, LastIsRun
    <2>2. [last EXCEPT !.handed = TRUE] \in RunSet
      BY <2>1 DEF RunSet
    <2>3. runs' = [runs EXCEPT ![Len(runs)] = [last EXCEPT !.handed = TRUE]]
      BY <2>1
    <2>4. QED
      BY <2>1, <2>2, <2>3, LastRunChanged DEF RunSet
  <1>1. SlotTypeOK'
    <2>1. runs' \in Seq(RunSet)
      BY <1>0
    <2>2. QED
      BY <2>1, SlotAssumption DEF SlotTypeOK, RunSet, Results
  <1>2. ThreadInv'
    BY DEF SlotTypeOK, ThreadInv, Outside, Building, Owning, Holding
  <1>3. RunInv'
    BY DEF SlotTypeOK, ThreadInv, RunInv, Open, Outside, Building, Owning, Holding
  <1>4. RecordInv'
    BY DEF SlotTypeOK, ThreadInv, RecordInv, ReadySlotExists, Outside, Building, Owning, Holding
  <1>5. PackageInv'
    BY DEF SlotTypeOK, ThreadInv, RunInv, RecordInv, PackageInv, OpenRunKeepsPackage,
        ReadySlotExists, Open, Accepted, Outside, Building, Owning, Holding
  <1>6. CleanInv'
    BY DEF SlotTypeOK, ThreadInv, RunInv, RecordInv, PackageInv, CleanInv, Outside,
        Building, Owning, Holding
  <1>7. QED
    BY <1>1, <1>2, <1>3, <1>4, <1>5, <1>6

\* There is no worker.
LEMMA SpawnFailsKeeps ==
  ASSUME SlotInv, SpawnFails
  PROVE  SlotInv'
  <1> USE DEF SlotInv, SpawnFails, Goes, diskVars, Released
  <1>1. SlotTypeOK'
    BY SlotAssumption DEF SlotTypeOK
  <1>2. ThreadInv'
    BY DEF SlotTypeOK, ThreadInv, Outside, Building, Owning, Holding
  <1>3. RunInv'
    BY DEF SlotTypeOK, ThreadInv, RunInv, Open, Outside, Building, Owning, Holding
  <1>4. RecordInv'
    BY DEF SlotTypeOK, ThreadInv, RecordInv, ReadySlotExists, Outside, Building, Owning, Holding
  <1>5. PackageInv'
    BY DEF SlotTypeOK, ThreadInv, RunInv, RecordInv, PackageInv, OpenRunKeepsPackage,
        ReadySlotExists, Open, Accepted, Outside, Building, Owning, Holding
  <1>6. CleanInv'
    BY DEF SlotTypeOK, ThreadInv, RunInv, RecordInv, PackageInv, CleanInv, Outside,
        Building, Owning, Holding
  <1>7. QED
    BY <1>1, <1>2, <1>3, <1>4, <1>5, <1>6

\* The use is taken back.
LEMMA UnbindKeeps ==
  ASSUME SlotInv, Unbind
  PROVE  SlotInv'
  <1> USE DEF SlotInv, Unbind, Rests, StepFrame
  <1>1. SlotTypeOK'
    BY SlotAssumption DEF SlotTypeOK, RunInv
  <1>2. ThreadInv'
    BY DEF SlotTypeOK, ThreadInv, Outside, Building, Owning, Holding
  <1>3. RunInv'
    BY DEF SlotTypeOK, ThreadInv, RunInv, Open, Outside, Building, Owning, Holding
  <1>4. RecordInv'
    BY DEF SlotTypeOK, ThreadInv, RecordInv, ReadySlotExists, Outside, Building, Owning, Holding
  <1>5. PackageInv'
    BY DEF SlotTypeOK, ThreadInv, RunInv, RecordInv, PackageInv, OpenRunKeepsPackage,
        ReadySlotExists, Open, Accepted, Outside, Building, Owning, Holding
  <1>6. CleanInv'
    BY DEF SlotTypeOK, ThreadInv, RunInv, RecordInv, PackageInv, CleanInv, Outside,
        Building, Owning, Holding
  <1>7. QED
    BY <1>1, <1>2, <1>3, <1>4, <1>5, <1>6

\* It cannot be taken back.
LEMMA UnbindFailsKeeps ==
  ASSUME SlotInv, UnbindFails
  PROVE  SlotInv'
  <1> USE DEF SlotInv, UnbindFails, Rests, StepFrame
  <1>1. SlotTypeOK'
    BY SlotAssumption DEF SlotTypeOK
  <1>2. ThreadInv'
    BY DEF SlotTypeOK, ThreadInv, Outside, Building, Owning, Holding
  <1>3. RunInv'
    BY DEF SlotTypeOK, ThreadInv, RunInv, Open, Outside, Building, Owning, Holding
  <1>4. RecordInv'
    BY DEF SlotTypeOK, ThreadInv, RecordInv, ReadySlotExists, Outside, Building, Owning, Holding
  <1>5. PackageInv'
    BY DEF SlotTypeOK, ThreadInv, RunInv, RecordInv, PackageInv, OpenRunKeepsPackage,
        ReadySlotExists, Open, Accepted, Outside, Building, Owning, Holding
  <1>6. CleanInv'
    BY DEF SlotTypeOK, ThreadInv, RunInv, RecordInv, PackageInv, CleanInv, Outside,
        Building, Owning, Holding
  <1>7. QED
    BY <1>1, <1>2, <1>3, <1>4, <1>5, <1>6

\* The worker records what became of its run.
LEMMA WorkerRecordsKeeps ==
  ASSUME SlotInv, WorkerRecords
  PROVE  SlotInv'
  <1> USE DEF SlotInv, WorkerRecords
  <1> DEFINE last == runs[Len(runs)]
  <1>0. \E e \in RunSet :
           /\ e.rev = last.rev /\ e.handed = last.handed
           /\ runs' \in Seq(RunSet)
           /\ Len(runs') = Len(runs) /\ runs'[Len(runs)] = e
           /\ \A i \in 1..Len(runs) : i # Len(runs) => runs'[i] = runs[i]
    <2>0. runs \in Seq(RunSet) /\ Len(runs) # 0
      BY DEF SlotTypeOK, RunInv, RunSet, Results
    <2>1. runs \in Seq(RunSet) /\ Len(runs) # 0 /\ last \in RunSet
      BY <2>0, LastIsRun
    <2>2. PICK result \in Results : runs' = [runs EXCEPT ![Len(runs)].result = result]
      BY DEF Results
    <2>3. [last EXCEPT !.result = result] \in RunSet
      BY <2>1 DEF RunSet
    <2>4. runs' = [runs EXCEPT ![Len(runs)] = [last EXCEPT !.result = result]]
      BY <2>1, <2>2
    <2>5. QED
      BY <2>1, <2>3, <2>4, LastRunChanged DEF RunSet
  <1>1. SlotTypeOK'
    <2>1. runs' \in Seq(RunSet)
      BY <1>0
    <2>2. QED
      BY <2>1, SlotAssumption DEF SlotTypeOK, RunSet, Results
  <1>2. ThreadInv'
    BY DEF SlotTypeOK, ThreadInv, Outside, Building, Owning, Holding
  <1>3. RunInv'
    BY DEF SlotTypeOK, ThreadInv, RunInv, Open, Outside, Building, Owning, Holding
  <1>4. RecordInv'
    BY DEF SlotTypeOK, ThreadInv, RecordInv, ReadySlotExists, Outside, Building, Owning, Holding
  <1>5. PackageInv'
    BY DEF SlotTypeOK, ThreadInv, RunInv, RecordInv, PackageInv, OpenRunKeepsPackage,
        ReadySlotExists, Open, Accepted, Outside, Building, Owning, Holding
  <1>6. CleanInv'
    BY DEF SlotTypeOK, ThreadInv, RunInv, RecordInv, PackageInv, CleanInv, Outside,
        Building, Owning, Holding
  <1>7. QED
    BY <1>1, <1>2, <1>3, <1>4, <1>5, <1>6

\* The worker ends.
LEMMA WorkerReleasesKeeps ==
  ASSUME SlotInv, WorkerReleases
  PROVE  SlotInv'
  <1> USE DEF SlotInv, WorkerReleases, diskVars
  <1>1. SlotTypeOK'
    BY SlotAssumption DEF SlotTypeOK
  <1>2. ThreadInv'
    BY DEF SlotTypeOK, ThreadInv, Outside, Building, Owning, Holding
  <1>3. RunInv'
    BY DEF SlotTypeOK, ThreadInv, RunInv, Open, Outside, Building, Owning, Holding
  <1>4. RecordInv'
    BY DEF SlotTypeOK, ThreadInv, RecordInv, ReadySlotExists, Outside, Building, Owning, Holding
  <1>5. PackageInv'
    BY DEF SlotTypeOK, ThreadInv, RunInv, RecordInv, PackageInv, OpenRunKeepsPackage,
        ReadySlotExists, Open, Accepted, Outside, Building, Owning, Holding
  <1>6. CleanInv'
    BY DEF SlotTypeOK, ThreadInv, RunInv, RecordInv, PackageInv, CleanInv, Outside,
        Building, Owning, Holding
  <1>7. QED
    BY <1>1, <1>2, <1>3, <1>4, <1>5, <1>6

\* The session opens the package of the last run.
LEMMA AccountKeeps ==
  ASSUME SlotInv, Account
  PROVE  SlotInv'
  <1> USE DEF SlotInv, Account, diskVars, Collected
  <1>1. SlotTypeOK'
    BY SlotAssumption DEF SlotTypeOK
  <1>2. ThreadInv'
    BY DEF SlotTypeOK, ThreadInv, Outside, Building, Owning, Holding
  <1>3. RunInv'
    BY DEF SlotTypeOK, ThreadInv, RunInv, Open, Outside, Building, Owning, Holding
  <1>4. RecordInv'
    BY DEF SlotTypeOK, ThreadInv, RecordInv, ReadySlotExists, Outside, Building, Owning, Holding
  <1>5. PackageInv'
    BY DEF SlotTypeOK, ThreadInv, RunInv, RecordInv, PackageInv, OpenRunKeepsPackage,
        ReadySlotExists, Open, Accepted, Outside, Building, Owning, Holding
  <1>6. CleanInv'
    BY DEF SlotTypeOK, ThreadInv, RunInv, RecordInv, PackageInv, CleanInv, Outside,
        Building, Owning, Holding
  <1>7. QED
    BY <1>1, <1>2, <1>3, <1>4, <1>5, <1>6

\* It closes it.
LEMMA AccountedKeeps ==
  ASSUME SlotInv, Accounted
  PROVE  SlotInv'
  <1> USE DEF SlotInv, Accounted, diskVars
  <1>1. SlotTypeOK'
    BY SlotAssumption DEF SlotTypeOK
  <1>2. ThreadInv'
    BY DEF SlotTypeOK, ThreadInv, Outside, Building, Owning, Holding
  <1>3. RunInv'
    BY DEF SlotTypeOK, ThreadInv, RunInv, Open, Outside, Building, Owning, Holding
  <1>4. RecordInv'
    BY DEF SlotTypeOK, ThreadInv, RecordInv, ReadySlotExists, Outside, Building, Owning, Holding
  <1>5. PackageInv'
    BY DEF SlotTypeOK, ThreadInv, RunInv, RecordInv, PackageInv, OpenRunKeepsPackage,
        ReadySlotExists, Open, Accepted, Outside, Building, Owning, Holding
  <1>6. CleanInv'
    BY DEF SlotTypeOK, ThreadInv, RunInv, RecordInv, PackageInv, CleanInv, Outside,
        Building, Owning, Holding
  <1>7. QED
    BY <1>1, <1>2, <1>3, <1>4, <1>5, <1>6

\* The process dies: what is on disk is what the last completed steps left.
LEMMA SlotCrashKeeps ==
  ASSUME SlotInv, SlotCrash
  PROVE  SlotInv'
  <1> USE DEF SlotInv, SlotCrash, Saves
  <1>1. SlotTypeOK'
    BY SlotAssumption DEF SlotTypeOK
  <1>2. ThreadInv'
    BY DEF SlotTypeOK, ThreadInv, Outside, Building, Owning, Holding
  <1>3. RunInv'
    BY DEF SlotTypeOK, ThreadInv, RunInv, Open, Outside, Building, Owning, Holding
  <1>4. RecordInv'
    BY DEF SlotTypeOK, ThreadInv, RecordInv, ReadySlotExists, Outside, Building, Owning, Holding
  <1>5. PackageInv'
    BY DEF SlotTypeOK, ThreadInv, RunInv, RecordInv, PackageInv, OpenRunKeepsPackage,
        ReadySlotExists, Open, Accepted, Outside, Building, Owning, Holding
  <1>6. CleanInv'
    BY DEF SlotTypeOK, ThreadInv, RunInv, RecordInv, PackageInv, CleanInv, Outside,
        Building, Owning, Holding
  <1>7. QED
    BY <1>1, <1>2, <1>3, <1>4, <1>5, <1>6

-----------------------------------------------------------------------------
(* The whole slot.                                                         *)

\* A new data root.
LEMMA SlotStarts ==
  ASSUME SlotInit
  PROVE  SlotInv
  <1> USE DEF SlotInit, EmptyRecord
  <1>0. runs = <<>> /\ Len(runs) = 0
    OBVIOUS
  <1>1. SlotTypeOK
    <2>1. 0 \in 0..MaxSlots /\ 0 \in 0..MaxRuns
      BY SlotAssumption
    <2>2. runs \in Seq([rev : Revisions, result : {"none", "settled", "unsettled"},
                        handed : BOOLEAN])
      BY <1>0
    <2>3. QED
      BY <2>1, <2>2 DEF SlotTypeOK
  <1>2. ThreadInv /\ RunInv
    <2>1. 0 \in 0..MaxSlots /\ 0 <= MaxRuns
      BY SlotAssumption
    <2>2. ThreadInv
      BY DEF ThreadInv, Outside, Holding
    <2>3. record.use = 0 /\ 0 \in 0..Len(runs)
      BY <1>0
    <2>4. QED
      BY <1>0, <2>1, <2>2, <2>3 DEF RunInv
  <1>3. RecordInv
    BY DEF RecordInv, ReadySlotExists, Owning
  <1>4. PackageInv /\ CleanInv
    BY <1>0 DEF PackageInv, OpenRunKeepsPackage, CleanInv, Building, Holding
  <1>5. QED
    BY <1>1, <1>2, <1>3, <1>4 DEF SlotInv

\* Every step in the service keeps the invariant.
LEMMA SlotNextKeeps ==
  ASSUME SlotInv, SlotNext
  PROVE  SlotInv'
  BY PrepareKeeps, MakeRootKeeps, RootWithdrawnKeeps, SaveRootKeeps, RefuseKeeps, ReuseKeeps,
     ProceedKeeps, SaveRetiringKeeps, EraseKeeps, EraseFailsKeeps, SaveEmptyKeeps, CreateKeeps,
     SaveReadyKeeps, SaveFailsKeeps, StageKeeps, StageFailsKeeps, RenameKeeps, AbandonKeeps,
     WithdrawReusedKeeps, WithdrawKeeps, WithdrawFailsKeeps, RegisterKeeps, BindKeeps,
     BindFailsKeeps, AdoptKeeps, SpawnFailsKeeps, UnbindKeeps, UnbindFailsKeeps,
     WorkerRecordsKeeps, WorkerReleasesKeeps, AccountKeeps, AccountedKeeps
  DEF SlotNext

\* A service that ends in order takes its refusal of preparations with it, and the
\* tool changes nothing of the slot.
LEMMA SlotRests ==
  ASSUME SlotInv, blocked' \in {blocked, FALSE},
         UNCHANGED <<diskVars, at, rev, owned, before, worker, readers, lost, made>>
  PROVE  SlotInv'
  <1> USE DEF SlotInv, diskVars
  <1>1. SlotTypeOK' /\ ThreadInv'
    BY DEF SlotTypeOK, ThreadInv
  <1>2. RunInv' /\ RecordInv'
    BY DEF RunInv, RecordInv, ReadySlotExists, Open
  <1>3. PackageInv'
    BY DEF PackageInv, OpenRunKeepsPackage, Accepted, Open
  <1>4. CleanInv'
    BY DEF CleanInv
  <1>5. QED
    BY <1>1, <1>2, <1>3, <1>4

-----------------------------------------------------------------------------
(* The slot: what follows.                                                 *)

\* A slot is retired when nobody has its package open, and never while a run is open.
LEMMA SlotKeepsPackages ==
  ASSUME SlotInv
  PROVE  PackagesAreKept
  <1>1. RetirementMeetsNoReader
    BY DEF SlotInv, SlotTypeOK, ThreadInv, RetirementMeetsNoReader, Holding
  <1>2. QED
    BY <1>1 DEF SlotInv, PackageInv, PackagesAreKept

\* At rest the slot is there, holds what was accepted, and refuses nobody.
LEMMA SlotIsUsable ==
  ASSUME SlotInv
  PROVE  SlotStaysUsable
  <1>1. ReadySlotExists
    BY DEF SlotInv, RecordInv
  <1>2. OnlyAcceptedIsReused
    BY DEF SlotInv, PackageInv, OnlyAcceptedIsReused, Accepted, Holding
  <1>3. FailureLeavesNoTrace
    <2> SUFFICES ASSUME at = "rest", ~lost
                 PROVE  /\ root # "bare" /\ ~stray /\ ~marker /\ ~blocked
                        /\ record.use # 0 => runs[record.use].handed
                        /\ bundle # None => Accepted(bundle)
      BY DEF FailureLeavesNoTrace, Accepted
    <2>1. ~owned
      BY DEF SlotInv, ThreadInv, Owning
    <2>2. QED
      BY <2>1 DEF SlotInv, CleanInv, PackageInv
  <1>4. QED
    BY <1>1, <1>2, <1>3 DEF SlotStaysUsable

-----------------------------------------------------------------------------
(* The two processes.                                                      *)

\* What both keep, and that only the service prepares and executes.
DataRootInv ==
  /\ SlotInv
  /\ ExchangeInv
  /\ holder # "service" => SlotIdle

\* A step of the tool is never one under the service.
LEMMA ToolHasTheLock ==
  ASSUME ExchangeInv, ExchangeNext
  PROVE  holder # "service"
  <1>1. CASE tool.at = "none"
    <2>1. tool = NoTool
      BY <1>1 DEF ExchangeInv, ExchangeTypes, ToolFits, Running, NoTool
    <2>2. Conversion \/ Command("finish") \/ Command("rollback")
      BY <1>1, <2>1
      DEF ExchangeNext, ToolDies, Saving, SaveSentinel, SaveIntent, Finish, MakeNamespace,
          SaveOwner, MakeBase, SaveTrash, SaveStageIntent, MakeStage, SaveStage, SavePreparing,
          Copy, SavePrepared, SaveOldIntent, OldIsMoved, MoveOld, SaveOldMoved, SaveNewIntent,
          NewIsMoved, MoveNew, SaveNewMoved, Commit, RollbackAtOnce, Rollback, Retain,
          SaveRetained, SaveOldBack, OldIsBack, Restore, Settle
    <2>3. QED
      BY <2>2 DEF Conversion, Command, Take
  <1>2. CASE tool.at # "none"
    BY <1>2 DEF ExchangeInv, LockFits
  <1>3. QED
    BY <1>1, <1>2

\* A new data root.
LEMMA InitHolds ==
  Init => DataRootInv
  BY SlotStarts, ExchangeStarts DEF Init, DataRootInv, SlotIdle, SlotInit

\* The start, the end and the death of the service, its steps, and those of the tool.
LEMMA NextHolds ==
  DataRootInv /\ [Next]_vars => DataRootInv'
  <1> SUFFICES ASSUME DataRootInv, [Next]_vars
               PROVE  DataRootInv'
    OBVIOUS
  <1> USE DEF DataRootInv
  <1>1. CASE ServiceStarts
    <2>1. SlotInv'
      BY <1>1, SlotRests DEF ServiceStarts, slotVars, memoryVars
    <2>2. ExchangeInv'
      BY <1>1, ServiceKeepsExchange DEF ServiceStarts, Take
    <2>3. QED
      BY <1>1, <2>1, <2>2 DEF ServiceStarts, Take
  <1>2. CASE ServiceStops
    <2>1. SlotInv'
      BY <1>2, SlotRests DEF ServiceStops
    <2>2. ExchangeInv'
      BY <1>2, ServiceKeepsExchange DEF ServiceStops, Leave
    <2>3. QED
      BY <1>2, <2>1, <2>2 DEF ServiceStops, SlotIdle
  <1>3. CASE ServiceCrashes
    <2>1. SlotInv'
      BY <1>3, SlotCrashKeeps DEF ServiceCrashes
    <2>2. ExchangeInv'
      BY <1>3, ServiceKeepsExchange DEF ServiceCrashes, Leave
    <2>3. QED
      BY <1>3, <2>1, <2>2 DEF ServiceCrashes, SlotCrash, SlotIdle
  <1>4. CASE Serves
    <2>1. SlotInv'
      BY <1>4, SlotNextKeeps DEF Serves
    <2>2. ExchangeInv'
      BY <1>4, ServiceKeepsExchange DEF Serves
    <2>3. QED
      BY <1>4, <2>1, <2>2 DEF Serves
  <1>5. CASE Maintains
    <2>1. SlotInv'
      BY <1>5, SlotRests DEF Maintains, slotVars, memoryVars
    <2>2. ExchangeInv'
      BY <1>5, ExchangeNextKeeps DEF Maintains
    <2>3. QED
      BY <1>5, <2>1, <2>2, ToolHasTheLock DEF Maintains, SlotIdle, slotVars, memoryVars
  <1>6. CASE UNCHANGED vars
    <2>1. SlotInv'
      BY <1>6, SlotRests DEF vars, slotVars, memoryVars
    <2>2. ExchangeInv'
      BY <1>6, ServiceKeepsExchange DEF vars
    <2>3. QED
      BY <1>6, <2>1, <2>2 DEF vars, SlotIdle, slotVars, memoryVars
  <1>7. QED
    BY <1>1, <1>2, <1>3, <1>4, <1>5, <1>6 DEF Next

-----------------------------------------------------------------------------
(* The theorems.                                                           *)

\* The invariant holds in every behaviour of the data root.
THEOREM DataRootHolds == Spec => []DataRootInv
  BY InitHolds, NextHolds, PTL DEF Spec

\* Types, and what belongs to which holder of the lock: nobody prepares or executes
\* without the service, and no command runs without the tool.
THEOREM TypeTheorem == Spec => []TypeOK
  <1>1. DataRootInv => TypeOK
    <2> SUFFICES ASSUME DataRootInv PROVE TypeOK
      OBVIOUS
    <2>1. tool = NoTool <=> tool.at = "none"
      BY DEF DataRootInv, ExchangeInv, ExchangeTypes, ToolFits, Running, NoTool
    <2>2. tool.tx \in 0..MaxTransactions
      BY DEF DataRootInv, ExchangeInv, ExchangeTypes, Running
    <2>3. QED
      BY <2>1, <2>2 DEF TypeOK, DataRootInv, SlotInv, ExchangeInv, ExchangeTypes, LockFits
  <1>2. QED
    BY <1>1, DataRootHolds, PTL

\* execution_publication.cpp never retires or rebinds the slot of a run without a
\* settled result, and never deletes a package that somebody has open.
THEOREM PackagesTheorem == Spec => []PackagesAreKept
  <1>1. DataRootInv => PackagesAreKept
    BY SlotKeepsPackages DEF DataRootInv
  <1>2. QED
    BY <1>1, DataRootHolds, PTL

\* A record that calls the slot ready names the directory that is there, only what was
\* accepted by a run is executed again, and a failed preparation leaves nothing behind
\* as long as the disk obeys.
THEOREM SlotTheorem == Spec => []SlotStaysUsable
  <1>1. DataRootInv => SlotStaysUsable
    BY SlotIsUsable DEF DataRootInv
  <1>2. QED
    BY <1>1, DataRootHolds, PTL

\* main.cpp asks require_no_pending under the lock: the service runs over the original
\* or over one whole converted directory, whatever commands ended where.
THEOREM PublicationTheorem == Spec => []ServiceSeesWholePublication
  <1>1. DataRootInv => ServiceSeesWholePublication
    BY WholeUnderService DEF DataRootInv
  <1>2. QED
    BY <1>1, DataRootHolds, PTL

\* The journal of the maintenance tool is true of the disk and enough to go back,
\* wherever its commands ended.
THEOREM JournalTheorem == Spec => []JournalIsEnough
  <1>1. DataRootInv => JournalIsEnough
    BY JournalIsTrue, RollbackIsOpen DEF DataRootInv, JournalIsEnough
  <1>2. QED
    BY <1>1, DataRootHolds, PTL
=============================================================================
