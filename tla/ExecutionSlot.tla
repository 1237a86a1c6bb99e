--------------------------- MODULE ExecutionSlot ---------------------------
(***************************************************************************)
(* The one directory the service executes packages from,                   *)
(* execution-publication/current, and the record beside it, state.json:    *)
(* ExecutionPublication::prepare and bind, with publish_native, the owner  *)
(* of a directory under preparation (OwnedBundleDirectory) and the         *)
(* handover to the coordinator's worker.                                   *)
(*                                                                         *)
(* One thread prepares at a time, the job or the session of the            *)
(* application; the worker is the coordinator's.  A package is opened by   *)
(* whoever executes, prepares or accounts it, and a directory with an open *)
(* member cannot be deleted.  Every write of the record is atomic_write:   *)
(* it may fail, or the process end in it, and leave its temporary file.    *)
(***************************************************************************)
EXTENDS DataRootLock, Integers, Sequences

CONSTANTS
  Revisions,      \* program revisions
  None,           \* no revision
  MaxSlots,       \* bound: slots created
  MaxRuns         \* bound: runs registered

ASSUME SlotAssumption ==
  /\ None \notin Revisions
  /\ MaxSlots \in Nat /\ MaxRuns \in Nat

VARIABLES
  (* On disk. *)
  root,           \* execution-publication: "absent", "bare" (without a record) or "made"
  stray,          \* an entry beside state.json and current
  record,         \* state.json: [phase, dir, use]
  current,        \* the identity of the directory current, 0 if there is none
  bundle,         \* the revision of current/bundle
  marker,         \* a staging directory or a .cleanup-pending marker in current
  runs,           \* run.json and result.json of each run: [rev, result, handed]
  (* In the service. *)
  at,             \* the next step of the thread that prepares
  rev,            \* the revision it prepares
  owned,          \* it made the package, and has not yet given it away
  before,         \* previous: the use its rollback restores
  blocked,        \* preparation_cleanup_blocked_
  worker,         \* the coordinator's worker: "none", "running" or "recorded"
  readers,        \* those with an open package: "prep", "worker", "watcher"
  (* For the properties and the bounds. *)
  lost,           \* a crash, or a failure of the disk that could not be undone
  made            \* slots created

diskVars   == <<root, stray, record, current, bundle, marker, runs>>
memoryVars == <<at, rev, owned, before, blocked, worker, readers>>
slotVars   == <<diskVars, memoryVars, lost, made>>

EmptyRecord == [phase |-> "empty", dir |-> 0, use |-> 0]

SlotInit ==
  /\ root = "absent" /\ stray = FALSE /\ record = EmptyRecord
  /\ current = 0 /\ bundle = None /\ marker = FALSE /\ runs = <<>>
  /\ at = "rest" /\ rev = None /\ owned = FALSE /\ before = 0
  /\ blocked = FALSE /\ worker = "none" /\ readers = {}
  /\ lost = FALSE /\ made = 0

\* The service may end: nothing is being prepared or executed.
SlotIdle == at = "rest" /\ worker = "none"

Rests == at' = "rest" /\ rev' = None /\ owned' = FALSE /\ before' = 0
Goes(step) == at' = step /\ UNCHANGED <<rev, owned, before>>
StepFrame == UNCHANGED <<blocked, worker, readers, made>>

-----------------------------------------------------------------------------
(* The root and the record.                                                *)

\* Slip: a run that saved any result counts as settled.
SettledAnyhow(use) == use # 0 => runs[use].result # "none"

\* require_settled.
Settled(use) == use # 0 => runs[use].result = "settled"

\* Slip: the leases of a finished worker may still be open.
Recorded == worker # "running"

\* coordinator_->collect_finished_worker(): the worker is joined, so its
\* definition is gone.
Collected == worker = "none"

Prepare(r) ==
  /\ at = "rest"
  /\ ~blocked
  /\ Collected
  /\ at' = IF root = "absent" THEN "root" ELSE "look"
  /\ rev' = r
  /\ UNCHANGED <<diskVars, owned, before, lost>> /\ StepFrame

MakeRoot ==
  /\ at = "root"
  /\ root' = "bare"
  /\ Goes("rootRecord")
  /\ UNCHANGED <<stray, record, current, bundle, marker, runs, lost>> /\ StepFrame

\* The owner of the new root withdraws it, with all there is in it, or cannot.
RootWithdrawn ==
  /\ at = "rootRecord"
  /\ root' \in {"absent", "bare"}
  /\ lost' = (lost \/ root' = "bare")
  /\ Rests
  /\ UNCHANGED <<stray, record, current, bundle, marker, runs>> /\ StepFrame

SaveRoot ==
  /\ at = "rootRecord"
  /\ root' = "made"
  /\ Goes("look")
  /\ UNCHANGED <<stray, record, current, bundle, marker, runs, lost>> /\ StepFrame

Readable == root = "made" /\ ~stray

\* Slip: a pending marker does not keep a package from being adopted.
NotPending == TRUE

\* Owned::require_no_pending(slot).
NoPending == ~marker

\* verify_slot_identity, require_settled and check_slot.
Consistent ==
  /\ record.phase = "ready"
  /\ current = record.dir
  /\ Settled(record.use)
  /\ NoPending

Refuse ==
  /\ at = "look"
  /\ \/ ~Readable
     \/ record.phase = "ready" /\ ~Consistent
     \/ record.phase = "retiring" /\ current \notin {0, record.dir}
     \/ record.phase = "empty" /\ current # 0
  /\ Rests
  /\ UNCHANGED <<diskVars, lost>> /\ StepFrame

\* The package is there already; publish_native opens it.
Reuse ==
  /\ at = "look"
  /\ Readable /\ Consistent
  /\ bundle = rev
  /\ Goes("register")
  /\ readers' = readers \union {"prep"}
  /\ UNCHANGED <<diskVars, blocked, worker, made, lost>>

\* Slip: the slot is deleted before the record says so.
EraseAtOnce ==
  /\ at = "look"
  /\ Readable
  /\ \/ Consistent /\ bundle # rev /\ Goes("erase")
     \/ record.phase = "retiring" /\ current \in {0, record.dir} /\ Goes("erase")
     \/ record.phase = "empty" /\ current = 0 /\ Goes("create")
  /\ UNCHANGED <<diskVars, lost>> /\ StepFrame

Proceed ==
  /\ at = "look"
  /\ Readable
  /\ \/ Consistent /\ bundle # rev /\ Goes("retire")
     \/ record.phase = "retiring" /\ current \in {0, record.dir} /\ Goes("erase")
     \/ record.phase = "empty" /\ current = 0 /\ Goes("create")
  /\ UNCHANGED <<diskVars, lost>> /\ StepFrame

-----------------------------------------------------------------------------
(* Retirement of the old slot, creation of the new one.                    *)

\* The intent is saved before anything is deleted.
SaveRetiring ==
  /\ at = "retire"
  /\ record' = [record EXCEPT !.phase = "retiring"]
  /\ Goes("erase")
  /\ UNCHANGED <<root, stray, current, bundle, marker, runs, lost>> /\ StepFrame

\* erase_owned_tree: current itself is opened for deletion first, so one open
\* package saves all of it.
Erase ==
  /\ at = "erase"
  /\ readers = {}
  /\ current' = 0 /\ bundle' = None /\ marker' = FALSE
  /\ Goes("emptied")
  /\ UNCHANGED <<root, stray, record, runs, lost>> /\ StepFrame

\* It fails at the first directory, or inside.
EraseFails ==
  /\ at = "erase"
  /\ \/ UNCHANGED bundle
     \/ readers = {} /\ bundle' = None
  /\ Rests
  /\ UNCHANGED <<root, stray, record, current, marker, runs, lost>> /\ StepFrame

SaveEmpty ==
  /\ at = "emptied"
  /\ record' = EmptyRecord
  /\ Goes("create")
  /\ UNCHANGED <<root, stray, current, bundle, marker, runs, lost>> /\ StepFrame

Create ==
  /\ at = "create"
  /\ made < MaxSlots
  /\ made' = made + 1
  /\ current' = made + 1
  /\ Goes("slotRecord")
  /\ UNCHANGED <<root, stray, record, bundle, marker, runs, blocked, worker, readers, lost>>

SaveReady ==
  /\ at = "slotRecord"
  /\ record' = [phase |-> "ready", dir |-> current, use |-> 0]
  /\ Goes("stage")
  /\ UNCHANGED <<root, stray, current, bundle, marker, runs, lost>> /\ StepFrame

\* A save of the record fails with, or before, its temporary file.  The owner of
\* a slot without a record withdraws it, or leaves it with a marker beside it.
SaveFails ==
  /\ at \in {"retire", "emptied", "slotRecord"}
  /\ stray' \in {stray, TRUE}
  /\ current' \in IF at = "slotRecord" THEN {0, current} ELSE {current}
  /\ lost' = (lost \/ stray' \/ (at = "slotRecord" /\ current' # 0))
  /\ Rests
  /\ UNCHANGED <<root, record, bundle, marker, runs>> /\ StepFrame

-----------------------------------------------------------------------------
(* The package: publish_native.                                            *)

Stage ==
  /\ at = "stage"
  /\ marker' = TRUE
  /\ at' = "rename" /\ owned' = TRUE /\ UNCHANGED <<rev, before>>
  /\ UNCHANGED <<root, stray, record, current, bundle, runs, lost>> /\ StepFrame

StageFails ==
  /\ at = "stage"
  /\ Rests
  /\ UNCHANGED <<diskVars, lost>> /\ StepFrame

\* rename_to, under a marker of its own, and the check of the whole package.
Rename ==
  /\ at = "rename"
  /\ bundle' = rev
  /\ readers' = readers \union {"prep"}
  /\ Goes("register")
  /\ UNCHANGED <<root, stray, record, current, marker, runs, blocked, worker, made, lost>>

\* Slip: the definition outlives the failure, its lease with it.
Kept == readers

\* units.clear() and lease.reset() come before the owner withdraws.
Released == readers \ {"prep"}

\* A failure or a cancellation between publication and binding.
Abandon ==
  /\ at \in {"rename", "register", "bind"}
  /\ Goes("withdraw")
  /\ readers' = Released
  /\ UNCHANGED <<diskVars, blocked, worker, made, lost>>

\* After a failed spawn the use is taken back, after another failure there is none.
Withdrawn ==
  IF at = "withdrawBound" THEN Goes("unbind") ELSE Rests

WithdrawReused ==
  /\ at \in {"withdraw", "withdrawBound"} /\ ~owned
  /\ Withdrawn
  /\ UNCHANGED <<diskVars, lost>> /\ StepFrame

Withdraw ==
  /\ at \in {"withdraw", "withdrawBound"} /\ owned
  /\ readers = {}
  /\ bundle' = None /\ marker' = FALSE
  /\ Withdrawn
  /\ UNCHANGED <<root, stray, record, current, runs, lost>> /\ StepFrame

\* The marker stays, and no preparation is admitted any more.
WithdrawFails ==
  /\ at \in {"withdraw", "withdrawBound"} /\ owned
  /\ blocked' = TRUE
  /\ lost' = (lost \/ readers = {})
  /\ Withdrawn
  /\ UNCHANGED <<diskVars, worker, readers, made>>

-----------------------------------------------------------------------------
(* The handover to the coordinator.                                        *)

\* The coordinator's start: RunStore writes run.json.
Register ==
  /\ at = "register"
  /\ Len(runs) < MaxRuns
  /\ runs' = Append(runs, [rev |-> rev, result |-> "none", handed |-> FALSE])
  /\ Goes("bind")
  /\ UNCHANGED <<root, stray, record, current, bundle, marker, lost>> /\ StepFrame

Bind ==
  /\ at = "bind"
  /\ Readable /\ record.phase = "ready" /\ current = record.dir
  /\ Settled(record.use)
  /\ bundle = rev
  /\ record' = [record EXCEPT !.use = Len(runs)]
  /\ at' = "spawn" /\ before' = record.use /\ UNCHANGED <<rev, owned>>
  /\ UNCHANGED <<root, stray, current, bundle, marker, runs, lost>> /\ StepFrame

BindFails ==
  /\ at = "bind"
  /\ stray' = TRUE /\ lost' = TRUE
  /\ Goes("withdraw")
  /\ readers' = Released
  /\ UNCHANGED <<root, record, current, bundle, marker, runs, blocked, worker, made>>

\* The thread exists; the owner accepts, and the worker may pass its latch.
\* A marker that cannot be removed stays and blocks.
Adopt ==
  /\ at = "spawn"
  /\ worker' = "running"
  /\ readers' = (readers \ {"prep"}) \union {"worker"}
  /\ runs' = [runs EXCEPT ![Len(runs)].handed = TRUE]
  /\ \/ marker' = FALSE /\ UNCHANGED <<blocked, lost>>
     \/ owned /\ blocked' = TRUE /\ lost' = TRUE /\ UNCHANGED marker
  /\ Rests
  /\ UNCHANGED <<root, stray, record, current, bundle, made>>

\* The thread's closure owns the definition: it withdraws the package before the
\* handler takes the use back.
SpawnFails ==
  /\ at = "spawn"
  /\ Goes("withdrawBound")
  /\ readers' = Released
  /\ UNCHANGED <<diskVars, blocked, worker, made, lost>>

\* Slip: the failed run stays the last use.
StayBound ==
  /\ at = "unbind"
  /\ Rests
  /\ UNCHANGED <<diskVars, lost>> /\ StepFrame

Unbind ==
  /\ at = "unbind"
  /\ record' = [record EXCEPT !.use = before]
  /\ Rests
  /\ UNCHANGED <<root, stray, current, bundle, marker, runs, lost>> /\ StepFrame

UnbindFails ==
  /\ at = "unbind"
  /\ stray' \in {stray, TRUE}
  /\ lost' = TRUE
  /\ Rests
  /\ UNCHANGED <<root, record, current, bundle, marker, runs>> /\ StepFrame

-----------------------------------------------------------------------------
(* The worker, and the session that accounts a finished run.               *)

\* result.json: settled, with open inputs or missing details, or not saved.
WorkerRecords ==
  /\ worker = "running"
  /\ \E result \in {"none", "settled", "unsettled"} :
       runs' = [runs EXCEPT ![Len(runs)].result = result]
  /\ worker' = "recorded"
  /\ UNCHANGED <<root, stray, record, current, bundle, marker, at, rev, owned, before,
                 blocked, readers, lost, made>>

WorkerReleases ==
  /\ worker = "recorded"
  /\ worker' = "none"
  /\ readers' = readers \ {"worker"}
  /\ UNCHANGED <<diskVars, at, rev, owned, before, blocked, lost, made>>

\* open_publication by the session once its run is collected.
Account ==
  /\ at = "rest"
  /\ Collected
  /\ runs # <<>> /\ runs[Len(runs)].handed /\ bundle # None
  /\ at' = "account"
  /\ readers' = readers \union {"watcher"}
  /\ UNCHANGED <<diskVars, rev, owned, before, blocked, worker, lost, made>>

Accounted ==
  /\ at = "account"
  /\ at' = "rest"
  /\ readers' = readers \ {"watcher"}
  /\ UNCHANGED <<diskVars, rev, owned, before, blocked, worker, lost, made>>

-----------------------------------------------------------------------------
(* The process ends at any step.                                           *)

Saves == {"retire", "emptied", "slotRecord", "bind", "unbind"}

SlotCrash ==
  /\ \/ UNCHANGED stray
     \/ at \in Saves /\ stray' = TRUE
  /\ \/ UNCHANGED <<current, bundle>>
     \/ at \in {"erase", "withdraw", "withdrawBound"} /\ readers = {}
          /\ (at # "erase" => owned)
          /\ bundle' = None /\ UNCHANGED current
  /\ at' = "rest" /\ rev' = None /\ owned' = FALSE /\ before' = 0
  /\ blocked' = FALSE /\ worker' = "none" /\ readers' = {}
  /\ lost' = TRUE
  /\ UNCHANGED <<root, record, marker, runs, made>>

SlotNext ==
  \/ \E r \in Revisions : Prepare(r)
  \/ MakeRoot \/ RootWithdrawn \/ SaveRoot
  \/ Refuse \/ Reuse \/ Proceed
  \/ SaveRetiring \/ Erase \/ EraseFails \/ SaveEmpty \/ Create \/ SaveReady \/ SaveFails
  \/ Stage \/ StageFails \/ Rename \/ Abandon
  \/ WithdrawReused \/ Withdraw \/ WithdrawFails
  \/ Register \/ Bind \/ BindFails \/ Adopt \/ SpawnFails \/ Unbind \/ UnbindFails
  \/ WorkerRecords \/ WorkerReleases \/ Account \/ Accounted

-----------------------------------------------------------------------------
(* Properties.                                                             *)

SlotTypeOK ==
  /\ root \in {"absent", "bare", "made"} /\ stray \in BOOLEAN
  /\ record \in [phase : {"empty", "ready", "retiring"}, dir : 0..MaxSlots, use : 0..MaxRuns]
  /\ current \in 0..MaxSlots /\ bundle \in Revisions \union {None} /\ marker \in BOOLEAN
  /\ runs \in Seq([rev : Revisions, result : {"none", "settled", "unsettled"},
                   handed : BOOLEAN])
  /\ readers \subseteq {"prep", "worker", "watcher"}
  /\ worker \in {"none", "running", "recorded"}

\* What a run was given stays where it is as long as the run has not settled:
\* execution_publication.cpp refuses to retire or to rebind the slot of a run
\* without a result, with open inputs or with missing details.
OpenRunKeepsPackage ==
  \A i \in 1..Len(runs) :
    runs[i].handed /\ runs[i].result # "settled" =>
      /\ record.phase = "ready" /\ record.use = i
      /\ current = record.dir
      /\ bundle = runs[i].rev

\* A record that calls the slot ready names the directory that is there, at
\* every step and after every crash: the intent to retire comes before the first
\* deletion, and the new identity only after the creation.
ReadySlotExists ==
  record.phase = "ready" => current = record.dir /\ current # 0

\* Only a package that was once accepted by a run is executed again: what a
\* crash left between its renaming and its acceptance keeps its marker.
OnlyAcceptedIsReused ==
  at \in {"register", "bind", "spawn"} /\ ~owned =>
    \E i \in 1..Len(runs) : runs[i].handed /\ runs[i].rev = bundle

\* As long as the disk has obeyed and no process has died, an ended preparation
\* leaves nothing that would refuse the next one, whatever step of it failed: no
\* temporary file, no marker, no unaccepted package, and no use by a run that
\* was never handed over.
FailureLeavesNoTrace ==
  at = "rest" /\ ~lost =>
    /\ root # "bare" /\ ~stray /\ ~marker /\ ~blocked
    /\ record.use # 0 => runs[record.use].handed
    /\ bundle # None => \E i \in 1..Len(runs) : runs[i].handed /\ runs[i].rev = bundle

\* Whatever ended where, the slot is there, holds what was accepted, and refuses nobody.
SlotStaysUsable == ReadySlotExists /\ OnlyAcceptedIsReused /\ FailureLeavesNoTrace

\* A slot is retired only when everybody has closed its package, the worker of
\* the last run and the session's accounting included: else the deletion fails
\* and a change of revision is refused.
RetirementMeetsNoReader == at = "erase" => readers = {}

\* A package stays as long as somebody needs it: its run, or a reader.
PackagesAreKept == OpenRunKeepsPackage /\ RetirementMeetsNoReader
=============================================================================
