----------------------------- MODULE Checkpoint -----------------------------
(***************************************************************************)
(* The checkpoint of an installation, its restore after the namespace was  *)
(* lost, and the reconstruction of single lost records at a cold start:    *)
(*   pkg/recovery (coordinator, capture, eligibility, export, archive,     *)
(*   restore, startup plan, reconstructors), pkg/admin/checkpoint_export,  *)
(*   internal/driverapp (checkpoint_runtime, startup_inventory,            *)
(*   recovery_guard, provisional_recovery, the recovery branch of          *)
(*   controller_runtime) and internal/admincli (operator_checkpoint,       *)
(*   operator_checkpoint_restore).                                         *)
(*                                                                         *)
(* A volume is the pair of its allocation ConfigMap, in the namespace, and *)
(* its ownership record, on the parent, with its PersistentVolume beside   *)
(* them.  A namespace can be lost; parents and PersistentVolumes survive.  *)
(* A record keeps its lifecycle state and whether a node holds a fence;    *)
(* modules VolumeLifecycle and PoolReservations have the detail of every   *)
(* transition.  Not here: garbage collection, deletedUnknown allocations,  *)
(* and the records of parents that left the configuration.                 *)
(***************************************************************************)
EXTENDS Integers, FiniteSets

CONSTANTS
  Volumes,    \* logical volume IDs
  Existing,   \* the volumes provisioned before the first step
  Requests,   \* checkpoint request IDs, each with an output file of its own
  None, Idle, \* no object; a reservation journal without an intent
  MaxOps,     \* bound on the mutations the CSI side starts
  MaxFaults   \* bound on crashes, lost answers, interruptions and losses

ASSUME CheckpointAssumption ==
  /\ MaxOps \in Nat /\ MaxFaults \in Nat /\ Existing \subseteq Volumes
  /\ {None, Idle} \cap (Volumes \cup Requests) = {} /\ None # Idle

VARIABLES
  alloc,    \* the allocation records in the namespace
  own,      \* the ownership records on the parents
  pv,       \* PersistentVolumes: absent, answered for but not created, bound
  attached, \* the volumes with a VolumeAttachment
  journal,  \* the permanent reservation journal: lost, Idle or an intent
  lease,    \* the leadership Lease: held, released with its marker, or lost
  secret,   \* the request whose manifest the checkpoint Secret carries
  late,     \* allocation writes whose sender gave up before the answer; once
            \* the namespace is lost, ownership writes about to be made
  lateJ,    \* the journal write whose handler gave up before the answer
  op,       \* the mutation holding a gate token, per volume
  ctl,      \* the controller process: phase, coordinator and recovery pass
  cli,      \* the operator's csi-admin process
  arch,     \* the archives published under their output paths
  damage,   \* the parts of stored archives that no longer are as published
  ops, faults

store == <<alloc, journal, late, lateJ>>
cluster == <<pv, attached>>
archives == <<arch, damage>>
vars == <<alloc, own, pv, attached, journal, lease, secret, late, lateJ, op, ctl,
          cli, arch, damage, ops, faults>>

-----------------------------------------------------------------------------
\* Records and snapshots

\* A record; Reserved and CreatingDirectory are "creating", Retained is
\* "archived".  A fence is held only while the volume is ready.
States == {"creating", "ready", "deleting", "archived", "deleted", "compact"}
Record == [st : States, fence : BOOLEAN]
Rec(st) == [st |-> st, fence |-> FALSE]
Ready(f) == [st |-> "ready", fence |-> f]
Allocation == Record \cup {None}
Ownership == {r \in Record : r.st \notin {"creating", "deleted"}} \cup {None}
State(r) == IF r = None THEN "none" ELSE r.st

\* What a checkpoint commits to: the restore-stable object set and the
\* ownership inventories of the parents.  Its journals are all Idle.
ParentInventories == [Volumes -> Ownership]
Snapshot ==
  [alloc : [Volumes -> Allocation], own : ParentInventories,
   pv : [Volumes -> BOOLEAN]]

\* A PersistentVolume is projected to what survives its restore.
Bound == [v \in Volumes |-> pv[v] \in {"bound", "released"}]
Current == [alloc |-> alloc, own |-> own, pv |-> Bound]

Kinds == {"none", "create", "publish", "unpublish", "clear", "delete", "compact"}
Phases ==
  {"down", "provisional", "verified", "promoted", "starting", "serving"}
Passes == {"none", "journals", "plan", "reconstruct", "reconcile"}
Plans == {"done", "paired", "pv", "own"} \cup States
NoPlan == [v \in Volumes |-> "done"]

Down ==
  [phase |-> "down", gate |-> None, read |-> None, cand |-> None,
   pass |-> "none", plan |-> NoPlan]
PCs == {"idle", "prepare", "export", "stream", "publish", "resume",
        "journals", "objects", "secret"}
NoCli == [pc |-> "idle", req |-> None, snap |-> None]

Init ==
  /\ alloc = [v \in Volumes |-> IF v \in Existing THEN Ready(FALSE) ELSE None]
  /\ own = alloc
  /\ pv = [v \in Volumes |-> IF v \in Existing THEN "bound" ELSE "none"]
  /\ attached = {} /\ journal = Idle /\ lease = "held" /\ secret = None
  /\ late = [v \in Volumes |-> None] /\ lateJ = None
  /\ op = [v \in Volumes |-> "none"]
  /\ ctl = [Down EXCEPT !.phase = "serving"] /\ cli = NoCli
  /\ arch = [r \in Requests |-> None] /\ damage = {}
  /\ ops = 0 /\ faults = 0

Fault == faults < MaxFaults /\ faults' = faults + 1

\* A write of an object supersedes the requests for it still under way.
WriteAllocation(v, r) ==
  /\ alloc' = [alloc EXCEPT ![v] = r] /\ late' = [late EXCEPT ![v] = None]
WriteJournal(j) == journal' = j /\ lateJ' = None
WriteOwnership(v, r) == own' = [own EXCEPT ![v] = r]
WritePair(v, p) ==
  /\ IF p[1] # alloc[v]
     THEN WriteAllocation(v, p[1]) ELSE UNCHANGED <<alloc, late>>
  /\ WriteOwnership(v, p[2])

-----------------------------------------------------------------------------
\* The lifecycle of a pair: each operator is the set of pairs <<allocation,
\* ownership>> that the next single write of a state machine can leave

CreationSteps(a, o) ==
  CASE a = Rec("creating") /\ o = None -> {<<a, Ready(FALSE)>>}
    [] a = Rec("creating") /\ o = Ready(FALSE) -> {<<o, o>>}
    [] OTHER -> {}

\* The union of the fences goes to the allocation first.
FenceUnionSteps(a, o) ==
  CASE a = Ready(FALSE) /\ o = Ready(TRUE) -> {<<o, o>>}
    [] a = Ready(TRUE) /\ o = Ready(FALSE) -> {<<a, a>>}
    [] OTHER -> {}

\* Each state is written to the allocation first and mirrored to the
\* ownership.  The delete policy of the volume tells its last state; nothing
\* before depends on it.
DeletionSteps(a, o) ==
  CASE a = Rec("deleting") /\ State(o) = "ready" -> {<<a, a>>}
    [] a = Rec("deleting") /\ o = a -> {<<Rec("archived"), o>>, <<Rec("deleted"), o>>}
    [] a = Rec("archived") /\ o = Rec("deleting") -> {<<a, a>>}
    [] a = Rec("deleted") /\ o = Rec("deleting") -> {<<a, Rec("compact")>>}
    [] OTHER -> {}

\* The pair of a completed deletion.
Disposed(a, o) ==
  \/ a = Rec("archived") /\ o = a
  \/ a = Rec("deleted") /\ o = Rec("compact")

\* A VolumeAttachment stops a deletion whose records agree.
InUse(v) ==
  v \in attached /\ State(alloc[v]) \in {"ready", "deleting"}
  /\ State(own[v]) = State(alloc[v])

\* The pairs a cold start accepts (ValidateLifecyclePairForStartup).
PairAccepted(a, o) ==
  <<State(a), State(o)>> \in
    {<<"creating", "none">>, <<"creating", "ready">>, <<"ready", "ready">>,
     <<"deleting", "ready">>, <<"deleting", "deleting">>,
     <<"archived", "deleting">>, <<"archived", "archived">>,
     <<"deleted", "deleting">>, <<"deleted", "compact">>}

\* The pairs a checkpoint accepts: both records of a stable state.
PairEligible(a, o) ==
  \/ a = None /\ o = None
  \/ State(a) \in {"ready", "archived"} /\ o = a
  \/ State(a) \in {"deleted", "compact"} /\ o = Rec("compact")

\* What the inventory plan accepts of a volume: its allocation, its ownership
\* and whether it has a PersistentVolume.
Acceptable(a, o, bound) ==
  CASE State(a) = "none" -> bound => State(o) \notin {"none", "compact"}
    [] State(a) = "compact" -> o = a /\ ~bound
    [] OTHER -> PairAccepted(a, o) /\ (bound => State(a) # "creating")

-----------------------------------------------------------------------------
\* Mutations under a gate token

Serving == ctl.phase = "serving"

\* Fault seeded for a mutant: an admission that does not look at the barrier.
AdmittedAlways == Serving

\* A closed gate admits no new mutation.
Admitted == Serving /\ ctl.gate = None

\* A handler is admitted; its writes follow, one at a time.
Begin(v, kind) ==
  /\ Admitted /\ op[v] = "none" /\ ops < MaxOps
  /\ op' = [op EXCEPT ![v] = kind] /\ ops' = ops + 1
  /\ UNCHANGED <<store, own, pv, lease, secret, ctl, cli, archives, faults>>

CreateVolume(v) == pv[v] = "none" /\ Begin(v, "create") /\ UNCHANGED attached
\* The VolumeAttachment that asks for the publication is there from now on; in
\* VolumeLifecycle it comes and goes by itself.
ControllerPublish(v) ==
  pv[v] = "bound" /\ Begin(v, "publish") /\ attached' = attached \cup {v}
ControllerUnpublish(v) ==
  v \in attached /\ Begin(v, "unpublish") /\ UNCHANGED attached
DeleteVolume(v) == pv[v] = "bound" /\ Begin(v, "delete") /\ UNCHANGED attached
Compact(v) ==
  alloc[v] = Rec("deleted") /\ Begin(v, "compact") /\ UNCHANGED attached

\* A new volume journals its intent, its allocation is created, and the
\* journal returns to Idle before the creation goes on.
JournalSteps(v) ==
  CASE alloc[v] = None /\ journal = Idle -> {v}
    [] alloc[v] # None /\ journal = v -> {Idle}
    [] OTHER -> {}
CreateSteps(v) ==
  CASE alloc[v] = None /\ journal = v -> {<<Rec("creating"), own[v]>>}
    [] alloc[v] # None /\ journal # v -> CreationSteps(alloc[v], own[v])
    [] OTHER -> {}

\* A fence is written to the allocation first and cleared from it last.
PublishSteps(a, o) ==
  IF a = Ready(FALSE) /\ o = a THEN {<<Ready(TRUE), o>>} ELSE FenceUnionSteps(a, o)
UnpublishSteps(a, o) ==
  IF a = Ready(TRUE) /\ o = a THEN {<<a, Ready(FALSE)>>} ELSE FenceUnionSteps(a, o)
ClearSteps(a, o) ==
  IF a = Ready(TRUE) /\ o = Ready(FALSE) THEN {<<o, o>>} ELSE {}

DeleteSteps(v) ==
  CASE InUse(v) -> {}
    [] alloc[v] = Ready(FALSE) /\ own[v] = alloc[v] -> {<<Rec("deleting"), own[v]>>}
    [] OTHER -> DeletionSteps(alloc[v], own[v])
CompactSteps(a, o) ==
  IF a = Rec("deleted") /\ o = Rec("compact") THEN {<<o, o>>} ELSE {}

\* The next write of the handler of v.
HandlerSteps(v) ==
  CASE op[v] = "create" -> CreateSteps(v)
    [] op[v] = "publish" -> PublishSteps(alloc[v], own[v])
    [] op[v] = "unpublish" -> UnpublishSteps(alloc[v], own[v])
    [] op[v] = "clear" -> ClearSteps(alloc[v], own[v])
    [] op[v] = "delete" -> DeleteSteps(v)
    [] op[v] = "compact" -> CompactSteps(alloc[v], own[v])
    [] OTHER -> {}
HandlerJournalSteps(v) == IF op[v] = "create" THEN JournalSteps(v) ELSE {}

Continue(v) ==
  /\ Serving
  /\ \/ \E j \in HandlerJournalSteps(v) :
          WriteJournal(j) /\ UNCHANGED <<alloc, late, own, op>>
     \/ \E p \in HandlerSteps(v) :
          /\ WritePair(v, p) /\ UNCHANGED <<journal, lateJ>>
          /\ op' = IF op[v] = "unpublish" /\ p[2] = Ready(FALSE)
                   THEN [op EXCEPT ![v] = "clear"] ELSE op
  /\ UNCHANGED <<cluster, lease, secret, ctl, cli, archives, ops, faults>>

\* What the handler of v was asked for is there.
Achieved(v) ==
  CASE op[v] = "create" -> State(alloc[v]) = "ready" /\ journal # v
    [] op[v] = "publish" -> alloc[v] = Ready(TRUE) /\ own[v] = alloc[v]
    [] op[v] \in {"unpublish", "clear"} ->
         \/ State(alloc[v]) \in {"none", "creating", "compact"}
         \/ alloc[v] = own[v] /\ ~alloc[v].fence
    [] op[v] = "delete" ->
         Disposed(alloc[v], own[v]) \/ alloc[v] = Rec("compact")
    [] op[v] = "compact" -> alloc[v] = Rec("compact")

\* The handler answers, with an error when it can go no further.  After a
\* creation the provisioner creates the PersistentVolume in its own time, and
\* it removes it after a deletion; the attacher removes the VolumeAttachment.
Answer(v) ==
  /\ Serving /\ op[v] # "none"
  /\ HandlerSteps(v) = {} /\ HandlerJournalSteps(v) = {}
  /\ op' = [op EXCEPT ![v] = "none"]
  /\ pv' = CASE Achieved(v) /\ op[v] = "create" -> [pv EXCEPT ![v] = "due"]
             [] Achieved(v) /\ op[v] = "delete" -> [pv EXCEPT ![v] = "released"]
             [] OTHER -> pv
  /\ attached' = IF Achieved(v) /\ op[v] \in {"unpublish", "clear"}
                 THEN attached \ {v} ELSE attached
  /\ UNCHANGED <<store, own, lease, secret, ctl, cli, archives, ops, faults>>

\* The external provisioner is not behind the gate.
Provision(v) ==
  /\ \/ pv[v] = "due" /\ pv' = [pv EXCEPT ![v] = "bound"]
     \/ pv[v] = "released" /\ pv' = [pv EXCEPT ![v] = "none"]
  /\ UNCHANGED <<store, own, attached, lease, secret, op, ctl, cli, archives, ops,
                 faults>>

-----------------------------------------------------------------------------
\* Checkpoint: quiesce, capture, export and resume

Drained == \A v \in Volumes : op[v] = "none"

\* The csi-admin process ends, with its answer or without one.  A request it
\* abandons leaves the barrier and the captured candidate in place.
Return == cli' = NoCli
Fail == Return /\ ctl' = [ctl EXCEPT !.read = None, !.pass = "none"]

RunPrepare(r) ==
  /\ cli.pc = "idle" /\ Serving /\ arch[r] = None
  /\ cli' = [pc |-> "prepare", req |-> r, snap |-> None]
  /\ UNCHANGED <<store, own, cluster, lease, secret, op, ctl, archives, ops, faults>>

\* The first request to arrive owns the barrier; a repeated one gets the
\* candidate already captured, and a different one is refused.
Prepare ==
  /\ cli.pc = "prepare" /\ Serving /\ ctl.read = None
  /\ \/ /\ ctl.gate = None
        /\ ctl' = [ctl EXCEPT !.gate = cli.req] /\ UNCHANGED cli
     \/ ctl.gate \notin {None, cli.req} /\ Return /\ UNCHANGED ctl
     \/ /\ ctl.gate = cli.req /\ ctl.cand # None
        /\ cli' = [cli EXCEPT !.pc = "export", !.snap = ctl.cand]
        /\ UNCHANGED ctl
  /\ UNCHANGED <<store, own, cluster, lease, secret, op, archives, ops, faults>>

\* The objects are listed once the last admitted mutation has released its
\* token, the parents after them.
ReadObjects ==
  /\ cli.pc = "prepare" /\ Serving /\ ctl.gate = cli.req
  /\ ctl.cand = None /\ ctl.read = None /\ Drained
  /\ IF journal = Idle
     THEN ctl' = [ctl EXCEPT !.read = [alloc |-> alloc, pv |-> Bound]]
          /\ UNCHANGED cli
     ELSE Fail
  /\ UNCHANGED <<store, own, cluster, lease, secret, op, archives, ops, faults>>

\* The inventory plan accepts what was read, and no volume is in a crash
\* window (ValidateCheckpointRecordSet).
Eligible ==
  \A v \in Volumes :
    /\ Acceptable(ctl.read.alloc[v], own[v], ctl.read.pv[v])
    /\ PairEligible(ctl.read.alloc[v], own[v])

CaptureCheckpoint ==
  /\ cli.pc = "prepare" /\ Serving /\ ctl.read # None
  /\ IF Eligible
     THEN ctl' = [ctl EXCEPT !.read = None,
                    !.cand = [alloc |-> ctl.read.alloc, own |-> own,
                              pv |-> ctl.read.pv]]
          /\ UNCHANGED cli
     ELSE Fail
  /\ UNCHANGED <<store, own, cluster, lease, secret, op, archives, ops, faults>>

\* The request still owns the barrier, and its ticket commits to the candidate.
ExportSession == ctl.gate = cli.req /\ ctl.cand # None
TicketMatches == cli.snap = ctl.cand
\* A second read of journals, objects and parents reproduces the candidate.
ParentsReproduced == own = ctl.cand.own
Reproduced ==
  /\ journal = Idle /\ alloc = ctl.cand.alloc /\ Bound = ctl.cand.pv
  /\ ParentsReproduced

BuildExport ==
  /\ cli.pc = "export" /\ Serving
  /\ IF ExportSession /\ TicketMatches /\ Reproduced
     THEN cli' = [cli EXCEPT !.pc = "stream"]
     ELSE Return
  /\ UNCHANGED <<store, own, cluster, lease, secret, op, ctl, archives, ops, faults>>

\* The archive is complete once its trailer has come; a connection that ends
\* before leaves only a temporary file.
ReceiveExport ==
  /\ cli.pc = "stream" /\ Serving /\ cli' = [cli EXCEPT !.pc = "publish"]
  /\ UNCHANGED <<store, own, cluster, lease, secret, op, ctl, archives, ops, faults>>

PublishArchive ==
  /\ cli.pc = "publish" /\ arch' = [arch EXCEPT ![cli.req] = cli.snap] /\ Return
  /\ UNCHANGED <<store, own, cluster, lease, secret, op, ctl, damage, ops, faults>>

\* Fault seeded for a mutant: only a release marker shows that the workloads
\* have stopped.
StoppedWithMarker == ctl.phase = "down" /\ lease = "released"

\* requireRestoreWorkloadsStopped; the Lease is absent or released.
WorkloadsStopped == ctl.phase = "down" /\ lease # "held"

\* A stored archive loses a file, or the bytes of a record change.  Only a
\* restore reads it, so the damage is done by the time one can run.
Parts == {"files", "objects", "parents"}
DamageArchive(r, part) ==
  /\ Fault /\ lease = "none" /\ WorkloadsStopped /\ cli.pc = "idle"
  /\ arch[r] # None /\ damage' = damage \cup {<<r, part>>}
  /\ UNCHANGED <<store, own, cluster, lease, secret, op, ctl, cli, arch, ops>>

\* Fault seeded for a mutant: a resume only of a completed capture.
ResumeCaptured(r) ==
  /\ cli.pc = "idle" /\ Serving /\ ctl.gate = r /\ Drained /\ ctl.cand # None
  /\ cli' = [pc |-> "resume", req |-> r, snap |-> None]
  /\ ctl' = [ctl EXCEPT !.pass = "journals"]
  /\ UNCHANGED <<store, own, cluster, lease, secret, op, archives, ops, faults>>

\* Reconciliation under the barrier starts once no token is held.
RunResume(r) ==
  /\ cli.pc = "idle" /\ Serving /\ ctl.gate = r /\ Drained
  /\ cli' = [pc |-> "resume", req |-> r, snap |-> None]
  /\ ctl' = [ctl EXCEPT !.pass = "journals"]
  /\ UNCHANGED <<store, own, cluster, lease, secret, op, archives, ops, faults>>

-----------------------------------------------------------------------------
\* The recovery pass of a cold start and of a resume

Active == ctl.pass # "none"

\* The pass stops at its first error: a starting process exits, a resume
\* leaves the gate closed.
Refuse ==
  IF ctl.phase = "serving" THEN Fail ELSE ctl' = Down /\ UNCHANGED cli

\* A pending intent is completed: its allocation is created, then the journal
\* returns to Idle.
ReconcileJournals ==
  /\ ctl.pass = "journals"
  /\ \/ /\ journal \in Volumes /\ UNCHANGED <<ctl, cli>>
        /\ IF alloc[journal] = None
           THEN WriteAllocation(journal, Rec("creating")) /\ UNCHANGED <<journal, lateJ>>
           ELSE WriteJournal(Idle) /\ UNCHANGED <<alloc, late>>
     \/ /\ journal = Idle /\ ctl' = [ctl EXCEPT !.pass = "plan"]
        /\ UNCHANGED <<store, cli>>
     \/ journal = None /\ Refuse /\ UNCHANGED store
  /\ UNCHANGED <<own, cluster, lease, secret, op, archives, ops, faults>>

\* Fault seeded for a mutant: a plan without the recoveries that rest on an
\* ownership record alone.
PlanPVBackedOnly ==
  /\ ctl.pass = "plan"
  /\ IF \A v \in Volumes : Acceptable(alloc[v], own[v], Bound[v])
     THEN ctl' = [ctl EXCEPT !.pass = "reconstruct", !.plan = [v \in Volumes |->
                    IF alloc[v] # None THEN "paired"
                    ELSE IF Bound[v] THEN "pv" ELSE "done"]]
          /\ UNCHANGED cli
     ELSE Refuse
  /\ UNCHANGED <<store, own, cluster, lease, secret, op, archives, ops, faults>>

BuildStartupInventoryPlan ==
  /\ ctl.pass = "plan"
  /\ IF \A v \in Volumes : Acceptable(alloc[v], own[v], Bound[v])
     THEN ctl' = [ctl EXCEPT !.pass = "reconstruct", !.plan = [v \in Volumes |->
                    IF alloc[v] # None THEN "paired"
                    ELSE IF own[v] = None THEN "done"
                    ELSE IF Bound[v] THEN "pv" ELSE "own"]]
          /\ UNCHANGED cli
     ELSE Refuse
  /\ UNCHANGED <<store, own, cluster, lease, secret, op, archives, ops, faults>>

\* The plan is worked off in the order of the logical IDs: the volumes with a
\* PersistentVolume first, then those of which only the ownership is left.
Planned(kind) == {v \in Volumes : ctl.plan[v] = kind}
Missing == IF Planned("pv") # {} THEN Planned("pv") ELSE Planned("own")
Listed == {v \in Volumes : ctl.plan[v] # "done"}
First(S) == CHOOSE v \in S : TRUE
Turn(v) == v \in Listed /\ v = First(Listed)

\* Fresh reads of the evidence a reconstruction rests on.
VerifyAllocationAbsentAndPVCurrent(v) == alloc[v] = None /\ Bound[v]
VerifyAllocationAndPVAbsent(v) == alloc[v] = None /\ ~Bound[v]

\* State and fences come from the authenticated ownership, compact or
\* detailed, nothing from the current configuration.
AllocationFromOwnership(o) == [st |-> o.st, fence |-> o.fence]

\* Create-only reconstruction of an allocation from its ownership record, once
\* the planned evidence was read again.
Reconstruct(v, evidence) ==
  /\ ctl.pass = "reconstruct" /\ v = First(Missing)
  /\ IF evidence
     THEN /\ WriteAllocation(v, AllocationFromOwnership(own[v]))
          /\ ctl' = [ctl EXCEPT !.plan[v] = "paired"] /\ UNCHANGED cli
     ELSE Refuse /\ UNCHANGED <<alloc, late>>
  /\ UNCHANGED <<own, cluster, journal, lateJ, lease, secret, op, archives, ops,
                 faults>>
ReconstructPVBacked(v) ==
  ctl.plan[v] = "pv" /\ Reconstruct(v, VerifyAllocationAbsentAndPVCurrent(v))
ReconstructOwnershipOnly(v) ==
  ctl.plan[v] = "own" /\ Reconstruct(v, VerifyAllocationAndPVAbsent(v))

\* The lifecycle reconciler lists the allocations once; a compact tombstone
\* needs nothing.
ListAllocations ==
  /\ ctl.pass = "reconstruct" /\ Missing = {}
  /\ ctl' = [ctl EXCEPT !.pass = "reconcile", !.plan = [v \in Volumes |->
               IF State(alloc[v]) \in {"none", "compact"} THEN "done" ELSE alloc[v].st]]
  /\ UNCHANGED <<store, own, cluster, lease, secret, op, cli, archives, ops, faults>>

\* The state listed for a volume selects its reconciler, which reads the pair
\* again: it has a write to make, it is done, or it refuses what it finds.
\* The fences of an archived volume come before its deletion, so that they
\* refuse the ownership a deletion has not mirrored yet.
ReconcilerSteps(v) ==
  CASE ctl.plan[v] = "creating" -> CreateSteps(v)
    [] ctl.plan[v] = "ready" -> FenceUnionSteps(alloc[v], own[v])
    [] ctl.plan[v] \in {"deleting", "deleted"} /\ ~InUse(v) ->
         DeletionSteps(alloc[v], own[v])
    [] OTHER -> {}
Reconciled(v) ==
  CASE ctl.plan[v] = "creating" -> State(alloc[v]) = "ready"
    [] ctl.plan[v] = "ready" ->
         State(alloc[v]) \in {"ready", "archived"} /\ own[v] = alloc[v]
    [] ctl.plan[v] = "archived" -> alloc[v] = Rec("archived") /\ own[v] = alloc[v]
    [] OTHER -> Disposed(alloc[v], own[v])

ReconcileLifecycle(v) ==
  /\ ctl.pass = "reconcile" /\ Turn(v)
  /\ \/ /\ \E p \in ReconcilerSteps(v) : WritePair(v, p)
        /\ UNCHANGED <<ctl, cli>>
     \/ /\ ReconcilerSteps(v) = {} /\ UNCHANGED <<alloc, late, own>>
        /\ IF Reconciled(v)
           THEN ctl' = [ctl EXCEPT !.plan[v] = "done"] /\ UNCHANGED cli
           ELSE Refuse
  /\ UNCHANGED <<cluster, journal, lateJ, lease, secret, op, archives, ops, faults>>

\* The pass is complete: a start begins to serve, a resume reopens the gate.
FinishPass ==
  /\ ctl.pass = "reconcile" /\ Listed = {}
  /\ ctl' = [Down EXCEPT !.phase = "serving"]
  /\ IF Serving THEN Return ELSE UNCHANGED cli
  /\ UNCHANGED <<store, own, cluster, lease, secret, op, archives, ops, faults>>

-----------------------------------------------------------------------------
\* Lost answers

\* The writes a handler or the pass is about to make, or waits for.
Steps(v) ==
  IF op[v] # "none" THEN HandlerSteps(v)
  ELSE CASE ctl.pass = "journals" /\ journal = v -> CreateSteps(v)
         [] ctl.pass = "reconcile" /\ Turn(v) -> ReconcilerSteps(v)
         [] OTHER -> {}
InFlight(v) == {late[v]} \cup {p[1] : p \in {q \in Steps(v) : q[1] # alloc[v]}}
InFlightJournal ==
  {lateJ} \cup UNION {HandlerJournalSteps(v) : v \in Volumes}
  \cup IF ctl.pass = "journals" /\ journal \in Volumes THEN JournalSteps(journal) ELSE {}
LeaveInFlight ==
  /\ late' \in {f \in [Volumes -> UNION {InFlight(v) : v \in Volumes}] :
                 \A v \in Volumes : f[v] \in InFlight(v)}
  /\ lateJ' \in InFlightJournal

\* A handler gives up at its deadline.  The write of the allocation or of the
\* journal it was waiting for, its first one included, may still land.
GiveUp(v) ==
  /\ Fault /\ Serving /\ op[v] # "none"
  /\ \E r \in InFlight(v) : late' = [late EXCEPT ![v] = r]
  /\ lateJ' \in {lateJ} \cup HandlerJournalSteps(v)
  /\ op' = [op EXCEPT ![v] = "none"]
  /\ UNCHANGED <<alloc, journal, own, cluster, lease, secret, ctl, cli, archives, ops>>

\* A create lands only where there is no object, an update only on the object
\* its sender read.
LandLate(v) ==
  /\ late[v] # None /\ lease # "none"
  /\ late[v] = Rec("creating") <=> alloc[v] = None
  /\ WriteAllocation(v, late[v])
  /\ UNCHANGED <<own, cluster, journal, lateJ, lease, secret, op, ctl, cli, archives,
                 ops, faults>>
LandLateJournal ==
  /\ lateJ # None /\ journal # None /\ WriteJournal(lateJ)
  /\ UNCHANGED <<alloc, late, own, cluster, lease, secret, op, ctl, cli, archives, ops,
                 faults>>

\* The call of csi-admin is cut off; a resume stops between two writes.
Interrupt ==
  /\ Fault /\ cli.pc # "idle"
  /\ IF Serving THEN Fail ELSE Return /\ UNCHANGED ctl
  /\ IF cli.pc = "resume" THEN LeaveInFlight ELSE UNCHANGED <<late, lateJ>>
  /\ UNCHANGED <<alloc, journal, own, cluster, lease, secret, op, archives, ops>>

-----------------------------------------------------------------------------
\* Starts, stops and losses

\* A Lease whose holder is known, or that carries a release marker, is taken
\* over by fencing alone; module Leadership has the detail.
Start ==
  /\ ctl.phase = "down" /\ lease # "none"
  /\ ctl' = [Down EXCEPT !.phase = "starting", !.pass = "journals"]
  /\ lease' = "held"
  /\ UNCHANGED <<store, own, cluster, secret, op, cli, archives, ops, faults>>

\* No write of an Instance that served the lost namespace is still to come.
Retired == \A v \in Volumes : late[v] = None

\* Without a Lease the checkpoint Secret selects recovery.  Without either, a
\* start takes the fresh path, which refuses the claims it finds.  Discovery
\* succeeds when no pre-recovery Instance has a parent attached.
DiscoverExisting ==
  /\ ctl.phase = "down" /\ lease = "none" /\ secret # None /\ Retired
  /\ ctl' = [Down EXCEPT !.phase = "provisional"]
  /\ UNCHANGED <<store, own, cluster, lease, secret, op, cli, archives, ops, faults>>

\* Fault seeded for a mutant: the records agree with each other, and are not
\* compared with the checkpoint.
VerifyPairsOnly ==
  /\ ctl.phase = "provisional"
  /\ ctl' = IF /\ \A v \in Volumes : Acceptable(alloc[v], own[v], Bound[v])
               /\ journal = Idle
            THEN [ctl EXCEPT !.phase = "verified"] ELSE Down
  /\ UNCHANGED <<store, own, cluster, lease, secret, op, cli, archives, ops, faults>>

\* The manifest in the Secret commits to this state.
CheckpointSecretIs(snap) == arch[secret] = snap

\* VerifyRestoredCheckpoint, after the read-only discovery of every parent.
VerifyRestoredCheckpoint ==
  /\ ctl.phase = "provisional"
  /\ ctl' = IF /\ \A v \in Volumes : Acceptable(alloc[v], own[v], Bound[v])
               /\ CheckpointSecretIs(Current) /\ journal = Idle
            THEN [ctl EXCEPT !.phase = "verified"] ELSE Down
  /\ UNCHANGED <<store, own, cluster, lease, secret, op, cli, archives, ops, faults>>

\* The operator's approval is consumed in the CAS that makes the Lease held.
Promote ==
  /\ ctl.phase = "verified" /\ lease' = "held"
  /\ ctl' = [ctl EXCEPT !.phase = "promoted"]
  /\ UNCHANGED <<store, own, cluster, secret, op, cli, archives, ops, faults>>

\* The recovered controller does not start before the node plugins are back;
\* at its deadline it exits, and the next start finds the Lease held.
WaitForOperationalNodeRollout ==
  /\ ctl.phase = "promoted"
  /\ ctl' = [ctl EXCEPT !.phase = "starting", !.pass = "journals"]
  /\ UNCHANGED <<store, own, cluster, lease, secret, op, cli, archives, ops, faults>>

\* The process ends: in order, after its mutations, with the release marker
\* unless a barrier is up; or at any point, leaving the Lease held.
ShutDown(p) == ctl' = Down /\ cli' = IF cli.pc \in p THEN NoCli ELSE cli
Remote == {"prepare", "export", "stream", "resume"}

StopOrderly ==
  /\ Serving /\ Drained /\ ctl.gate = None /\ Fault
  /\ lease' = "released" /\ ShutDown(Remote)
  /\ UNCHANGED <<store, own, cluster, secret, op, archives, ops>>

Crash ==
  /\ ctl.phase # "down" /\ Fault /\ ShutDown(Remote) /\ LeaveInFlight
  /\ op' = [v \in Volumes |-> "none"]
  /\ UNCHANGED <<alloc, journal, own, cluster, lease, secret, archives, ops>>

\* The namespace is lost.  The process in it can still finish the ownership
\* write it is about to make, until its Instance is retired.
AboutToMirror(v) == {None} \cup {p[2] : p \in {q \in Steps(v) : q[2] # own[v]}}
LoseNamespace ==
  /\ Fault /\ ShutDown(PCs \ {"publish"})
  /\ alloc' = [v \in Volumes |-> None] /\ journal' = None /\ lateJ' = None
  /\ lease' = "none" /\ secret' = None /\ op' = [v \in Volumes |-> "none"]
  /\ late' \in {f \in [Volumes -> UNION {AboutToMirror(v) : v \in Volumes}] :
                 \A v \in Volumes : f[v] \in AboutToMirror(v)}
  /\ UNCHANGED <<own, cluster, archives, ops>>

LastWrite(v) ==
  /\ lease = "none" /\ late[v] # None
  /\ WriteOwnership(v, late[v]) /\ late' = [late EXCEPT ![v] = None]
  /\ UNCHANGED <<alloc, journal, lateJ, cluster, lease, secret, op, ctl, cli, archives,
                 ops, faults>>

\* One allocation ConfigMap of an installation at rest is deleted by mistake.
LoseAllocation(v) ==
  /\ Fault /\ ctl.phase = "down" /\ lease # "none" /\ alloc[v] # None
  /\ WriteAllocation(v, None)
  /\ UNCHANGED <<own, cluster, journal, lateJ, lease, secret, op, ctl, cli, archives,
                 ops>>

-----------------------------------------------------------------------------
\* checkpoint restore --mode=execute

\* What a stored archive holds: its manifest commits to arch[r], and damage
\* takes away a record it should have.
Nothing == [v \in Volumes |-> None]
Contents(r) ==
  [alloc |-> IF <<r, "objects">> \in damage THEN Nothing ELSE arch[r].alloc,
   own |-> IF <<r, "parents">> \in damage THEN Nothing ELSE arch[r].own,
   pv |-> arch[r].pv]

\* Every file the format names, and no other.
PackageFromFiles(r) == arch[r] # None /\ <<r, "files">> \notin damage
VerifyKubernetesObjectExport(r) == Contents(r).alloc = arch[r].alloc
VerifyParentInventoryExport(r) == Contents(r).own = arch[r].own

\* ReadCheckpointArchive accepts a whole archive only, as it was published.
VerifyExportPackage(r) ==
  VerifyKubernetesObjectExport(r) /\ VerifyParentInventoryExport(r)
Readable(r) == PackageFromFiles(r) /\ VerifyExportPackage(r)

\* BuildCheckpointRestorePlan: the objects to create and the PersistentVolumes
\* that must be there.  Parents are not restored.
RestorePlan(r) == [alloc |-> Contents(r).alloc, pv |-> Contents(r).pv]

\* Every object present is one of the archive's.
OnlyArchived(r) ==
  /\ \A v \in Volumes : alloc[v] \in {None, RestorePlan(r).alloc[v]}
  /\ journal \in {None, Idle}
Complete(r) == alloc = RestorePlan(r).alloc /\ journal = Idle

VolumesPresent(r) == Bound = RestorePlan(r).pv
SecretAgrees(r) == secret \in {None, r} /\ (secret = r => Complete(r))

RunRestore(r) ==
  /\ cli.pc = "idle" /\ Readable(r) /\ WorkloadsStopped
  /\ VolumesPresent(r) /\ OnlyArchived(r) /\ SecretAgrees(r)
  /\ cli' = [pc |-> "journals", req |-> r, snap |-> Contents(r)]
  /\ UNCHANGED <<store, own, cluster, lease, secret, op, ctl, archives, ops, faults>>

RestoreJournals ==
  /\ cli.pc = "journals"
  /\ IF journal \in {None, Idle}
     THEN journal' = Idle /\ cli' = [cli EXCEPT !.pc = "objects"]
     ELSE Return /\ UNCHANGED journal
  /\ UNCHANGED <<alloc, late, lateJ, own, cluster, lease, secret, op, ctl, archives,
                 ops, faults>>

\* Create-only; an allocation that appeared meanwhile must be the same one.
CreateRestoreAllocations(v) ==
  /\ cli.pc = "objects" /\ alloc[v] # cli.snap.alloc[v]
  /\ IF alloc[v] = None
     THEN alloc' = [alloc EXCEPT ![v] = cli.snap.alloc[v]] /\ UNCHANGED cli
     ELSE Return /\ UNCHANGED alloc
  /\ UNCHANGED <<journal, late, lateJ, own, cluster, lease, secret, op, ctl, archives,
                 ops, faults>>

\* The complete set is read back before the Secret commits to it.
VerifyRestore ==
  /\ cli.pc = "objects" /\ alloc = cli.snap.alloc
  /\ IF journal = Idle THEN cli' = [cli EXCEPT !.pc = "secret"] ELSE Return
  /\ UNCHANGED <<store, own, cluster, lease, secret, op, ctl, archives, ops, faults>>

CreateSecret ==
  /\ cli.pc = "secret" /\ Return
  /\ secret' = IF secret = None THEN cli.req ELSE secret
  /\ UNCHANGED <<store, own, cluster, lease, op, ctl, archives, ops, faults>>

-----------------------------------------------------------------------------
Mutation(v) ==
  \/ CreateVolume(v) \/ ControllerPublish(v) \/ ControllerUnpublish(v)
  \/ DeleteVolume(v) \/ Compact(v) \/ Continue(v) \/ Answer(v) \/ GiveUp(v)
  \/ LandLate(v) \/ Provision(v)

Coordinator ==
  \/ Prepare \/ ReadObjects \/ CaptureCheckpoint \/ BuildExport

Pass ==
  \/ ReconcileJournals \/ BuildStartupInventoryPlan \/ ListAllocations \/ FinishPass
  \/ \E v \in Volumes : \/ ReconstructPVBacked(v) \/ ReconstructOwnershipOnly(v)
                       \/ ReconcileLifecycle(v)

Startup ==
  \/ Start \/ DiscoverExisting \/ VerifyRestoredCheckpoint \/ Promote
  \/ WaitForOperationalNodeRollout

\* What a started csi-admin process does by itself, and what starts one.
Process ==
  \/ ReceiveExport \/ PublishArchive \/ RestoreJournals \/ VerifyRestore \/ CreateSecret
  \/ \E v \in Volumes : CreateRestoreAllocations(v)
Operator ==
  \/ Process \/ \E r \in Requests : RunPrepare(r) \/ RunResume(r) \/ RunRestore(r)

Loss ==
  \/ LandLateJournal \/ Interrupt \/ StopOrderly \/ Crash \/ LoseNamespace
  \/ \E v \in Volumes : LastWrite(v) \/ LoseAllocation(v)
  \/ \E r \in Requests, part \in Parts : DamageArchive(r, part)

Next ==
  \/ Coordinator \/ Pass \/ Startup \/ Operator \/ Loss
  \/ \E v \in Volumes : Mutation(v)

Spec == Init /\ [][Next]_vars

\* Handlers and processes run, a process whose Instance is retired ends, the
\* Deployment restarts its controller, and the operator follows the runbook:
\* a prepared checkpoint is resumed and a restore is run again until it ends.
FairSpec ==
  /\ Spec
  /\ WF_vars(Coordinator) /\ WF_vars(Pass) /\ WF_vars(Startup) /\ WF_vars(Process)
  /\ WF_vars(\E v \in Volumes : Continue(v) \/ Answer(v))
  /\ WF_vars(\E v \in Volumes : LastWrite(v))
  /\ SF_vars(\E r \in Requests : RunResume(r))
  /\ \A r \in Requests : SF_vars(RunRestore(r))

-----------------------------------------------------------------------------
\* Properties

\* The variables have their types.
TypeOK ==
  /\ alloc \in [Volumes -> Allocation] /\ own \in [Volumes -> Ownership]
  /\ pv \in [Volumes -> {"none", "due", "bound", "released"}]
  /\ attached \subseteq Volumes
  /\ journal \in Volumes \cup {None, Idle} /\ lateJ \in Volumes \cup {None, Idle}
  /\ lease \in {"held", "released", "none"} /\ secret \in Requests \cup {None}
  /\ late \in [Volumes -> Allocation] /\ op \in [Volumes -> Kinds]
  /\ ctl.phase \in Phases /\ ctl.gate \in Requests \cup {None}
  /\ ctl.cand \in Snapshot \cup {None} /\ ctl.pass \in Passes
  /\ ctl.plan \in [Volumes -> Plans]
  /\ cli.pc \in PCs /\ cli.snap \in Snapshot \cup {None}
  /\ arch \in [Requests -> Snapshot \cup {None}]
  /\ damage \subseteq Requests \X Parts
  /\ ops \in 0..MaxOps /\ faults \in 0..MaxFaults

\* From the capture of a candidate on, only a resume of its request changes
\* anything on the parents.  No mutation crosses the checkpoint barrier: what
\* else happens to the objects is a write that left before the barrier closed
\* and lands late, which the second read of an export compares.
QuiescedIsFrozen ==
  [][ctl.cand # None /\ ctl'.cand = ctl.cand /\ ~Active =>
       /\ Drained /\ own' = own
       /\ \A v \in Volumes : alloc'[v] \in {alloc[v], late[v]}
       /\ journal' \in {journal, lateJ}]_vars

\* A serving controller never has an allocation that lags its ownership: no
\* volume on a parent is unknown, no deleted volume is ready again, no
\* tombstone is reused, and none that either record fences is being deleted,
\* whatever was lost, restored from whichever archive, or reconstructed.
NothingForgotten ==
  Serving /\ ~Active => \A v \in Volumes :
    own[v] # None =>
      /\ alloc[v] # None
      /\ own[v].st \in {"deleting", "archived"} =>
           alloc[v].st \in {"deleting", "archived", "deleted"}
      /\ own[v].st = "compact" => alloc[v].st \in {"deleted", "compact"}
      /\ own[v].fence \/ alloc[v].fence => alloc[v].st = own[v].st

\* The checkpoint Secret, which selects the recovery path, is there only with
\* every object of its archive, in the namespace the restore left behind.
SecretIsLast ==
  lease = "none" /\ secret # None =>
    arch[secret] # None /\ alloc = arch[secret].alloc /\ journal = Idle

\* Recovery of a lost Lease reaches promotion only with the exact state the
\* checkpoint recorded: a stale archive never serves.
PromotedIsExact ==
  ctl.phase = "verified" =>
    secret # None /\ alloc = arch[secret].alloc /\ own = arch[secret].own

\* What a restored installation rests on, with every variable of its type.
RestoreIsExact == TypeOK /\ SecretIsLast /\ PromotedIsExact

\* The pairs every pass refuses: an archived volume whose ownership was not
\* mirrored, a deletion of a volume with a VolumeAttachment, and a compact
\* tombstone beside a PersistentVolume.  Only the retry of DeleteVolume, or the
\* answer of ControllerUnpublish, would take a volume out of them, and the
\* barrier admits neither.
Unmirrored(v) == alloc[v] = Rec("archived") /\ own[v] = Rec("deleting")
DeletingInUse(v) == alloc[v] = Rec("deleting") /\ v \in attached
CompactWithPV(v) ==
  own[v] = Rec("compact") /\ State(alloc[v]) \in {"none", "compact"} /\ Bound[v]
Refused(v) == Unmirrored(v) \/ DeletingInUse(v) \/ CompactWithPV(v)

\* The barrier of a checkpoint is lifted in the end, although its handlers,
\* its capture, its export, its resume or its process may fail on the way and
\* writes land late, unless a volume is in a state that every pass refuses.
BarrierIsLifted ==
  ctl.gate # None ~> ctl.gate = None \/ \E v \in Volumes : Refused(v)

\* An installation whose namespace was lost right after a checkpoint serves
\* again: interrupted restores and starts are repeated until one completes.
\* A restore of another archive in between is the operator's to undo, and a
\* damaged archive is refused.  Nothing tells requests apart, so one stands
\* for all of them.
Restorable(r) ==
  /\ lease = "none" /\ Readable(r) /\ Retired
  /\ own = arch[r].own /\ Bound = arch[r].pv
  /\ \A v \in Volumes : pv[v] \in {"none", "bound"}
Displaced(r) ==
  \/ arch[r] # None /\ (secret \notin {None, r} \/ ~Readable(r) \/ ~OnlyArchived(r))
  \/ \E v \in Volumes : CompactWithPV(v)

RestoreCompletes ==
  LET r == CHOOSE r \in Requests : TRUE
  IN Restorable(r) ~> Serving \/ Displaced(r)
=============================================================================
