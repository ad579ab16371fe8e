-------------------------- MODULE VolumeTypeProofs --------------------------
(***************************************************************************)
(* TypeOK is an invariant of VolumeLifecycle for every set of nodes, IDs   *)
(* and policies and every bound.                                           *)
(***************************************************************************)
EXTENDS VolumeProperties, TLAPS

USE RecordsAssumption, BoundsAssumption

\* The part of TypeOK that a handler's step can disturb.
StepTyped ==
  /\ alloc' \in Allocation /\ late' \subseteq Allocation
  /\ faults' \in 0..MaxFaults
  /\ own' \in Ownership
  /\ data' \in Location /\ intact' \in BOOLEAN /\ unsynced' \subseteq Dirs
  /\ op' \in Handler

\* The basic steps of a handler keep the types: control,
LEMMA GotoType ==
  ASSUME TypeOK, NEW q \in PCs, Goto(q)
  PROVE  op' \in Handler
BY DEF TypeOK, Goto, Handler

\* a check,
LEMMA CheckType ==
  ASSUME TypeOK, NEW ok, NEW q \in PCs, Check(ok, q)
  PROVE  StepTyped
BY DEF TypeOK, Check, Goto, Handler, StepTyped, api, fs, PCs

\* the first ownership record,
LEMMA InstallOwnershipType ==
  ASSUME TypeOK, NEW o \in Ownership, NEW q \in PCs, InstallOwnership(o, q)
  PROVE  StepTyped
BY DEF TypeOK, InstallOwnership, Goto, Handler, StepTyped, api, fs

\* an ownership write,
LEMMA WriteOwnershipType ==
  ASSUME TypeOK, NEW o \in Ownership, NEW q \in PCs, WriteOwnership(o, q)
  PROVE  StepTyped
BY Zenon, CheckType, InstallOwnershipType DEF WriteOwnership

\* a compare-and-swap of the allocation,
LEMMA CompareAndSwapType ==
  ASSUME TypeOK, NEW next \in Allocation, NEW q \in PCs,
         CompareAndSwap(next, q)
  PROVE  StepTyped
<1>1. UNCHANGED <<own, data, intact, unsynced>>
  BY DEF CompareAndSwap, fs
<1>2. CASE /\ alloc' = next
           /\ op' = [op EXCEPT !.a = next, !.pc = q]
           /\ UNCHANGED <<late, faults>>
  <2>1. op' \in Handler
    BY Zenon, <1>2 DEF TypeOK, Handler
  <2>. QED  BY <1>1, <1>2, <2>1 DEF TypeOK, StepTyped
<1>3. CASE Goto("fail") /\ UNCHANGED <<alloc, late, faults>>
  <2>1. op' \in Handler
    BY <1>3, GotoType DEF PCs
  <2>. QED  BY <1>1, <1>3, <2>1 DEF TypeOK, StepTyped
<1>4. CASE /\ faults < MaxFaults /\ faults' = faults + 1
           /\ late' = late \cup {next} /\ Goto("fail") /\ alloc' = alloc
  <2>1. op' \in Handler
    BY <1>4, GotoType DEF PCs
  <2>. QED  BY <1>1, <1>4, <2>1 DEF TypeOK, StepTyped
<1>. QED  BY <1>2, <1>3, <1>4 DEF CompareAndSwap, api

\* one that is validated first,
LEMMA UpdateType ==
  ASSUME TypeOK, NEW next \in Allocation, NEW q \in PCs, Update(next, q)
  PROVE  StepTyped
BY Zenon, CompareAndSwapType, CheckType DEF Update

\* and the creation of the allocation.
LEMMA CreateIfAbsentType ==
  ASSUME TypeOK, NEW r \in Allocation, NEW q \in PCs, NEW e \in PCs,
         CreateIfAbsent(r, q, e)
  PROVE  StepTyped
<1>1. UNCHANGED <<own, data, intact, unsynced>>
  BY DEF CreateIfAbsent, fs
<1>2. CASE /\ alloc' = r
           /\ op' = [op EXCEPT !.a = r, !.pc = q]
           /\ UNCHANGED <<late, faults>>
  <2>1. op' \in Handler
    BY Zenon, <1>2 DEF TypeOK, Handler
  <2>. QED  BY <1>1, <1>2, <2>1 DEF TypeOK, StepTyped
<1>3. CASE /\ op' = [op EXCEPT !.a = alloc, !.pc = e]
           /\ UNCHANGED <<alloc, late, faults>>
  <2>1. op' \in Handler
    BY Zenon, <1>3 DEF TypeOK, Handler
  <2>. QED  BY <1>1, <1>3, <2>1 DEF TypeOK, StepTyped
<1>4. CASE /\ faults < MaxFaults /\ faults' = faults + 1
           /\ late' = late \cup {r} /\ Goto("fail") /\ alloc' = alloc
  <2>1. op' \in Handler
    BY <1>4, GotoType DEF PCs
  <2>. QED  BY <1>1, <1>4, <2>1 DEF TypeOK, StepTyped
<1>. QED  BY <1>2, <1>3, <1>4 DEF CreateIfAbsent, api

\* A successor is an allocation record.
LEMMA SuccessorType ==
  ASSUME TypeOK
  PROVE  Successor \in Allocation
BY DEF TypeOK, Successor, Handler, Allocation

\* A request that begins keeps the types.
LEMMA BeginType ==
  ASSUME TypeOK, NEW name \in Names, NEW q \in PCs, NEW n \in MaybeNode,
         NEW b \in BOOLEAN, Begin(name, q, n, b)
  PROVE  TypeOK'
BY Zenon DEF TypeOK, Begin, Idle, Handler, api, fs, ctl, env

-----------------------------------------------------------------------------
(* One step per action: what it writes is a record, where it goes a pc.    *)

LEMMA CreateStepType ==
  ASSUME TypeOK, CreateStep
  PROVE  StepTyped
<1>1. CASE PersistReservation
  <2>1. PICK p \in Policies :
          CreateIfAbsent([NoAllocation EXCEPT !.kind = "detailed", !.rev = 1,
                            !.state = "Reserved", !.policy = p],
                         "creating", ResumeCreation(alloc))
    BY Zenon, <1>1 DEF PersistReservation
  <2>2. [NoAllocation EXCEPT !.kind = "detailed", !.rev = 1,
           !.state = "Reserved", !.policy = p] \in Allocation
    BY Zenon DEF NoAllocation, Allocation, MaybeID, States, PreReady
  <2>3. ResumeCreation(alloc) \in PCs
    BY DEF ResumeCreation, PCs
  <2>4. "creating" \in PCs
    BY DEF PCs
  <2>. QED  BY <2>1, <2>2, <2>3, <2>4, CreateIfAbsentType
<1>2. CASE AdvanceCreating
  <2>1. [Successor EXCEPT !.state = "CreatingDirectory"] \in Allocation
    BY SuccessorType DEF Allocation, States, PreReady
  <2>. QED  BY <1>2, <2>1, UpdateType DEF AdvanceCreating, PCs
<1>3. CASE EnsureCreated
  <2>1. CASE own.kind # "none"
    BY <1>3, <2>1, CheckType DEF EnsureCreated, PCs
  <2>2. CASE own.kind = "none" /\ data \notin {Absent, SourcePath}
    BY Zenon, <1>3, <2>2, CheckType DEF EnsureCreated, PCs
  <2>3. CASE own.kind = "none" /\ data \in {Absent, SourcePath}
    <3>1. op' \in Handler
      BY <1>3, <2>3, GotoType DEF EnsureCreated, PCs
    <3>2. SourcePath \in Location
      BY DEF SourcePath, Location, MaybeID
    <3>3. /\ data' = SourcePath /\ unsynced' = unsynced \cup {"base"}
          /\ UNCHANGED <<alloc, late, faults, own, intact>>
      BY <1>3, <2>3 DEF EnsureCreated, api
    <3>. QED  BY <3>1, <3>2, <3>3 DEF StepTyped, TypeOK, Dirs
  <2>. QED  BY <2>1, <2>2, <2>3
<1>4. CASE SyncLogicalDirectory
  <2>1. op' \in Handler
    BY <1>4, GotoType DEF SyncLogicalDirectory, PCs
  <2>. QED  BY <1>4, <2>1 DEF SyncLogicalDirectory, StepTyped, TypeOK, api
<1>5. CASE CreateOwnership
  <2>1. [NoOwnership EXCEPT !.kind = "detailed", !.state = "Ready",
           !.fences = op.a.fences, !.policy = op.a.policy] \in Ownership
    <3>1. op.a.fences \subseteq Nodes /\ op.a.policy \in Policies \cup {"none"}
      BY DEF TypeOK, Handler, Allocation
    <3>. QED  BY Zenon, <3>1 DEF NoOwnership, Ownership, MaybeID, States
  <2>. QED  BY <1>5, <2>1, InstallOwnershipType DEF CreateOwnership, PCs
<1>6. CASE AdvanceReady
  <2>1. [Successor EXCEPT !.state = "Ready"] \in Allocation
    BY SuccessorType DEF Allocation, States
  <2>. QED  BY <1>6, <2>1, UpdateType DEF AdvanceReady, PCs
<1>. QED  BY <1>1, <1>2, <1>3, <1>4, <1>5, <1>6 DEF CreateStep

\* Restoring the fence union keeps the types.
LEMMA RestoreUnionType ==
  ASSUME TypeOK, NEW q \in PCs, RestoreUnion(q)
  PROVE  StepTyped
<1>1. CASE op.pc = "unionA" /\ Check(TRUE, "unionO")
  BY Zenon, <1>1, CheckType DEF PCs
<1>2. CASE /\ op.pc = "unionA"
           /\ Update([Successor EXCEPT !.fences = Union], "unionO")
  <2>1. [Successor EXCEPT !.fences = Union] \in Allocation
    BY SuccessorType DEF Allocation, Ownership, Union, TypeOK, Handler
  <2>. QED  BY <1>2, <2>1, UpdateType DEF PCs
<1>3. CASE /\ op.pc = "unionO"
           /\ own' = [own EXCEPT !.fences = op.a.fences]
           /\ op' = [op EXCEPT !.pc = q,
                               !.tgt = IF op.name = "unpublish"
                                       THEN UnpublishTargets ELSE {}]
           /\ UNCHANGED <<api, fs>>
  <2>1. op.a.fences \subseteq Nodes
    BY DEF TypeOK, Handler, Allocation
  <2>2. own' \in Ownership
    BY <1>3, <2>1 DEF TypeOK, Ownership
  <2>3. (IF op.name = "unpublish" THEN UnpublishTargets ELSE {})
          \subseteq Nodes
    BY <2>1 DEF UnpublishTargets
  <2>4. op' \in Handler
    BY Zenon, <1>3, <2>3 DEF TypeOK, Handler
  <2>. QED  BY <1>3, <2>2, <2>4 DEF TypeOK, StepTyped, api, fs
<1>. QED  BY Zenon, <1>1, <1>2, <1>3 DEF RestoreUnion

\* The steps of publish and unpublish keep the types.
LEMMA PublishStepType ==
  ASSUME TypeOK, PublishStep, op.pc = "pubA" => op.n \in Nodes
  PROVE  StepTyped
<1>. op.a.fences \subseteq Nodes
  BY DEF TypeOK, Handler, Allocation
<1>1. CASE ReconcileFenceUnion
  <2>1. CASE ~IdentityPair(op.a, own, op.a.state)
    BY Zenon, <1>1, <2>1, CheckType DEF ReconcileFenceUnion, PCs
  <2>2. CASE IdentityPair(op.a, own, op.a.state)
    <3>1. PICK q \in {"attach", "ok", "clear"} : RestoreUnion(q)
      BY <1>1, <2>2 DEF ReconcileFenceUnion
    <3>. QED  BY <3>1, RestoreUnionType DEF PCs
  <2>. QED  BY <2>1, <2>2
<1>2. CASE EnsureAttached
  BY <1>2, CheckType DEF EnsureAttached, PCs
<1>3. CASE PublishAllocation
  <2>1. [Successor EXCEPT !.fences = @ \cup {op.n}] \in Allocation
    BY <1>3, SuccessorType DEF Allocation, PublishAllocation
  <2>. QED  BY <1>3, <2>1, UpdateType DEF PublishAllocation, PCs
<1>4. CASE PublishOwnership
  <2>1. [own EXCEPT !.fences = op.a.fences] \in Ownership
    BY DEF TypeOK, Ownership
  <2>. QED  BY <1>4, <2>1, WriteOwnershipType DEF PublishOwnership, PCs
<1>5. CASE ClearOwnership
  <2>1. PICK t \in op.tgt :
          IF ~SafeToClear(t) THEN Check(FALSE, "clearA")
          ELSE /\ own' = [own EXCEPT !.fences = op.a.fences \ {t}]
               /\ op' = [op EXCEPT !.pc = "clearA", !.t = t, !.tgt = @ \ {t}]
               /\ UNCHANGED <<api, fs>>
    BY Zenon, <1>5 DEF ClearOwnership
  <2>2. CASE ~SafeToClear(t)
    BY Zenon, <2>1, <2>2, CheckType DEF PCs
  <2>3. CASE SafeToClear(t)
    <3>1. own' \in Ownership
      BY <2>1, <2>3 DEF TypeOK, Ownership
    <3>. DEFINE rest == op.tgt \ {t}
    <3>2. t \in MaybeNode /\ rest \in SUBSET Nodes /\ "clearA" \in PCs
      BY DEF TypeOK, Handler, PCs, MaybeNode
    <3>3. op' = [op EXCEPT !.pc = "clearA", !.t = t, !.tgt = rest]
      BY <2>1, <2>3 DEF TypeOK, Handler
    <3>. HIDE DEF rest
    <3>4. op' \in Handler
      BY Zenon, <3>2, <3>3 DEF TypeOK, Handler
    <3>. QED  BY <2>1, <2>3, <3>1, <3>4 DEF TypeOK, StepTyped, api, fs
  <2>. QED  BY <2>2, <2>3
<1>6. CASE ClearAllocation
  <2>1. [Successor EXCEPT !.fences = @ \ {op.t}] \in Allocation
    BY SuccessorType DEF Allocation
  <2>. QED  BY <1>6, <2>1, UpdateType DEF ClearAllocation, PCs
<1>. QED  BY <1>1, <1>2, <1>3, <1>4, <1>5, <1>6 DEF PublishStep

\* What the handlers write to the ownership record has its type.
LEMMA OwnershipWrites ==
  ASSUME TypeOK
  PROVE  /\ own \in Ownership
         /\ MirrorDelete(own, op.a) \in Ownership
         /\ MirrorGC(own, op.a) \in Ownership
         /\ CompactOwnership(op.a) \in Ownership
<1>1. /\ op.a.fences \subseteq Nodes /\ op.a.state \in States
      /\ op.a.policy \in Policies \cup {"none"}
      /\ op.a.del \in MaybeID /\ op.a.rm \in MaybeID
      /\ op.a.req \in MaybeID /\ op.a.mode \in {"none", "dry-run", "execute"}
      /\ op.a.gc \in MaybeID /\ op.a.gcrm \in MaybeID
  BY DEF TypeOK, Handler, Allocation
<1>2. own \in Ownership
  BY DEF TypeOK
<1>3. MirrorDelete(own, op.a) \in Ownership
  BY Zenon, <1>1, <1>2 DEF MirrorDelete, Ownership
<1>4. MirrorGC(own, op.a) \in Ownership
  BY Zenon, <1>1, <1>2 DEF MirrorGC, Ownership
<1>5. CompactOwnership(op.a) \in Ownership
  BY <1>1 DEF CompactOwnership, Ownership, MaybeID, States
<1>. QED  BY <1>2, <1>3, <1>4, <1>5

\* A step that changes the tree only.
LEMMA FsStepType ==
  ASSUME TypeOK, op' \in Handler, data' \in Location, intact' \in BOOLEAN,
         unsynced' \subseteq Dirs, UNCHANGED <<api, own>>
  PROVE  StepTyped
BY DEF TypeOK, StepTyped, api

\* A rename keeps the types.
LEMMA RenameType ==
  ASSUME TypeOK, NEW target \in Location, NEW dirs \in SUBSET Dirs,
         NEW q \in PCs, Rename(target, dirs, q)
  PROVE  StepTyped
<1>1. op' \in Handler
  BY GotoType DEF Rename
<1>. QED  BY <1>1, FsStepType DEF Rename, TypeOK, api

\* A recursive removal keeps the types.
LEMMA RemoveTreeType ==
  ASSUME TypeOK, NEW source, NEW target, RemoveTree(source, target)
  PROVE  StepTyped
<1>1. CASE Check(FALSE, "removeSync") \/ Check(TRUE, "removeSync")
  BY Zenon, <1>1, CheckType DEF PCs
<1>2. CASE intact' = FALSE /\ UNCHANGED <<api, own, data, unsynced, op>>
  BY Zenon, <1>2, FsStepType DEF TypeOK
<1>3. CASE /\ data' = Absent /\ unsynced' = unsynced \cup {"deleted"}
           /\ Goto("removeSync") /\ UNCHANGED <<api, own, intact>>
  <2>1. op' \in Handler
    BY <1>3, GotoType DEF PCs
  <2>2. Absent \in Location
    BY DEF Absent, Location, MaybeID
  <2>. QED  BY <1>3, <2>1, <2>2, FsStepType DEF TypeOK, Dirs
<1>. QED  BY Zenon, <1>1, <1>2, <1>3 DEF RemoveTree

\* Paths that the disposition and collection steps use, and where they lead.
LEMMA Targets ==
  ASSUME TypeOK
  PROVE  /\ DeleteTarget(op.a) \in Location
         /\ GCQuarantinePath(op.a) \in Location
         /\ GCDirs(op.a) \in SUBSET Dirs
         /\ AfterDisposition(op.a) \in {"termA", "rmA", "remove"}
         /\ AfterGCQuarantine(op.a) \in {"gcRmA", "remove"}
<1>1. op.a.del \in MaybeID /\ op.a.gc \in MaybeID
  BY DEF TypeOK, Handler, Allocation
<1>2. SourcePath \in Location
  BY DEF SourcePath, Location, MaybeID
<1>3. DeleteTarget(op.a) \in Location
  BY <1>1, <1>2 DEF DeleteTarget, Location
<1>4. GCQuarantinePath(op.a) \in Location
  BY <1>1 DEF GCQuarantinePath, Location
<1>5. GCDirs(op.a) \in SUBSET Dirs
  BY DEF GCDirs, Dirs
<1>6. /\ AfterDisposition(op.a) \in {"termA", "rmA", "remove"}
      /\ AfterGCQuarantine(op.a) \in {"gcRmA", "remove"}
  BY DEF AfterDisposition, AfterGCQuarantine
<1>. QED  BY <1>3, <1>4, <1>5, <1>6

\* The steps of DeleteVolume keep the types.
LEMMA DeleteStepType ==
  ASSUME TypeOK, DeleteStep
  PROVE  StepTyped
<1>. USE DEF PCs
<1>1. CASE ResolveMissing
  <2>1. [NoAllocation EXCEPT !.kind = "unknown", !.rev = 1,
           !.state = "Deleted"] \in Allocation
    BY Zenon DEF NoAllocation, Allocation, MaybeID, States
  <2>2. ResumeDeletion(alloc) \in PCs
    BY DEF ResumeDeletion
  <2>3. CASE own.kind # "none" \/ pv
    BY Zenon, <1>1, <2>3, CheckType DEF ResolveMissing
  <2>4. CASE ~(own.kind # "none" \/ pv)
    BY <1>1, <2>1, <2>2, <2>4, CreateIfAbsentType DEF ResolveMissing
  <2>. QED  BY <2>3, <2>4
<1>2. CASE ReconcileDeletePair
  <2>1. \/ \E o \in {own, MirrorDelete(own, op.a)}, q \in {"inUse", "ok"} :
             WriteOwnership(o, q)
        \/ \E ok \in BOOLEAN, q \in {"inUse", "ok"} : Check(ok, q)
    BY Zenon, <1>2 DEF ReconcileDeletePair, DetailedPair, IdentityPair,
                DeleteTerminalEvidence
  <2>. QED  BY <2>1, CheckType, WriteOwnershipType, OwnershipWrites
<1>3. CASE CheckAttachments
  BY <1>3, CheckType DEF CheckAttachments
<1>4. CASE ReconcileDeleteFenceUnion
  <2>1. PICK q \in {"fail", "prepA", "dispose"} : RestoreUnion(q)
    BY <1>4 DEF ReconcileDeleteFenceUnion
  <2>. QED  BY <2>1, RestoreUnionType
<1>5. CASE PrepareDelete
  <2>1. PICK id \in IDs :
          Update([Successor EXCEPT !.state = "Deleting", !.del = id], "prepO")
    BY Zenon, <1>5 DEF PrepareDelete
  <2>2. [Successor EXCEPT !.state = "Deleting", !.del = id] \in Allocation
    BY Zenon, SuccessorType DEF Allocation, States, MaybeID
  <2>. QED  BY <2>1, <2>2, UpdateType
<1>6. CASE MirrorPrepared
  BY <1>6, WriteOwnershipType, OwnershipWrites DEF MirrorPrepared
<1>7. CASE PrepareDisposition
  <2>1. CASE \E ok \in BOOLEAN : Check(ok, AfterDisposition(op.a))
    BY <2>1, CheckType, Targets
  <2>2. CASE \E dirs \in SUBSET Dirs :
               Rename(DeleteTarget(op.a), dirs, "disposeSync")
    BY <2>2, RenameType, Targets
  <2>. QED  BY Zenon, <1>7, <2>1, <2>2 DEF PrepareDisposition, Dirs
<1>8. CASE SyncDisposition
  <2>1. op' \in Handler
    BY <1>8, GotoType, Targets DEF SyncDisposition
  <2>. QED  BY <1>8, <2>1, FsStepType DEF SyncDisposition, TypeOK
<1>9. CASE CompleteArchiveOrRetain
  <2>1. [Successor EXCEPT !.state = GCExpectedState(op.a)] \in Allocation
    BY SuccessorType DEF Allocation, States, GCExpectedState, Kept
  <2>. QED  BY <1>9, <2>1, UpdateType DEF CompleteArchiveOrRetain
<1>10. CASE MirrorTerminal
  BY <1>10, WriteOwnershipType, OwnershipWrites DEF MirrorTerminal
<1>11. CASE PersistRemoveStart
  <2>1. PICK id \in IDs : Update([Successor EXCEPT !.rm = id], "rmO")
    BY <1>11 DEF PersistRemoveStart
  <2>2. [Successor EXCEPT !.rm = id] \in Allocation
    BY SuccessorType DEF Allocation, MaybeID
  <2>. QED  BY <2>1, <2>2, UpdateType
<1>12. CASE MirrorRemoveStart
  BY <1>12, WriteOwnershipType, OwnershipWrites DEF MirrorRemoveStart
<1>13. CASE RemoveQuarantine
  BY Zenon, <1>13, CheckType, RemoveTreeType DEF RemoveQuarantine
<1>14. CASE SyncDeletedDirectory
  <2>1. op' \in Handler
    BY <1>14, GotoType DEF SyncDeletedDirectory
  <2>. QED  BY <1>14, <2>1, FsStepType DEF SyncDeletedDirectory, TypeOK
<1>15. CASE CompleteDeleted
  <2>1. [Successor EXCEPT !.state = "Deleted"] \in Allocation
    BY SuccessorType DEF Allocation, States
  <2>. QED  BY <1>15, <2>1, UpdateType DEF CompleteDeleted
<1>16. CASE CompactOwnershipRecord
  BY <1>16, WriteOwnershipType, OwnershipWrites DEF CompactOwnershipRecord
<1>17. CASE FinishDeletedPair
  BY Zenon, <1>17, CheckType DEF FinishDeletedPair
<1>. QED  BY <1>1, <1>2, <1>3, <1>4, <1>5, <1>6, <1>7, <1>8, <1>9, <1>10,
             <1>11, <1>12, <1>13, <1>14, <1>15, <1>16, <1>17 DEF DeleteStep

\* The steps of garbage collection and compaction keep the types.
LEMMA GCStepType ==
  ASSUME TypeOK, GCStep
  PROVE  StepTyped
<1>. USE DEF PCs
<1>1. CASE SubmitRequest
  <2>1. PICK id \in IDs, mode \in {"dry-run", "execute"} :
          Update([Successor EXCEPT !.req = id, !.mode = mode], "ok")
    BY Zenon, <1>1 DEF SubmitRequest
  <2>2. [Successor EXCEPT !.req = id, !.mode = mode] \in Allocation
    BY Zenon, SuccessorType DEF Allocation, MaybeID
  <2>. QED  BY <2>1, <2>2, UpdateType
<1>2. CASE FinishCollectedPair
  BY <1>2, CheckType DEF FinishCollectedPair
<1>3. CASE ReconcileExecutePair
  <2>1. \/ \E o \in {own, MirrorGC(own, op.a)} : WriteOwnership(o, "unionA")
        \/ \E ok \in BOOLEAN : Check(ok, "unionA")
    BY Zenon, <1>3 DEF ReconcileExecutePair
  <2>. QED  BY <2>1, CheckType, WriteOwnershipType, OwnershipWrites
<1>4. CASE ReconcileExecuteFenceUnion
  BY <1>4, RestoreUnionType DEF ReconcileExecuteFenceUnion
<1>5. CASE ValidateMutationGates
  BY <1>5, CheckType DEF ValidateMutationGates
<1>6. CASE PrepareGC
  <2>1. PICK id \in IDs : Update([Successor EXCEPT !.gc = id], "gcPrepO")
    BY <1>6 DEF PrepareGC
  <2>2. [Successor EXCEPT !.gc = id] \in Allocation
    BY SuccessorType DEF Allocation, MaybeID
  <2>. QED  BY <2>1, <2>2, UpdateType
<1>7. CASE MirrorGCPrepared
  BY <1>7, WriteOwnershipType, OwnershipWrites DEF MirrorGCPrepared
<1>8. CASE PrepareQuarantine
  <2>1. CASE \E ok \in BOOLEAN : Check(ok, AfterGCQuarantine(op.a))
    BY <2>1, CheckType, Targets
  <2>2. CASE Rename(GCQuarantinePath(op.a), GCDirs(op.a), "disposeSync")
    BY <2>2, RenameType, Targets
  <2>. QED  BY Zenon, <1>8, <2>1, <2>2 DEF PrepareQuarantine
<1>9. CASE SyncGCQuarantine
  <2>1. op' \in Handler
    BY <1>9, GotoType, Targets DEF SyncGCQuarantine
  <2>. QED  BY <1>9, <2>1, FsStepType DEF SyncGCQuarantine, TypeOK
<1>10. CASE PersistGCRemoveStart
  <2>1. PICK id \in IDs : Update([Successor EXCEPT !.gcrm = id], "gcRmO")
    BY <1>10 DEF PersistGCRemoveStart
  <2>2. [Successor EXCEPT !.gcrm = id] \in Allocation
    BY SuccessorType DEF Allocation, MaybeID
  <2>. QED  BY <2>1, <2>2, UpdateType
<1>11. CASE MirrorGCRemoveStart
  BY <1>11, WriteOwnershipType, OwnershipWrites DEF MirrorGCRemoveStart
<1>12. CASE RemoveGCQuarantine
  BY Zenon, <1>12, CheckType, RemoveTreeType DEF RemoveGCQuarantine
<1>13. CASE CompactAllocation
  <2>1. [CompactProjection(op.a) EXCEPT !.rev = @ + 1] \in Allocation
    <3>1. CompactProjection(op.a) \in Allocation
      <4>1. op.a \in Allocation
        BY DEF TypeOK, Handler
      <4>. QED  BY Zenon, <4>1 DEF CompactProjection, Allocation, MaybeID
    <3>. QED  BY <3>1 DEF Allocation
  <2>. QED  BY <1>13, <2>1, UpdateType DEF CompactAllocation
<1>. QED  BY <1>1, <1>2, <1>3, <1>4, <1>5, <1>6, <1>7, <1>8, <1>9, <1>10,
             <1>11, <1>12, <1>13 DEF GCStep

\* Every step of a handler keeps the types, given what publish knows of its
\* node.
LEMMA StepType ==
  ASSUME TypeOK, Step, op.pc = "pubA" => op.n \in Nodes
  PROVE  TypeOK'
<1>1. StepTyped
  BY CreateStepType, PublishStepType, DeleteStepType, GCStepType DEF Step
<1>2. UNCHANGED <<pass, phase, va, node, mounted, pv>>
  BY DEF Step, ctl, env
<1>. QED  BY <1>1, <1>2 DEF TypeOK, StepTyped

\* Every request that begins keeps the types.
LEMMA RequestType ==
  ASSUME TypeOK, Request
  PROVE  TypeOK'
<1>. USE DEF PCs, Names, MaybeNode
<1>1. CASE BeginCreate
  BY Zenon, <1>1, BeginType DEF BeginCreate, ResumeCreation
<1>2. CASE BeginDelete
  BY Zenon, <1>2, BeginType DEF BeginDelete, ResumeDeletion
<1>3. CASE BeginSubmit
  BY Zenon, <1>3, BeginType DEF BeginSubmit
<1>4. CASE BeginGC
  BY Zenon, <1>4, BeginType DEF BeginGC, ResumeGC
<1>5. CASE BeginCompact
  BY Zenon, <1>5, BeginType DEF BeginCompact
<1>6. CASE \E n \in Nodes : BeginPublish(n)
  BY Zenon, <1>6, BeginType DEF BeginPublish
<1>7. CASE \E n \in MaybeNode : BeginUnpublish(n)
  BY Zenon, <1>7, BeginType DEF BeginUnpublish
<1>. QED  BY <1>1, <1>2, <1>3, <1>4, <1>5, <1>6, <1>7 DEF Request

\* The idle handler is a handler.
LEMMA IdleType == Idle \in Handler
<1>1. NoAllocation \in Allocation
  BY Zenon DEF NoAllocation, Allocation, MaybeID, States
<1>. QED  BY <1>1 DEF Idle, Handler, Names, PCs, MaybeNode

\* Cold start and the periodic pass keep the types.
LEMMA ControllerType ==
  ASSUME TypeOK, Controller, alloc.kind = "detailed" => alloc.state # "none"
  PROVE  TypeOK'
<1>1. CASE Restart
  BY <1>1 DEF Restart, TypeOK, api, fs, env
<1>2. CASE ListAllocations
  <2>1. Dispatch(alloc) \in Passes
    <3>1. alloc.state \in States
      BY DEF TypeOK, Allocation
    <3>2. CASE alloc.kind # "detailed"
      BY <3>2 DEF Dispatch, Passes
    <3>3. CASE alloc.kind = "detailed" /\ alloc.state # "none"
      BY <3>1, <3>3 DEF Dispatch, Passes, States, PreReady, Kept
    <3>. QED  BY <3>2, <3>3
  <2>. QED  BY Zenon, <1>2, <2>1 DEF ListAllocations, TypeOK, api, fs, env
<1>3. CASE BeginPass
  <2>1. PassEntry \in PCs
    BY DEF PassEntry, PCs, ResumeCreation, ResumeDeletion, ResumeGC
  <2>2. PICK name \in Names : Begin(name, PassEntry, NoNode, TRUE)
    BY Zenon, <1>3 DEF BeginPass, Names
  <2>. QED  BY Zenon, <2>1, <2>2, BeginType DEF MaybeNode
<1>4. CASE ReturnToPass
  BY <1>4, IdleType DEF ReturnToPass, TypeOK, api, fs, env, Passes
<1>5. CASE ReturnToCaller
  <2>1. va' \in [Nodes -> {"none", "attaching", "attached", "detaching"}]
    BY <1>5 DEF ReturnToCaller, TypeOK
  <2>2. pv' \in BOOLEAN
    BY Zenon, <1>5 DEF ReturnToCaller, TypeOK
  <2>. QED  BY Zenon, <1>5, <2>1, <2>2, IdleType
            DEF ReturnToCaller, TypeOK, api, fs, ctl
<1>. QED  BY <1>1, <1>2, <1>3, <1>4, <1>5 DEF Controller

\* Crashes, late writes, attachments and nodes keep the types.
LEMMA EnvironmentType ==
  ASSUME TypeOK, Environment
  PROVE  TypeOK'
<1>. USE DEF api, fs, ctl, env
<1>1. CASE Abort
  <2>1. op' \in Handler
    BY <1>1, GotoType DEF Abort, PCs
  <2>. QED  BY <1>1, <2>1 DEF Abort, TypeOK
<1>2. CASE Crash
  BY <1>2, IdleType DEF Crash, TypeOK, Passes
<1>3. CASE LandLate
  BY <1>3 DEF LandLate, TypeOK
<1>4. ASSUME NEW n \in Nodes,
             CreateAttachment(n) \/ DeleteAttachment(n)
               \/ ForceDeleteAttachment(n)
      PROVE  TypeOK'
  BY Zenon, <1>4 DEF CreateAttachment, DeleteAttachment, ForceDeleteAttachment,
              SetVA, TypeOK
<1>5. ASSUME NEW n \in Nodes, AuthorizeMount(n) \/ NodeUnstage(n)
      PROVE  TypeOK'
  BY Zenon, <1>5 DEF AuthorizeMount, NodeUnstage, TypeOK
<1>6. ASSUME NEW n \in Nodes,
             LoseNode(n) \/ ReturnNode(n) \/ StopNode(n) \/ BootNode(n)
      PROVE  TypeOK'
  BY Zenon, <1>6 DEF LoseNode, ReturnNode, StopNode, BootNode, TypeOK
<1>. QED  BY <1>1, <1>2, <1>3, <1>4, <1>5, <1>6 DEF Environment

\* The initial state has its type.
LEMMA InitType == Init => TypeOK
<1>. SUFFICES ASSUME Init PROVE TypeOK
  OBVIOUS
<1>1. NoAllocation \in Allocation /\ NoOwnership \in Ownership
  BY Zenon DEF NoAllocation, Allocation, NoOwnership, Ownership, MaybeID, States
<1>2. Absent \in Location
  BY DEF Absent, Location, MaybeID
<1>3. /\ va \in [Nodes -> {"none", "attaching", "attached", "detaching"}]
      /\ node \in [Nodes -> {"ready", "lost", "stopped"}]
  BY DEF Init
<1>4. faults \in 0..MaxFaults /\ pass \in Passes
  BY DEF Init, Passes
<1>. QED  BY Zenon, <1>1, <1>2, <1>3, <1>4, IdleType DEF Init, TypeOK
=============================================================================
