-------------------------- MODULE VolumeSafetyProofs --------------------------
(***************************************************************************)
(* FenceSafety is preserved by the steps of delete, collection and         *)
(* compaction, by requests, the pass and the environment: it is an         *)
(* invariant of VolumeLifecycle, and the theorems follow from it.          *)
(***************************************************************************)
EXTENDS VolumeFenceProofs

\* Once the record that the handler read is past Ready, both fence sets are
\* empty and stay so, and a step's only duty is to stay past Ready.
LEMMA RetiredMove ==
  ASSUME FenceSafety, op'.pc \in RetiredPCs \cup {"ok", "fail"},
         op'.name = op.name, op'.n = op.n, Retired(op'.a.state)
  PROVE  ReadInv' /\ KnownInv'
<1>1. ReadInv'
  BY DEF FenceSafety, ReadInv, RetiredPCs
<1>2. KnownInv'
  BY DEF KnownInv, RetiredPCs
<1>. QED  BY <1>1, <1>2

\* A check of a handler whose record is past Ready.
LEMMA RetiredCheck ==
  ASSUME FenceSafety, op.pc # "idle", Retired(op.a.state), NEW ok,
         NEW q \in RetiredPCs \cup {"ok"}, Check(ok, q), UNCHANGED env
  PROVE  Preserved
<1>1. Globals' /\ op'.a = op.a /\ Moved(IF ok THEN q ELSE "fail")
  BY CheckSafe
<1>. QED  BY <1>1, RetiredMove DEF Preserved, Moved

\* An allocation write of a handler whose record is past Ready.
LEMMA RetiredUpdate ==
  ASSUME FenceSafety, op.pc # "idle", Retired(op.a.state),
         NEW next \in Allocation, next.fences = op.a.fences,
         Retired(next.state), next.kind = "compact" => next.state = "Deleted",
         NEW q \in RetiredPCs \cup {"ok"}, Update(next, q), UNCHANGED env
  PROVE  Preserved
<1>1. GoodUpdate(next)
  BY DEF GoodUpdate, FenceSafety, FenceInv, Retired, Kept
<1>2. Preserved \/ (Globals' /\ Moved(q) /\ op'.a = next)
  BY <1>1, UpdateSafe
<1>. QED  BY <1>2, RetiredMove DEF Preserved, Moved

\* An ownership write of a handler whose record is past Ready.
LEMMA RetiredWrite ==
  ASSUME FenceSafety, op.pc # "idle", Retired(op.a.state), NEW o,
         o.fences \in {op.a.fences, {}}, NEW q \in RetiredPCs \cup {"ok"},
         WriteOwnership(o, q), UNCHANGED env
  PROVE  Preserved
<1>1. o.fences = {} /\ own.fences = {}
  BY DEF FenceSafety, FenceInv
<1>2. Preserved \/ (Globals' /\ Moved(q) /\ op'.a = op.a)
  BY <1>1, WriteOwnershipSafe
<1>. QED  BY <1>2, RetiredMove DEF Preserved, Moved

\* A change of the tree by a handler whose record is past Ready: nothing is
\* mounted then.
LEMMA RetiredTree ==
  ASSUME FenceSafety, op.pc # "idle", Retired(op.a.state),
         NEW q \in RetiredPCs, Goto(q),
         UNCHANGED <<alloc, late, own, env>>
  PROVE  Preserved
<1>1. Moved(q) /\ op'.a = op.a
  BY GotoFields DEF FenceSafety
<1>2. Globals'
  BY <1>1, TreeSafe DEF Moved
<1>. QED  BY <1>1, <1>2, RetiredMove DEF Preserved, Moved

\* The recursive removal, complete or interrupted, keeps the invariant.
LEMMA RemoveTreeSafe ==
  ASSUME FenceSafety, op.pc = "remove", NEW source, NEW target,
         RemoveTree(source, target), UNCHANGED env
  PROVE  Preserved
<1>0. TypeOK /\ Retired(op.a.state) /\ ReadInv /\ KnownInv
  BY DEF FenceSafety, ReadInv, RetiredPCs
<1>. USE DEF RetiredPCs
<1>1. CASE Check(FALSE, "removeSync") \/ Check(TRUE, "removeSync")
  BY Zenon, <1>0, <1>1, RetiredCheck
<1>2. CASE intact' = FALSE /\ UNCHANGED <<api, own, data, unsynced, op>>
  <2>1. UNCHANGED <<alloc, late, own, op>>
    BY <1>2 DEF api
  <2>2. Globals'
    BY <1>0, <2>1, TreeSafe
  <2>3. op'.pc = "remove" /\ Retired(op'.a.state) /\ op'.name = op.name
        /\ op'.n = op.n
    BY <1>0, <2>1
  <2>4. ReadInv' /\ KnownInv'
    BY <2>3, RetiredMove
  <2>. QED  BY <2>2, <2>4 DEF Preserved
<1>3. CASE /\ data' = Absent /\ unsynced' = unsynced \cup {"deleted"}
           /\ Goto("removeSync") /\ UNCHANGED <<api, own, intact>>
  BY <1>0, <1>3, RetiredTree DEF api
<1>. QED  BY Zenon, <1>1, <1>2, <1>3 DEF RemoveTree

\* What the mirrors and the compact projection say of the fences.
LEMMA MirrorFields ==
  ASSUME TypeOK
  PROVE  /\ MirrorDelete(own, op.a).fences = op.a.fences
         /\ MirrorDelete(own, op.a).kind = own.kind
         /\ MirrorGC(own, op.a).fences = op.a.fences
         /\ MirrorGC(own, op.a).kind = own.kind
         /\ CompactOwnership(op.a).fences = {}
BY DEF TypeOK, Ownership, MirrorDelete, MirrorGC, CompactOwnership

\* reconcileDeletePair keeps the invariant.
LEMMA DeletePairSafe ==
  ASSUME FenceSafety, ReconcileDeletePair, UNCHANGED env
  PROVE  Preserved
<1>0. TypeOK /\ op.pc = "pair" /\ ReadInv /\ KnownInv
  BY DEF FenceSafety, ReconcileDeletePair
<1>. USE DEF RetiredPCs
<1>1. CASE op.a.state = "Ready"
  <2>. DEFINE ok == DetailedPair(op.a, own, "Ready")
  <2>1. Check(ok, "inUse")
    BY <1>1 DEF ReconcileDeletePair, Kept
  <2>0. ok => own.kind = "detailed"
    BY DEF DetailedPair, IdentityPair
  <2>. HIDE DEF ok
  <2>2. CASE ok
    <3>1. Globals' /\ Moved("inUse") /\ op'.a = op.a /\ own' = own
      BY Zenon, <1>0, <2>1, <2>2, CheckSafe
    <3>. QED  BY <1>0, <1>1, <2>0, <2>2, <3>1
              DEF Preserved, ReadInv, KnownInv, Moved, Early, PreReady
  <2>. QED  BY <1>0, <2>1, <2>2, CheckSafe DEF Preserved
<1>2. CASE Retired(op.a.state)
  <2>1. op.a.state # "Ready"
    BY <1>2 DEF Retired, Kept
  <2>2. CASE \E o \in {own, MirrorDelete(own, op.a)} :
               WriteOwnership(o, "inUse") /\ own.kind = "detailed"
    <3>1. PICK o \in {own, MirrorDelete(own, op.a)} :
                WriteOwnership(o, "inUse") /\ own.kind = "detailed"
      BY <2>2
    <3>2. o.fences = {} /\ own.fences = {} /\ o.kind = "detailed"
      BY <1>0, <1>2, <3>1, MirrorFields DEF FenceSafety, FenceInv
    <3>3. \/ Preserved
          \/ Globals' /\ Moved("inUse") /\ op'.a = op.a /\ own' = o
      BY <1>0, <3>1, <3>2, WriteOwnershipSafe
    <3>4. ~Early(op.a.state)
      BY <1>2 DEF Retired, Early, PreReady, Kept
    <3>5. CASE Globals' /\ Moved("inUse") /\ op'.a = op.a /\ own' = o
      BY <1>0, <3>2, <3>4, <3>5 DEF Preserved, ReadInv, KnownInv, Moved
    <3>. QED  BY <3>3, <3>5
  <2>3. CASE WriteOwnership(MirrorDelete(own, op.a), "ok")
    BY <1>0, <1>2, <2>3, RetiredWrite, MirrorFields
  <2>4. CASE \E ok : Check(ok, "ok")
    BY <1>0, <1>2, <2>4, RetiredCheck
  <2>5. CASE Check(FALSE, "inUse")
    BY Zenon, <1>0, <2>5, CheckSafe DEF Preserved
  <2>. QED  BY Zenon, <2>1, <2>2, <2>3, <2>4, <2>5
            DEF ReconcileDeletePair, IdentityPair, DeleteProgressPair
<1>3. CASE Early(op.a.state)
  <2>1. Check(FALSE, "inUse")
    BY Zenon, <1>3 DEF ReconcileDeletePair, Early, PreReady, Kept
  <2>. QED  BY Zenon, <1>0, <2>1, CheckSafe DEF Preserved
<1>. QED  BY <1>0, <1>1, <1>2, <1>3, SuccessorFields, StateSplit

\* The steps of DeleteVolume keep the invariant: the deletion is recorded only
\* when neither record has a fence.
LEMMA DeleteStepSafe ==
  ASSUME FenceSafety, DeleteStep, UNCHANGED env
  PROVE  Preserved
<1>0. TypeOK /\ ReadInv /\ KnownInv /\ FenceInv
  BY DEF FenceSafety
<1>1. CASE ResolveMissing
  <2>. DEFINE r == [NoAllocation EXCEPT !.kind = "unknown", !.rev = 1,
                      !.state = "Deleted"]
  <2>0. op.pc = "unknown" /\ op.a.kind = "none" /\ op.name = "delete"
    BY <1>0, <1>1 DEF ResolveMissing, ReadInv
  <2>1. /\ r \in Allocation /\ r.kind = "unknown" /\ r.rev = 1
        /\ r.fences = {} /\ r.state = "Deleted"
    BY Zenon DEF NoAllocation, Allocation, MaybeID, States
  <2>2. CASE own.kind # "none" \/ pv
    <3>1. Check(FALSE, "ok")
      BY Zenon, <1>1, <2>2 DEF ResolveMissing
    <3>. QED  BY Zenon, <2>0, <3>1, CheckSafe DEF Preserved
  <2>3. CASE ~(own.kind # "none" \/ pv)
    <3>1. CreateIfAbsent(r, "ok", ResumeDeletion(alloc))
      BY <1>1, <2>3 DEF ResolveMissing
    <3>. HIDE DEF r
    <3>2. \/ Preserved
          \/ Globals' /\ Moved("ok")
          \/ Globals' /\ Moved(ResumeDeletion(alloc)) /\ op'.a = alloc
      BY <2>0, <2>1, <3>1, CreateSafe
    <3>3. CASE Globals' /\ Moved(ResumeDeletion(alloc)) /\ op'.a = alloc
      <4>1. \/ op'.pc = "finishDeleted" /\ Retired(op'.a.state)
            \/ op'.pc \in {"ok", "pair"}
        BY <3>3 DEF ResumeDeletion, Moved, Retired
      <4>2. ReadInv' /\ KnownInv'
        BY <1>0, <2>0, <3>3, <4>1 DEF ReadInv, KnownInv, Moved, RetiredPCs
      <4>. QED  BY <3>3, <4>2 DEF Preserved
    <3>. QED  BY <3>2, <3>3, DoneSafe DEF Preserved, Moved
  <2>. QED  BY <2>2, <2>3
<1>2. CASE ReconcileDeletePair
  BY <1>2, DeletePairSafe
<1>3. CASE CheckAttachments
  <2>0. op.pc = "inUse" /\ ~Early(op.a.state) /\ op.name = "delete"
        /\ own.kind = "detailed"
    BY <1>0, <1>3 DEF CheckAttachments, ReadInv, KnownInv
  <2>1. Check(~HasAttachment, "unionA")
    BY <1>3 DEF CheckAttachments
  <2>2. CASE ~HasAttachment
    <3>1. Globals' /\ Moved("unionA") /\ op'.a = op.a /\ own' = own
      BY Zenon, <2>0, <2>1, <2>2, CheckSafe
    <3>. QED  BY <1>0, <2>0, <3>1
              DEF Preserved, ReadInv, KnownInv, Moved, RetiredPCs
  <2>. QED  BY Zenon, <2>0, <2>1, <2>2, CheckSafe DEF Preserved
<1>4. CASE ReconcileDeleteFenceUnion
  <2>0. op.pc \in {"unionA", "unionO"} /\ op.name = "delete"
        /\ own.kind = "detailed" /\ ~Early(op.a.state)
    BY Zenon, <1>0, <1>4 DEF ReconcileDeleteFenceUnion, RestoreUnion, ReadInv,
                      KnownInv
  <2>1. PICK q : /\ RestoreUnion(q)
                 /\ \/ q = "fail"
                    \/ q = "prepA" /\ op.a.fences = {} /\ op.a.state = "Ready"
                    \/ q = "dispose" /\ op.a.state # "Ready"
    BY <1>4 DEF ReconcileDeleteFenceUnion
  <2>2. CASE /\ Globals' /\ op'.pc = q /\ op'.name = op.name
             /\ op'.n = op.n /\ op'.a = op.a /\ own'.fences = op.a.fences
    <3>1. CASE q = "fail"
      BY <2>2, <3>1, DoneSafe DEF Preserved
    <3>2. CASE q = "prepA" /\ op.a.fences = {} /\ op.a.state = "Ready"
      BY <1>0, <2>2, <3>2 DEF Preserved, ReadInv, KnownInv, RetiredPCs
    <3>3. CASE q = "dispose" /\ op.a.state # "Ready"
      <4>1. Retired(op.a.state)
        BY <1>0, <2>0, <3>3, SuccessorFields, StateSplit
      <4>. QED  BY <2>2, <3>3, <4>1, RetiredMove DEF Preserved, RetiredPCs
    <3>. QED  BY <2>1, <3>1, <3>2, <3>3
  <2>. QED  BY <2>0, <2>1, <2>2, RestoreUnionSafe
<1>5. CASE PrepareDelete
  <2>0. /\ op.pc = "prepA" /\ op.a.state = "Ready"
        /\ op.a.fences = {} /\ own.fences = {}
    BY <1>0, <1>5 DEF PrepareDelete, ReadInv, KnownInv
  <2>1. PICK id \in IDs :
          Update([Successor EXCEPT !.state = "Deleting", !.del = id], "prepO")
    BY Zenon, <1>5 DEF PrepareDelete
  <2>. DEFINE r == [Successor EXCEPT !.state = "Deleting", !.del = id]
  <2>2. /\ r \in Allocation /\ r.kind = op.a.kind
        /\ r.fences = op.a.fences /\ r.state = "Deleting"
    BY Zenon, <1>0, SuccessorFields DEF Allocation, States, MaybeID
  <2>3. Update(r, "prepO")
    BY <2>1
  <2>. HIDE DEF r
  <2>4. CASE op.a.kind = "detailed"
    <3>1. GoodUpdate(r)
      BY <2>0, <2>2, <2>4 DEF GoodUpdate
    <3>2. Preserved \/ (Globals' /\ Moved("prepO") /\ op'.a = r)
      BY <2>0, <2>3, <3>1, UpdateSafe
    <3>. QED  BY <2>2, <3>2, RetiredMove
              DEF Preserved, Moved, Retired, RetiredPCs
  <2>. QED  BY <2>0, <2>3, <2>4, RefusedUpdateSafe
<1>. DEFINE Later == op.pc # "idle" /\ Retired(op.a.state)
<1>. USE DEF RetiredPCs
<1>6. CASE MirrorPrepared
  <2>1. Later
    BY <1>0, <1>6 DEF MirrorPrepared, ReadInv
  <2>. QED  BY <1>0, <1>6, <2>1, RetiredWrite, MirrorFields
            DEF MirrorPrepared
<1>7. CASE PrepareDisposition
  <2>1. Later
    BY <1>0, <1>7 DEF PrepareDisposition, ReadInv
  <2>2. CASE \E ok : Check(ok, AfterDisposition(op.a))
    BY <1>0, <2>1, <2>2, RetiredCheck, Targets
  <2>3. CASE \E dirs : Rename(DeleteTarget(op.a), dirs, "disposeSync")
    <3>1. Goto("disposeSync") /\ UNCHANGED <<alloc, late, own>>
      BY <2>3 DEF Rename, api
    <3>. QED  BY <2>1, <3>1, RetiredTree
  <2>. QED  BY <1>7, <2>2, <2>3 DEF PrepareDisposition
<1>8. CASE SyncDisposition
  <2>1. Later /\ Goto(AfterDisposition(op.a)) /\ UNCHANGED <<alloc, late, own>>
    BY <1>0, <1>8 DEF SyncDisposition, ReadInv, api
  <2>. QED  BY <1>0, <2>1, RetiredTree, Targets
<1>9. CASE CompleteArchiveOrRetain
  <2>. DEFINE r == [Successor EXCEPT !.state = GCExpectedState(op.a)]
  <2>1. Later /\ Update(r, "termO")
    BY <1>0, <1>9 DEF CompleteArchiveOrRetain, ReadInv
  <2>2. /\ r \in Allocation /\ r.kind = op.a.kind
        /\ r.fences = op.a.fences /\ r.state \in Kept
    BY <1>0, SuccessorFields DEF Allocation, States, GCExpectedState, Kept
  <2>. HIDE DEF r
  <2>3. CASE op.a.kind = "detailed"
    BY <2>1, <2>2, <2>3, RetiredUpdate DEF Retired
  <2>. QED  BY <2>1, <2>3, RefusedUpdateSafe
<1>10. CASE MirrorTerminal
  <2>1. Later
    BY <1>0, <1>10 DEF MirrorTerminal, ReadInv
  <2>. QED  BY <1>0, <1>10, <2>1, RetiredWrite, MirrorFields
            DEF MirrorTerminal
<1>11. CASE PersistRemoveStart
  <2>1. PICK id \in IDs : Later /\ Update([Successor EXCEPT !.rm = id], "rmO")
    BY <1>0, <1>11 DEF PersistRemoveStart, ReadInv
  <2>. DEFINE r == [Successor EXCEPT !.rm = id]
  <2>2. /\ r \in Allocation /\ r.kind = op.a.kind
        /\ r.fences = op.a.fences /\ r.state = op.a.state
    BY <1>0, SuccessorFields DEF Allocation, MaybeID
  <2>3. Update(r, "rmO")
    BY <2>1
  <2>. HIDE DEF r
  <2>4. CASE op.a.kind = "detailed"
    BY <2>1, <2>2, <2>3, <2>4, RetiredUpdate
  <2>. QED  BY <2>1, <2>3, <2>4, RefusedUpdateSafe
<1>12. CASE MirrorRemoveStart
  <2>1. Later
    BY <1>0, <1>12 DEF MirrorRemoveStart, ReadInv
  <2>. QED  BY <1>0, <1>12, <2>1, RetiredWrite, MirrorFields
            DEF MirrorRemoveStart
<1>13. CASE RemoveQuarantine
  <2>1. Later /\ op.pc = "remove"
    BY <1>0, <1>13 DEF RemoveQuarantine, ReadInv
  <2>. QED  BY Zenon, <1>13, <2>1, RetiredCheck, RemoveTreeSafe DEF RemoveQuarantine
<1>14. CASE SyncDeletedDirectory
  <2>1. Later /\ Goto("deletedA") /\ UNCHANGED <<alloc, late, own>>
    BY <1>0, <1>14 DEF SyncDeletedDirectory, ReadInv, api
  <2>. QED  BY <2>1, RetiredTree
<1>15. CASE CompleteDeleted
  <2>. DEFINE r == [Successor EXCEPT !.state = "Deleted"]
  <2>1. Later /\ Update(r, "compactO")
    BY <1>0, <1>15 DEF CompleteDeleted, ReadInv
  <2>2. /\ r \in Allocation /\ r.kind = op.a.kind
        /\ r.fences = op.a.fences /\ r.state = "Deleted"
    BY <1>0, SuccessorFields DEF Allocation, States
  <2>. HIDE DEF r
  <2>. QED  BY <2>1, <2>2, RetiredUpdate DEF Retired
<1>16. CASE CompactOwnershipRecord
  <2>1. Later
    BY <1>0, <1>16 DEF CompactOwnershipRecord, ReadInv
  <2>. QED  BY <1>0, <1>16, <2>1, RetiredWrite, MirrorFields
            DEF CompactOwnershipRecord
<1>17. CASE FinishDeletedPair
  <2>1. Later
    BY <1>0, <1>17 DEF FinishDeletedPair, ReadInv
  <2>. QED  BY Zenon, <1>17, <2>1, RetiredCheck DEF FinishDeletedPair
<1>. QED  BY <1>1, <1>2, <1>3, <1>4, <1>5, <1>6, <1>7, <1>8, <1>9, <1>10,
             <1>11, <1>12, <1>13, <1>14, <1>15, <1>16, <1>17 DEF DeleteStep

\* The steps of garbage collection and compaction keep the invariant.
LEMMA GCStepSafe ==
  ASSUME FenceSafety, GCStep, UNCHANGED env
  PROVE  Preserved
<1>0. TypeOK /\ ReadInv /\ KnownInv /\ FenceInv
  BY DEF FenceSafety
<1>. DEFINE Later == op.pc # "idle" /\ Retired(op.a.state)
<1>. USE DEF RetiredPCs
<1>1. CASE SubmitRequest
  <2>1. PICK id \in IDs, mode \in {"dry-run", "execute"} :
          Later /\ Update([Successor EXCEPT !.req = id, !.mode = mode], "ok")
    BY Zenon, <1>0, <1>1 DEF SubmitRequest, ReadInv
  <2>. DEFINE r == [Successor EXCEPT !.req = id, !.mode = mode]
  <2>2. /\ r \in Allocation /\ r.kind = op.a.kind
        /\ r.fences = op.a.fences /\ r.state = op.a.state
    BY Zenon, <1>0, SuccessorFields DEF Allocation, MaybeID
  <2>3. Update(r, "ok")
    BY <2>1
  <2>. HIDE DEF r
  <2>4. CASE op.a.kind = "detailed"
    BY <2>1, <2>2, <2>3, <2>4, RetiredUpdate
  <2>. QED  BY <2>1, <2>3, <2>4, RefusedUpdateSafe
<1>2. CASE FinishCollectedPair
  <2>1. Later
    BY <1>0, <1>2 DEF FinishCollectedPair, ReadInv
  <2>. QED  BY <1>2, <2>1, RetiredCheck DEF FinishCollectedPair
<1>3. CASE ReconcileExecutePair
  <2>0. op.pc = "gcPair" /\ op.name = "gc"
    BY <1>0, <1>3 DEF ReconcileExecutePair, ReadInv
  <2>1. CASE Check(FALSE, "unionA")
    BY Zenon, <2>0, <2>1, CheckSafe DEF Preserved
  <2>. DEFINE ok == op.a.state \in Kept /\ InitialGCPair(op.a, own)
  <2>2. CASE Check(ok, "unionA")
    <3>1. ok => own.kind = "detailed" /\ Retired(op.a.state)
                /\ ~Early(op.a.state)
      BY DEF InitialGCPair, IdentityPair, Retired, Early, Kept, PreReady
    <3>. HIDE DEF ok
    <3>2. CASE ok
      <4>1. Globals' /\ Moved("unionA") /\ op'.a = op.a /\ own' = own
        BY Zenon, <2>0, <2>2, <3>2, CheckSafe
      <4>. QED  BY <1>0, <2>0, <3>1, <3>2, <4>1
                DEF Preserved, ReadInv, KnownInv, Moved
    <3>. QED  BY <2>0, <2>2, <3>2, CheckSafe DEF Preserved
  <2>3. CASE /\ op.a.state \in Kept /\ GCProgressPair(op.a, own)
             /\ \E o \in {own, MirrorGC(own, op.a)} :
                  WriteOwnership(o, "unionA")
    <3>1. PICK o \in {own, MirrorGC(own, op.a)} : WriteOwnership(o, "unionA")
      BY <2>3
    <3>2. Retired(op.a.state) /\ ~Early(op.a.state) /\ own.kind = "detailed"
      BY <2>3 DEF GCProgressPair, IdentityPair, Retired, Early, Kept, PreReady
    <3>3. o.fences = {} /\ own.fences = {} /\ o.kind = "detailed"
      BY <1>0, <3>1, <3>2, MirrorFields DEF FenceInv
    <3>4. \/ Preserved
          \/ Globals' /\ Moved("unionA") /\ op'.a = op.a /\ own' = o
      BY <2>0, <3>1, <3>3, WriteOwnershipSafe
    <3>5. CASE Globals' /\ Moved("unionA") /\ op'.a = op.a /\ own' = o
      BY Zenon, <1>0, <2>0, <3>2, <3>3, <3>5
      DEF Preserved, ReadInv, KnownInv, Moved
    <3>. QED  BY <3>4, <3>5
  <2>. QED  BY Zenon, <1>3, <2>1, <2>2, <2>3 DEF ReconcileExecutePair
<1>4. CASE ReconcileExecuteFenceUnion
  <2>0. /\ op.pc \in {"unionA", "unionO"} /\ own.kind = "detailed"
        /\ Retired(op.a.state)
    BY Zenon, <1>0, <1>4 DEF ReconcileExecuteFenceUnion, RestoreUnion, ReadInv,
                      KnownInv
  <2>1. RestoreUnion("gcGates")
    BY <1>4 DEF ReconcileExecuteFenceUnion
  <2>2. \/ Preserved
        \/ /\ Globals' /\ op'.pc = "gcGates" /\ op'.name = op.name
           /\ op'.n = op.n /\ op'.a = op.a
    BY Zenon, <2>0, <2>1, RestoreUnionSafe
  <2>. QED  BY <2>0, <2>2, RetiredMove DEF Preserved
<1>5. CASE ValidateMutationGates
  <2>1. Later
    BY <1>0, <1>5 DEF ValidateMutationGates, ReadInv
  <2>. QED  BY <1>5, <2>1, RetiredCheck DEF ValidateMutationGates
<1>6. CASE PrepareGC
  <2>1. PICK id \in IDs :
          Later /\ Update([Successor EXCEPT !.gc = id], "gcPrepO")
    BY <1>0, <1>6 DEF PrepareGC, ReadInv
  <2>. DEFINE r == [Successor EXCEPT !.gc = id]
  <2>2. /\ r \in Allocation /\ r.kind = op.a.kind
        /\ r.fences = op.a.fences /\ r.state = op.a.state
    BY <1>0, SuccessorFields DEF Allocation, MaybeID
  <2>3. Update(r, "gcPrepO")
    BY <2>1
  <2>. HIDE DEF r
  <2>4. CASE op.a.kind = "detailed"
    BY <2>1, <2>2, <2>3, <2>4, RetiredUpdate
  <2>. QED  BY <2>1, <2>3, <2>4, RefusedUpdateSafe
<1>7. CASE MirrorGCPrepared
  <2>1. Later
    BY <1>0, <1>7 DEF MirrorGCPrepared, ReadInv
  <2>. QED  BY <1>0, <1>7, <2>1, RetiredWrite, MirrorFields
            DEF MirrorGCPrepared
<1>8. CASE PrepareQuarantine
  <2>1. Later
    BY <1>0, <1>8 DEF PrepareQuarantine, ReadInv
  <2>2. CASE \E ok : Check(ok, AfterGCQuarantine(op.a))
    BY <1>0, <2>1, <2>2, RetiredCheck, Targets
  <2>3. CASE Rename(GCQuarantinePath(op.a), GCDirs(op.a), "disposeSync")
    <3>1. Goto("disposeSync") /\ UNCHANGED <<alloc, late, own>>
      BY <2>3 DEF Rename, api
    <3>. QED  BY <2>1, <3>1, RetiredTree
  <2>. QED  BY <1>8, <2>2, <2>3 DEF PrepareQuarantine
<1>9. CASE SyncGCQuarantine
  <2>1. Later /\ Goto(AfterGCQuarantine(op.a)) /\ UNCHANGED <<alloc, late, own>>
    BY <1>0, <1>9 DEF SyncGCQuarantine, ReadInv, api
  <2>. QED  BY <1>0, <2>1, RetiredTree, Targets
<1>10. CASE PersistGCRemoveStart
  <2>1. PICK id \in IDs :
          Later /\ Update([Successor EXCEPT !.gcrm = id], "gcRmO")
    BY <1>0, <1>10 DEF PersistGCRemoveStart, ReadInv
  <2>. DEFINE r == [Successor EXCEPT !.gcrm = id]
  <2>2. /\ r \in Allocation /\ r.kind = op.a.kind
        /\ r.fences = op.a.fences /\ r.state = op.a.state
    BY <1>0, SuccessorFields DEF Allocation, MaybeID
  <2>3. Update(r, "gcRmO")
    BY <2>1
  <2>. HIDE DEF r
  <2>4. CASE op.a.kind = "detailed"
    BY <2>1, <2>2, <2>3, <2>4, RetiredUpdate
  <2>. QED  BY <2>1, <2>3, <2>4, RefusedUpdateSafe
<1>11. CASE MirrorGCRemoveStart
  <2>1. Later
    BY <1>0, <1>11 DEF MirrorGCRemoveStart, ReadInv
  <2>. QED  BY <1>0, <1>11, <2>1, RetiredWrite, MirrorFields
            DEF MirrorGCRemoveStart
<1>12. CASE RemoveGCQuarantine
  <2>1. Later /\ op.pc = "remove"
    BY <1>0, <1>12 DEF RemoveGCQuarantine, ReadInv
  <2>. QED  BY Zenon, <1>12, <2>1, RetiredCheck, RemoveTreeSafe
            DEF RemoveGCQuarantine
<1>13. CASE CompactAllocation
  <2>. DEFINE r == [CompactProjection(op.a) EXCEPT !.rev = @ + 1]
  <2>1. Later /\ Update(r, "ok")
    BY <1>0, <1>13 DEF CompactAllocation, ReadInv
  <2>2. /\ r \in Allocation /\ r.kind = "compact"
        /\ r.fences = op.a.fences /\ r.state = op.a.state
    <3>1. /\ CompactProjection(op.a) \in Allocation
          /\ CompactProjection(op.a).kind = "compact"
          /\ CompactProjection(op.a).fences = op.a.fences
          /\ CompactProjection(op.a).state = op.a.state
      <4>1. op.a \in Allocation
        BY <1>0 DEF TypeOK, Handler
      <4>. QED  BY Zenon, <4>1 DEF CompactProjection, Allocation, MaybeID
    <3>. QED  BY <3>1 DEF Allocation
  <2>. HIDE DEF r
  <2>3. CASE op.a.state = "Deleted"
    BY <2>1, <2>2, <2>3, RetiredUpdate
  <2>4. CASE op.a.state # "Deleted"
    <3>1. Check(FALSE, "ok")
      BY Zenon, <2>1, <2>2, <2>4 DEF Update, AllowedUpdate
    <3>. QED  BY Zenon, <2>1, <3>1, CheckSafe DEF Preserved
  <2>. QED  BY <2>3, <2>4
<1>. QED  BY <1>1, <1>2, <1>3, <1>4, <1>5, <1>6, <1>7, <1>8, <1>9, <1>10,
             <1>11, <1>12, <1>13 DEF GCStep

-----------------------------------------------------------------------------
(* Requests, the pass, and the environment.                                *)

\* A handler takes the lock: what it read is what is stored.
LEMMA BeginSafe ==
  ASSUME FenceSafety, NEW name, NEW q, NEW n, NEW b, Begin(name, q, n, b),
         name = "unpublish" =>
           \A m \in Nodes : n \in {NoNode, m} => va[m] # "attached"
  PROVE  /\ Globals' /\ op'.pc = q /\ op'.name = name /\ op'.n = n
         /\ op'.a = alloc
<1>1. UNCHANGED <<alloc, late, own, data, intact, va, node, mounted>>
  BY DEF Begin, api, fs, ctl, env
<1>2. op'.pc = q /\ op'.name = name /\ op'.n = n /\ op'.a = alloc
  BY DEF Begin, Idle
<1>3. RecordInv'
  BY <1>1, <1>2 DEF FenceSafety, RecordInv
<1>4. SnapshotInv'
  <2>1. alloc.rev \in Nat
    BY DEF FenceSafety, TypeOK, Allocation
  <2>. QED  BY <1>1, <1>2, <2>1 DEF SnapshotInv
<1>5. FenceInv'
  BY <1>1, <1>2 DEF FenceSafety, FenceInv
<1>6. MountInv'
  BY <1>1, <1>2 DEF FenceSafety, MountInv
<1>7. TreeInv'
  BY <1>1 DEF FenceSafety, TreeInv
<1>. QED  BY <1>2, <1>3, <1>4, <1>5, <1>6, <1>7 DEF Globals

\* A request that begins reads the stored record, and knows what it read.
LEMMA RequestSafe ==
  ASSUME FenceSafety, Request
  PROVE  Preserved
<1>0. TypeOK /\ WellFormed(alloc) /\ alloc.state \in States
  BY DEF FenceSafety, RecordInv, TypeOK, Allocation
<1>. USE DEF RetiredPCs
<1>1. CASE BeginCreate
  <2>. DEFINE q == IF alloc.kind = "none" THEN "reserve"
                   ELSE ResumeCreation(alloc)
  <2>1. Begin("create", q, NoNode, FALSE)
    BY Zenon, <1>1 DEF BeginCreate
  <2>2. \/ q = "reserve" /\ alloc.kind = "none"
        \/ q \in {"creating", "ensure"} /\ alloc.state \in PreReady
        \/ q \in {"ok", "fail"}
    BY DEF ResumeCreation, PreReady
  <2>. HIDE DEF q
  <2>3. Globals' /\ op'.pc = q /\ op'.name = "create" /\ op'.a = alloc
    BY Zenon, <2>1, BeginSafe
  <2>. QED  BY <2>2, <2>3 DEF Preserved, ReadInv, KnownInv
<1>2. CASE BeginDelete
  <2>. DEFINE q == IF alloc.kind = "none" THEN "unknown"
                   ELSE ResumeDeletion(alloc)
  <2>1. Begin("delete", q, NoNode, FALSE)
    BY Zenon, <1>2 DEF BeginDelete
  <2>2. \/ q = "unknown" /\ alloc.kind = "none"
        \/ q = "finishDeleted" /\ Retired(alloc.state)
        \/ q \in {"ok", "pair"}
    BY DEF ResumeDeletion, Retired
  <2>. HIDE DEF q
  <2>3. Globals' /\ op'.pc = q /\ op'.name = "delete" /\ op'.a = alloc
    BY Zenon, <2>1, BeginSafe
  <2>. QED  BY <2>2, <2>3 DEF Preserved, ReadInv, KnownInv
<1>3. CASE BeginSubmit
  <2>1. /\ Globals' /\ op'.pc = "submitA" /\ op'.name = "submit"
        /\ op'.a = alloc /\ Retired(alloc.state)
    BY Zenon, <1>3, BeginSafe DEF BeginSubmit, SubmitAllowed, Retired
  <2>. QED  BY <2>1 DEF Preserved, ReadInv, KnownInv
<1>4. CASE BeginGC
  <2>1. Begin("gc", ResumeGC(alloc), NoNode, FALSE)
    BY Zenon, <1>4 DEF BeginGC
  <2>2. \/ ResumeGC(alloc) = "finishDeleted" /\ Retired(alloc.state)
        \/ ResumeGC(alloc) \in {"gcPair", "fail"}
    BY DEF ResumeGC, Retired
  <2>3. /\ Globals' /\ op'.pc = ResumeGC(alloc) /\ op'.name = "gc"
        /\ op'.a = alloc
    BY Zenon, <2>1, BeginSafe
  <2>. QED  BY <2>2, <2>3 DEF Preserved, ReadInv, KnownInv
<1>5. CASE BeginCompact
  <2>1. /\ Globals' /\ op'.pc = "compactA" /\ op'.name = "compact"
        /\ op'.a = alloc /\ Retired(alloc.state)
    BY Zenon, <1>5, BeginSafe DEF BeginCompact, Retired
  <2>. QED  BY <2>1 DEF Preserved, ReadInv, KnownInv
<1>6. ASSUME NEW n \in Nodes, BeginPublish(n)
      PROVE  Preserved
  <2>1. Begin("publish", "unionA", n, FALSE) /\ alloc.state = "Ready"
    BY Zenon, <1>6 DEF BeginPublish
  <2>2. /\ Globals' /\ op'.pc = "unionA" /\ op'.name = "publish"
        /\ op'.n = n /\ op'.a = alloc
    <3>1. "publish" = "unpublish" =>
            \A m \in Nodes : n \in {NoNode, m} => va[m] # "attached"
      OBVIOUS
    <3>. QED  BY Zenon, <2>1, <3>1, BeginSafe, Zenon
  <2>. QED  BY <1>0, <2>1, <2>2, StateSplit DEF Preserved, ReadInv, KnownInv
<1>7. ASSUME NEW n \in MaybeNode, BeginUnpublish(n)
      PROVE  Preserved
  <2>. DEFINE q == IF alloc.kind # "detailed" \/ alloc.state \in PreReady
                   THEN "ok" ELSE "unionA"
  <2>1. Begin("unpublish", q, n, FALSE)
    BY Zenon, <1>7 DEF BeginUnpublish
  <2>2. \A m \in Nodes : n \in {NoNode, m} => va[m] # "attached"
    BY <1>7 DEF BeginUnpublish
  <2>3. q = "ok" \/ (q = "unionA" /\ ~Early(alloc.state))
    BY <1>0 DEF WellFormed, Early
  <2>. HIDE DEF q
  <2>4. /\ Globals' /\ op'.pc = q /\ op'.name = "unpublish"
        /\ op'.a = alloc
    BY Zenon, <2>1, <2>2, BeginSafe
  <2>. QED  BY <2>3, <2>4 DEF Preserved, ReadInv, KnownInv
<1>. QED  BY <1>1, <1>2, <1>3, <1>4, <1>5, <1>6, <1>7 DEF Request

\* A handler ends, or dies with the process.
LEMMA IdleSafe ==
  ASSUME FenceSafety, op' = Idle,
         UNCHANGED <<alloc, late, own, data, intact, node, mounted>>,
         \A n \in mounted : va[n] = "attached" => va'[n] = "attached"
  PROVE  Preserved
<1>1. /\ op'.pc = "idle" /\ op'.name = "none" /\ op'.a = NoAllocation
  BY DEF Idle
<1>2. /\ NoAllocation.rev = 0 /\ NoAllocation.kind = "none"
      /\ NoAllocation.state = "none" /\ NoAllocation.fences = {}
  BY DEF NoAllocation
<1>3. alloc.rev \in Nat /\ WellFormed(alloc)
  BY DEF FenceSafety, TypeOK, Allocation, RecordInv
<1>4. RecordInv'
  <2>1. WellFormed(NoAllocation)
    BY <1>2 DEF WellFormed
  <2>. QED  BY <1>1, <2>1 DEF FenceSafety, RecordInv
<1>5. SnapshotInv'
  BY <1>1, <1>2, <1>3 DEF SnapshotInv, WellFormed
<1>6. FenceInv'
  BY <1>1, <1>2 DEF FenceSafety, FenceInv, Retired, Kept
<1>7. MountInv'
  BY <1>1 DEF FenceSafety, MountInv
<1>8. TreeInv'
  BY DEF FenceSafety, TreeInv
<1>9. ReadInv' /\ KnownInv'
  BY <1>1 DEF ReadInv, KnownInv, RetiredPCs
<1>. QED  BY <1>4, <1>5, <1>6, <1>7, <1>8, <1>9 DEF Preserved, Globals

\* A step that changes none of the variables of FenceSafety but TypeOK's.
LEMMA SameSafe ==
  ASSUME FenceSafety,
         UNCHANGED <<alloc, late, own, op, data, intact, va, node, mounted>>
  PROVE  Preserved
<1>1. RecordInv' /\ SnapshotInv' /\ FenceInv'
  <2>1. RecordInv'
    BY DEF FenceSafety, RecordInv
  <2>2. SnapshotInv'
    BY DEF FenceSafety, SnapshotInv
  <2>3. FenceInv'
    BY DEF FenceSafety, FenceInv
  <2>. QED  BY <2>1, <2>2, <2>3
<1>2. MountInv' /\ TreeInv'
  BY DEF FenceSafety, MountInv, TreeInv
<1>3. ReadInv' /\ KnownInv'
  BY SMTT(30) DEF FenceSafety, ReadInv, KnownInv
<1>. QED  BY <1>1, <1>2, <1>3 DEF Preserved, Globals

\* Cold start and the periodic pass keep the invariant.
LEMMA ControllerSafe ==
  ASSUME FenceSafety, Controller
  PROVE  Preserved
<1>0. TypeOK /\ WellFormed(alloc) /\ alloc.state \in States
  BY DEF FenceSafety, RecordInv, TypeOK, Allocation
<1>1. CASE Restart \/ ListAllocations
  BY <1>1, SameSafe DEF Restart, ListAllocations, api, fs, env
<1>2. CASE BeginPass
  <2>. DEFINE name == CASE pass = "creation"               -> "create"
                        [] pass \in {"fences", "terminal"} -> "fences"
                        [] pass = "deletion"               -> "delete"
                        [] OTHER                           -> "gc"
  <2>1. Begin(name, PassEntry, NoNode, TRUE)
    BY Zenon, <1>2 DEF BeginPass
  <2>2. \/ PassEntry \in {"ok", "fail"}
        \/ PassEntry \in {"creating", "ensure"} /\ alloc.state \in PreReady
        \/ /\ PassEntry = "unionA" /\ name = "fences"
           /\ alloc.state \in Kept \cup {"Ready"}
        \/ PassEntry = "finishDeleted" /\ Retired(alloc.state)
        \/ PassEntry = "pair" /\ name = "delete"
        \/ PassEntry = "gcPair" /\ name = "gc"
    BY DEF PassEntry, ResumeCreation, ResumeDeletion, ResumeGC, PreReady,
           Retired
  <2>3. name \in {"create", "fences", "delete", "gc"}
    OBVIOUS
  <2>. HIDE DEF name
  <2>4. Globals' /\ op'.pc = PassEntry /\ op'.name = name /\ op'.a = alloc
    BY Zenon, <2>1, <2>3, BeginSafe
  <2>5. alloc.state \in Kept \cup {"Ready"} => ~Early(alloc.state)
    BY DEF Kept, Early, PreReady
  <2>6. ReadInv'
    BY <2>2, <2>3, <2>4, <2>5 DEF ReadInv, RetiredPCs
  <2>7. KnownInv'
    BY <2>2, <2>3, <2>4 DEF KnownInv
  <2>. QED  BY <2>4, <2>6, <2>7 DEF Preserved
<1>3. CASE ReturnToPass
  BY <1>3, IdleSafe DEF ReturnToPass, api, fs, env
<1>4. CASE ReturnToCaller
  <2>1. \A n \in Nodes : va[n] = "attached" => va'[n] = "attached"
    BY <1>4 DEF ReturnToCaller
  <2>2. mounted \subseteq Nodes
    BY <1>0 DEF TypeOK
  <2>. QED  BY <1>4, <2>1, <2>2, IdleSafe DEF ReturnToCaller, api, fs
<1>. QED  BY <1>1, <1>2, <1>3, <1>4 DEF Controller

\* A write in flight lands on the record it was computed from.
LEMMA LandLateSafe ==
  ASSUME FenceSafety, LandLate
  PROVE  Preserved
<1>1. PICK w \in late :
        /\ late' = late \ {w}
        /\ alloc' = IF w.rev = alloc.rev + 1 THEN w ELSE alloc
        /\ UNCHANGED <<faults, own, fs, op, ctl, env>>
  BY DEF LandLate
<1>2. /\ UNCHANGED <<own, op, data, intact, va, node, mounted>>
      /\ late' \subseteq late
  BY <1>1 DEF fs, env
<1>3. CASE w.rev # alloc.rev + 1
  <2>1. alloc' = alloc
    BY <1>1, <1>3
  <2>2. RecordInv' /\ SnapshotInv' /\ FenceInv'
    <3>1. RecordInv'
      BY <1>2, <2>1 DEF FenceSafety, RecordInv
    <3>2. SnapshotInv'
      BY <1>2, <2>1 DEF FenceSafety, SnapshotInv
    <3>3. FenceInv'
      BY <1>2, <2>1 DEF FenceSafety, FenceInv
    <3>. QED  BY <3>1, <3>2, <3>3
  <2>3. MountInv' /\ TreeInv'
    BY <1>2, <2>1 DEF FenceSafety, MountInv, TreeInv
  <2>4. ReadInv' /\ KnownInv'
    <3>1. ReadInv'
      BY <1>2, <2>1 DEF FenceSafety, ReadInv
    <3>2. KnownInv'
      BY <1>2, <2>1 DEF FenceSafety, KnownInv
    <3>. QED  BY <3>1, <3>2
  <2>. QED  BY <2>2, <2>3, <2>4 DEF Preserved, Globals
<1>4. CASE w.rev = alloc.rev + 1
  <2>1. alloc' = w
    BY <1>1, <1>4
  <2>2. /\ WellFormed(w) /\ (Early(w.state) => Early(alloc.state))
        /\ Retired(alloc.state) => Retired(w.state)
        /\ alloc.kind # "none" => AllowedUpdate(alloc, w)
    BY <1>4, PendingFacts
  <2>3. alloc.rev \in Nat /\ w.rev \in Nat /\ op.a.rev \in Nat
        /\ \A v \in late : v.rev \in Nat
    BY DEF FenceSafety, TypeOK, Handler, Allocation
  <2>4. \A v \in late' : v.rev >= 1 /\ v.rev <= alloc'.rev
                         /\ v.rev # alloc'.rev + 1 /\ WellFormed(v)
    <3>1. \A v \in late : v.rev >= 1 /\ v.rev <= alloc.rev + 1 /\ WellFormed(v)
      BY DEF FenceSafety, RecordInv
    <3>2. \A v \in late : v.rev <= w.rev /\ v.rev # w.rev + 1
      BY <1>4, <2>3, <3>1
    <3>. QED  BY <1>2, <2>1, <3>1, <3>2
  <2>5. op.pc # "idle" => op.a = alloc
    BY <1>4, <2>3 DEF FenceSafety, SnapshotInv
  <2>6. op.pc = "idle" => op.a.fences = {}
    BY SMTT(30) DEF FenceSafety, ReadInv, Idle, NoAllocation
  <2>7. RecordInv'
    BY <1>2, <2>1, <2>2, <2>3, <2>4, SMTT(30) DEF FenceSafety, RecordInv
  <2>8. SnapshotInv'
    BY <1>2, <1>4, <2>1, <2>2, <2>3, <2>4, <2>5 DEF FenceSafety, SnapshotInv
  <2>9. FenceInv'
    BY <1>2, <1>4, <2>1, <2>2, <2>4, <2>5, <2>6 DEF FenceSafety, FenceInv
  <2>10. MountInv'
    BY <1>2, <1>4, <2>1, <2>4 DEF FenceSafety, MountInv
  <2>11. TreeInv'
    BY <1>2, <1>4, <2>1, <2>2, <2>4 DEF FenceSafety, TreeInv
  <2>12. ReadInv'
    BY <1>2 DEF FenceSafety, ReadInv
  <2>13. op.pc # "pubO"
    BY <1>4, <2>3, SMTT(30) DEF FenceSafety, KnownInv
  <2>14. KnownInv'
    BY <1>2, <2>13 DEF FenceSafety, KnownInv
  <2>. QED  BY <2>7, <2>8, <2>9, <2>10, <2>11, <2>12, <2>14
            DEF Preserved, Globals
<1>. QED  BY <1>3, <1>4

\* The environment: attachments, mounts and nodes.
LEMMA MountsSafe ==
  ASSUME FenceSafety, UNCHANGED <<alloc, late, own, op, data, intact>>,
         \A n \in mounted' :
           /\ n \in mounted \/ (n \in own.fences /\ va[n] = "attached")
           /\ node'[n] # "stopped"
           /\ node'[n] = "ready" => va'[n] = "attached",
         \A m \in Nodes : va'[m] = "attached" => va[m] = "attached"
  PROVE  Preserved
<1>1. RecordInv' /\ SnapshotInv' /\ FenceInv'
  <2>1. RecordInv'
    BY DEF FenceSafety, RecordInv
  <2>2. SnapshotInv'
    BY DEF FenceSafety, SnapshotInv
  <2>3. FenceInv'
    BY DEF FenceSafety, FenceInv
  <2>. QED  BY <2>1, <2>2, <2>3
<1>2. MountInv'
  BY DEF FenceSafety, MountInv
<1>3. TreeInv' /\ ReadInv'
  BY SMTT(30) DEF FenceSafety, TreeInv, ReadInv
<1>4. KnownInv'
  <2>1. op.pc = "clearA" => op.t \in Nodes \ mounted'
    <3>1. op.pc = "clearA" =>
            /\ op.name = "unpublish" /\ op.t \in Nodes \ mounted
            /\ op.n \in {NoNode, op.t}
      BY DEF FenceSafety, ReadInv, KnownInv
    <3>. QED  BY <3>1 DEF FenceSafety, MountInv
  <2>. QED  BY <2>1 DEF FenceSafety, KnownInv
<1>. QED  BY <1>1, <1>2, <1>3, <1>4 DEF Preserved, Globals

\* Crashes, late writes, attachments and nodes keep the invariant.
LEMMA EnvironmentSafe ==
  ASSUME FenceSafety, Environment
  PROVE  Preserved
<1>0. TypeOK /\ mounted \subseteq Nodes
  BY DEF FenceSafety, TypeOK
<1>a. /\ va \in [Nodes -> {"none", "attaching", "attached", "detaching"}]
      /\ node \in [Nodes -> {"ready", "lost", "stopped"}]
  BY <1>0 DEF TypeOK
<1>b. \A n \in mounted :
        node[n] # "stopped" /\ (node[n] = "ready" => va[n] = "attached")
  BY DEF FenceSafety, MountInv
<1>. USE DEF api, fs, ctl, env
<1>1. CASE Abort
  <2>1. Moved("fail") /\ op'.a = op.a /\ op.pc # "idle"
    BY <1>0, <1>1, GotoFields DEF Abort
  <2>2. Globals'
    BY <1>1, <2>1, LocalSafe DEF Abort, Moved
  <2>. QED  BY <2>1, <2>2, DoneSafe DEF Preserved, Moved
<1>2. CASE Crash
  BY <1>2, IdleSafe DEF Crash
<1>3. CASE LandLate
  BY <1>3, LandLateSafe
<1>4. ASSUME NEW n \in Nodes, CreateAttachment(n)
      PROVE  Preserved
  BY <1>0, <1>a, <1>b, <1>4, MountsSafe DEF CreateAttachment, SetVA
<1>5. ASSUME NEW n \in Nodes, DeleteAttachment(n)
      PROVE  Preserved
  BY <1>0, <1>a, <1>b, <1>5, MountsSafe DEF DeleteAttachment, SetVA
<1>6. ASSUME NEW n \in Nodes, ForceDeleteAttachment(n)
      PROVE  Preserved
  BY <1>0, <1>a, <1>b, <1>6, MountsSafe DEF ForceDeleteAttachment, SetVA
<1>7. ASSUME NEW n \in Nodes, AuthorizeMount(n)
      PROVE  Preserved
  BY <1>0, <1>a, <1>b, <1>7, MountsSafe DEF AuthorizeMount
<1>8. ASSUME NEW n \in Nodes, NodeUnstage(n)
      PROVE  Preserved
  BY <1>0, <1>a, <1>b, <1>8, MountsSafe DEF NodeUnstage
<1>9. ASSUME NEW n \in Nodes, LoseNode(n)
      PROVE  Preserved
  BY <1>0, <1>a, <1>b, <1>9, MountsSafe DEF LoseNode
<1>10. ASSUME NEW n \in Nodes, ReturnNode(n)
       PROVE  Preserved
  BY <1>0, <1>a, <1>b, <1>10, MountsSafe DEF ReturnNode
<1>11. ASSUME NEW n \in Nodes, StopNode(n) \/ BootNode(n)
       PROVE  Preserved
  BY <1>0, <1>a, <1>b, <1>11, MountsSafe DEF StopNode, BootNode
<1>. QED  BY <1>1, <1>2, <1>3, <1>4, <1>5, <1>6, <1>7, <1>8, <1>9, <1>10,
             <1>11 DEF Environment

-----------------------------------------------------------------------------
(* The invariant, and what follows from it.                                *)

LEMMA InitSafe == Init => FenceSafety
<1>. SUFFICES ASSUME Init PROVE FenceSafety
  OBVIOUS
<1>1. TypeOK
  BY InitType
<1>2. /\ alloc = NoAllocation /\ late = {} /\ own = NoOwnership /\ op = Idle
      /\ intact = TRUE /\ mounted = {}
  BY DEF Init
<1>3. /\ alloc.rev = 0 /\ alloc.kind = "none" /\ alloc.state = "none"
      /\ alloc.fences = {} /\ own.fences = {}
      /\ op.a = alloc /\ op.pc = "idle" /\ op.name = "none"
  BY <1>2 DEF NoAllocation, NoOwnership, Idle
<1>4. RecordInv
  BY <1>2, <1>3 DEF RecordInv, WellFormed
<1>5. SnapshotInv
  BY <1>3 DEF SnapshotInv
<1>6. FenceInv /\ MountInv /\ TreeInv
  BY <1>2, <1>3 DEF FenceInv, MountInv, TreeInv, Retired, Kept
<1>7. ReadInv /\ KnownInv
  BY Zenon, <1>2, <1>3 DEF ReadInv, KnownInv, RetiredPCs
<1>. QED  BY <1>1, <1>4, <1>5, <1>6, <1>7 DEF FenceSafety

\* Every step keeps the invariant.
LEMMA NextSafe ==
  ASSUME FenceSafety, [Next]_vars
  PROVE  FenceSafety'
<1>0. /\ TypeOK /\ (op.pc = "pubA" => op.n \in Nodes)
      /\ alloc.kind = "detailed" => alloc.state # "none"
  BY DEF FenceSafety, ReadInv, RecordInv, WellFormed
<1>1. CASE Step
  <2>1. TypeOK'
    BY <1>0, <1>1, StepType
  <2>2. Preserved
    BY <1>1, CreateStepSafe, PublishStepSafe, DeleteStepSafe, GCStepSafe
    DEF Step
  <2>. QED  BY <2>1, <2>2 DEF FenceSafety, Preserved, Globals
<1>2. CASE Request
  BY <1>0, <1>2, RequestType, RequestSafe DEF FenceSafety, Preserved, Globals
<1>3. CASE Controller
  BY <1>0, <1>3, ControllerType, ControllerSafe
  DEF FenceSafety, Preserved, Globals
<1>4. CASE Environment
  BY <1>0, <1>4, EnvironmentType, EnvironmentSafe
  DEF FenceSafety, Preserved, Globals
<1>5. CASE UNCHANGED vars
  <2>1. TypeOK'
    BY <1>0, <1>5 DEF vars, TypeOK
  <2>2. Preserved
    BY <1>5, SameSafe DEF vars
  <2>. QED  BY <2>1, <2>2 DEF FenceSafety, Preserved, Globals
<1>. QED  BY <1>1, <1>2, <1>3, <1>4, <1>5 DEF Next

\* FenceSafety holds in every reachable state: for any nodes, IDs, policies
\* and bounds, whatever handlers, crashes and late writes are interleaved.
THEOREM FenceSafetyInvariant == Spec => []FenceSafety
<1>1. Init => FenceSafety
  BY InitSafe
<1>2. FenceSafety /\ [Next]_vars => FenceSafety'
  BY NextSafe
<1>. QED  BY <1>1, <1>2, PTL DEF Spec

\* The records, the handler and the environment keep their types.
THEOREM TypeCorrect == Spec => []TypeOK
<1>1. FenceSafety => TypeOK
  BY DEF FenceSafety
<1>. QED  BY <1>1, FenceSafetyInvariant, PTL

\* Every node that has the volume mounted is fenced in the allocation or in
\* the ownership record (publish.go, publish order and clear order).
THEOREM MountsAreFenced == Spec => []MountedFenced
<1>1. FenceSafety => MountedFenced
  BY DEF FenceSafety, MountInv, MountedFenced
<1>. QED  BY <1>1, FenceSafetyInvariant, PTL

\* While a node has the volume mounted, the allocation is Ready and the tree
\* is whole at its source path: no deletion, rename or removal starts
\* (delete.go's fence gate against every interleaving and late write).
THEOREM MountsAreStable == Spec => []MountedDataStable
<1>1. FenceSafety => MountedDataStable
  <2>. SUFFICES ASSUME FenceSafety, mounted # {}
                PROVE  alloc.state = "Ready" /\ data = SourcePath /\ intact
    BY DEF MountedDataStable
  <2>1. alloc.state \in States
    BY DEF FenceSafety, TypeOK, Allocation
  <2>2. alloc.fences # {} \/ own.fences # {}
    BY DEF FenceSafety, MountInv
  <2>3. ~Retired(alloc.state) /\ ~Early(alloc.state)
    BY <2>2 DEF FenceSafety, FenceInv, RecordInv, WellFormed
  <2>4. alloc.state = "Ready"
    BY <2>1, <2>3, StateSplit
  <2>. QED  BY <2>3, <2>4 DEF FenceSafety, TreeInv
<1>. QED  BY <1>1, FenceSafetyInvariant, PTL

\* What a step may do to the stored allocation: an update of what the handler
\* read, or a first record.
LEMMA StepWrites ==
  ASSUME TypeOK, Step
  PROVE  \/ alloc' = alloc
         \/ \E next, q : Update(next, q)
         \/ \E p \in Policies : \E q, e :
              CreateIfAbsent([NoAllocation EXCEPT !.kind = "detailed",
                                !.rev = 1, !.state = "Reserved", !.policy = p],
                             q, e)
         \/ \E q, e :
              CreateIfAbsent([NoAllocation EXCEPT !.kind = "unknown",
                                !.rev = 1, !.state = "Deleted"], q, e)
<1>a. ASSUME NEW ok, NEW q, Check(ok, q) PROVE alloc' = alloc
  BY <1>a DEF Check, api
<1>b. ASSUME NEW o, NEW q, WriteOwnership(o, q) PROVE alloc' = alloc
  BY <1>b DEF WriteOwnership, InstallOwnership, Check, api
<1>c. ASSUME NEW s, NEW t, RemoveTree(s, t) PROVE alloc' = alloc
  BY Zenon, <1>a, <1>c DEF RemoveTree, api
<1>d. ASSUME NEW q, RestoreUnion(q)
      PROVE  alloc' = alloc \/ \E next, r : Update(next, r)
  BY Zenon, <1>a, <1>d DEF RestoreUnion, api
<1>e. ASSUME NEW t, NEW d, NEW q, Rename(t, d, q) PROVE alloc' = alloc
  BY <1>e DEF Rename, api
<1>1. CASE CreateStep
  <2>1. CASE PersistReservation \/ AdvanceCreating \/ AdvanceReady
    BY Zenon, <2>1 DEF PersistReservation, AdvanceCreating, AdvanceReady
  <2>2. CASE EnsureCreated \/ SyncLogicalDirectory \/ CreateOwnership
    BY Zenon, <1>a, <2>2 DEF EnsureCreated, SyncLogicalDirectory, CreateOwnership,
                      InstallOwnership, api
  <2>. QED  BY Zenon, <1>1, <2>1, <2>2 DEF CreateStep
<1>2. CASE PublishStep
  <2>1. CASE ReconcileFenceUnion
    <3>1. Check(FALSE, "unionO") \/ \E q : RestoreUnion(q)
      BY Zenon, <2>1 DEF ReconcileFenceUnion
    <3>2. CASE Check(FALSE, "unionO")
      BY Zenon, <1>a, <3>2
    <3>. QED  BY Zenon, <1>d, <3>1, <3>2
  <2>2. CASE PublishAllocation \/ ClearAllocation
    BY Zenon, <2>2 DEF PublishAllocation, ClearAllocation
  <2>3. CASE EnsureAttached \/ PublishOwnership \/ ClearOwnership
    BY Zenon, <1>a, <1>b, <2>3 DEF EnsureAttached, PublishOwnership, ClearOwnership,
                            api
  <2>. QED  BY Zenon, <1>2, <2>1, <2>2, <2>3 DEF PublishStep
<1>3. CASE DeleteStep
  <2>1. CASE ResolveMissing
    BY Zenon, <1>a, <2>1 DEF ResolveMissing
  <2>2. CASE ReconcileDeletePair
    <3>1. (\E ok, q : Check(ok, q)) \/ (\E o, q : WriteOwnership(o, q))
      BY Zenon, <2>2 DEF ReconcileDeletePair
    <3>. QED  BY Zenon, <1>a, <1>b, <3>1
  <2>3. CASE ReconcileDeleteFenceUnion
    <3>1. \E q : RestoreUnion(q)
      BY <2>3 DEF ReconcileDeleteFenceUnion
    <3>. QED  BY Zenon, <1>d, <3>1
  <2>4. CASE PrepareDelete \/ CompleteArchiveOrRetain \/ PersistRemoveStart
             \/ CompleteDeleted
    BY Zenon, <2>4 DEF PrepareDelete, CompleteArchiveOrRetain, PersistRemoveStart,
                CompleteDeleted
  <2>5. CASE MirrorPrepared \/ MirrorTerminal \/ MirrorRemoveStart
             \/ CompactOwnershipRecord
    BY Zenon, <1>b, <2>5 DEF MirrorPrepared, MirrorTerminal, MirrorRemoveStart,
                      CompactOwnershipRecord
  <2>6. CASE CheckAttachments \/ FinishDeletedPair \/ RemoveQuarantine
    BY Zenon, <1>a, <1>c, <2>6 DEF CheckAttachments, FinishDeletedPair,
                            RemoveQuarantine
  <2>7. CASE PrepareDisposition \/ SyncDisposition \/ SyncDeletedDirectory
    BY Zenon, <1>a, <1>e, <2>7 DEF PrepareDisposition, SyncDisposition,
                            SyncDeletedDirectory, api
  <2>. QED  BY Zenon, <1>3, <2>1, <2>2, <2>3, <2>4, <2>5, <2>6, <2>7 DEF DeleteStep
<1>4. CASE GCStep
  <2>1. CASE SubmitRequest \/ PrepareGC \/ PersistGCRemoveStart
             \/ CompactAllocation
    BY Zenon, <2>1 DEF SubmitRequest, PrepareGC, PersistGCRemoveStart,
                CompactAllocation
  <2>2. CASE FinishCollectedPair \/ ValidateMutationGates
             \/ RemoveGCQuarantine
    BY Zenon, <1>a, <1>c, <2>2 DEF FinishCollectedPair, ValidateMutationGates,
                            RemoveGCQuarantine
  <2>3. CASE ReconcileExecutePair
    <3>1. (\E ok, q : Check(ok, q)) \/ (\E o, q : WriteOwnership(o, q))
      BY Zenon, <2>3 DEF ReconcileExecutePair
    <3>. QED  BY Zenon, <1>a, <1>b, <3>1
  <2>4. CASE ReconcileExecuteFenceUnion
    <3>1. RestoreUnion("gcGates")
      BY <2>4 DEF ReconcileExecuteFenceUnion
    <3>. QED  BY Zenon, <1>d, <3>1
  <2>5. CASE MirrorGCPrepared \/ MirrorGCRemoveStart
    BY Zenon, <1>b, <2>5 DEF MirrorGCPrepared, MirrorGCRemoveStart
  <2>6. CASE PrepareQuarantine \/ SyncGCQuarantine
    BY Zenon, <1>a, <1>e, <2>6 DEF PrepareQuarantine, SyncGCQuarantine, api
  <2>. QED  BY Zenon, <1>4, <2>1, <2>2, <2>3, <2>4, <2>5, <2>6 DEF GCStep
<1>. QED  BY Zenon, <1>1, <1>2, <1>3, <1>4 DEF Step

\* Every change of the stored allocation replaces the record that was stored.
LEMMA NextReplaces ==
  ASSUME FenceSafety, [Next]_vars, alloc' # alloc
  PROVE  Replaces(alloc, alloc')
<1>0. TypeOK
  BY DEF FenceSafety
<1>1. CASE Step
  <2>1. ASSUME NEW next, NEW q, Update(next, q)
        PROVE  Replaces(alloc, alloc')
    <3>1. AllowedUpdate(op.a, next) /\ alloc.rev = op.a.rev /\ alloc' = next
      BY <2>1 DEF Update, CompareAndSwap, Check, api
    <3>2. op.a = alloc
      BY <3>1 DEF FenceSafety, SnapshotInv
    <3>. QED  BY <3>1, <3>2 DEF Replaces, AllowedUpdate
  <2>2. ASSUME NEW r, NEW q, NEW e, CreateIfAbsent(r, q, e),
               r.kind # "none", r.rev = 1, r.fences = {},
               r.state \in {"Reserved", "Deleted"}
        PROVE  Replaces(alloc, alloc')
    <3>1. alloc.kind = "none" /\ alloc' = r
      BY <2>2 DEF CreateIfAbsent, api
    <3>. QED  BY <2>2, <3>1 DEF Replaces
  <2>3. CASE \E p \in Policies : \E q, e :
              CreateIfAbsent([NoAllocation EXCEPT !.kind = "detailed",
                                !.rev = 1, !.state = "Reserved", !.policy = p],
                             q, e)
    <3>0. PICK p \in Policies : \E q, e :
              CreateIfAbsent([NoAllocation EXCEPT !.kind = "detailed",
                                !.rev = 1, !.state = "Reserved", !.policy = p],
                             q, e)
      BY Zenon, <2>3
    <3>1. PICK q, e :
              CreateIfAbsent([NoAllocation EXCEPT !.kind = "detailed",
                                !.rev = 1, !.state = "Reserved", !.policy = p],
                             q, e)
      BY <3>0
    <3>. DEFINE r == [NoAllocation EXCEPT !.kind = "detailed",
                        !.rev = 1, !.state = "Reserved", !.policy = p]
    <3>2. r.kind = "detailed" /\ r.rev = 1 /\ r.fences = {}
          /\ r.state = "Reserved"
      BY DEF NoAllocation
    <3>3. CreateIfAbsent(r, q, e)
      BY <3>1
    <3>. HIDE DEF r
    <3>. QED  BY <2>2, <3>2, <3>3
  <2>4. CASE \E q, e :
              CreateIfAbsent([NoAllocation EXCEPT !.kind = "unknown",
                                !.rev = 1, !.state = "Deleted"], q, e)
    <3>. DEFINE r == [NoAllocation EXCEPT !.kind = "unknown",
                        !.rev = 1, !.state = "Deleted"]
    <3>1. PICK q, e : CreateIfAbsent(r, q, e)
      BY <2>4
    <3>2. r.kind = "unknown" /\ r.rev = 1 /\ r.fences = {}
          /\ r.state = "Deleted"
      BY DEF NoAllocation
    <3>. HIDE DEF r
    <3>. QED  BY <2>2, <3>1, <3>2
  <2>. QED  BY Zenon, <1>0, <1>1, <2>1, <2>3, <2>4, StepWrites
<1>2. CASE Request
  BY Zenon, <1>2 DEF Request, BeginCreate, BeginDelete, BeginSubmit, BeginGC,
     BeginCompact, BeginPublish, BeginUnpublish, Begin, api
<1>3. CASE Controller
  BY Zenon, <1>3 DEF Controller, Restart, ListAllocations, BeginPass, ReturnToPass,
     ReturnToCaller, Begin, api
<1>4. CASE LandLate
  BY <1>4 DEF LandLate, FenceSafety, RecordInv
<1>5. CASE Environment /\ ~LandLate
  BY <1>5 DEF Environment, Abort, Crash, CreateAttachment, DeleteAttachment,
     ForceDeleteAttachment, AuthorizeMount, NodeUnstage, LoseNode,
     ReturnNode, StopNode, BootNode, SetVA, api
<1>. QED  BY <1>1, <1>2, <1>3, <1>4, <1>5 DEF Next, vars

\* Every change of the stored allocation is a permitted successor of the very
\* record it replaces (AllocationStore: compare-and-swap by resourceVersion
\* and RecordRevision), also when a lost write lands after a crash.
THEOREM WritesAreSuccessors == Spec => OnlySuccessors
<1>1. FenceSafety /\ [Next]_vars => [alloc' # alloc => Replaces(alloc, alloc')]_vars
  BY NextReplaces
<1>. QED  BY <1>1, FenceSafetyInvariant, PTL DEF Spec, OnlySuccessors
=============================================================================
