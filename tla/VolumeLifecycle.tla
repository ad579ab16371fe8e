--------------------------- MODULE VolumeLifecycle ---------------------------
(***************************************************************************)
(* The life of one logical volume under the controller: the allocation     *)
(* record (a Kubernetes ConfigMap written by compare-and-swap), the        *)
(* ownership record (a file on the parent filesystem), the directory tree, *)
(* and the handlers that move the three of them forward together:          *)
(*   pkg/driver/{create,publish,delete,gc,gc_request,compaction}.go        *)
(*   pkg/driver/reconcile.go and the cold start that runs it.              *)
(* Every handler holds the volume's keyed lock, so at most one (`op') is   *)
(* in flight; it is broken into one step per durable write, and a crash,   *)
(* an error or a lost API response may end it between any two of them.     *)
(***************************************************************************)
EXTENDS VolumeRecords

CONSTANTS
  SingleWriter, \* TRUE: access mode SINGLE_NODE_WRITER
  MaxRev,       \* bound: no fence is added at or above this revision
  MaxFaults     \* bound: crashes, handler errors and lost API responses

ASSUME BoundsAssumption ==
  /\ SingleWriter \in BOOLEAN
  /\ MaxRev \in Nat
  /\ MaxFaults \in Nat

VARIABLES
  alloc,   \* the stored allocation record
  late,    \* allocation writes sent, unanswered and still able to land
  own,     \* the ownership record
  data,    \* the path of the directory tree, with the ID embedded in it
  intact,  \* FALSE once a recursive removal has touched the tree
  unsynced,\* parent directories changed since their last SyncDir
  op,      \* the handler that holds the volume lock
  pass,    \* what the reconciliation pass decided from its List
  phase,   \* the controller process: down, starting or serving
  va,      \* the VolumeAttachment of each node
  node,    \* each node: ready, lost, or fenced (conclusively stopped)
  mounted, \* nodes on which the tree is mounted
  pv,      \* the PersistentVolume exists
  faults   \* faults so far

api  == <<alloc, late, faults>>
fs   == <<data, intact, unsynced>>
ctl  == <<phase, pass>>
env  == <<va, node, mounted, pv>>
vars == <<alloc, late, faults, own, data, intact, unsynced, op, phase, pass,
          va, node, mounted, pv>>

-----------------------------------------------------------------------------
Names == {"none", "create", "publish", "unpublish", "fences", "delete",
          "gc", "submit", "compact"}

PCs == {"idle", "ok", "fail",
        "reserve", "creating", "ensure", "mkdirSync", "createOwn", "ready",
        "unionA", "unionO", "attach", "pubA", "pubO", "clear", "clearA",
        "unknown", "pair", "inUse", "prepA", "prepO", "dispose",
        "disposeSync", "termA", "termO", "rmA", "rmO", "remove",
        "removeSync", "deletedA", "compactO", "finishDeleted", "submitA",
        "gcPair", "gcGates", "gcPrepA", "gcPrepO", "gcRmA", "gcRmO",
        "compactA"}

Handler ==
  [name : Names, pc : PCs, pass : BOOLEAN, n : MaybeNode, t : MaybeNode,
   tgt : SUBSET Nodes, a : Allocation]

Idle ==
  [name |-> "none", pc |-> "idle", pass |-> FALSE, n |-> NoNode,
   t |-> NoNode, tgt |-> {}, a |-> NoAllocation]

\* BuildStartupInventoryPlan for one volume: what a cold start accepts.
StartupInventory ==
  CASE alloc.kind = "none"     -> own.kind = "none" /\ ~pv
    [] alloc.kind = "unknown"  -> own.kind = "none" /\ ~pv
    [] alloc.kind = "compact"  -> CompactPair(alloc, own) /\ ~pv
    [] alloc.kind = "detailed" -> /\ alloc.state \in PreReady => ~pv
                                  /\ LifecyclePair(alloc, own)

-----------------------------------------------------------------------------
(* Steps of a handler. Each one is guarded by the handler's pc and performs *)
(* at most one durable write.                                              *)

Goto(pc) == op' = [op EXCEPT !.pc = pc]

\* A check that reads and writes nothing durable.
Check(ok, pc) ==
  /\ Goto(IF ok THEN pc ELSE "fail")
  /\ UNCHANGED <<api, own, fs>>

\* CreateOwnership installs the first record.
InstallOwnership(o, pc) ==
  /\ own' = o
  /\ Goto(pc)
  /\ UNCHANGED <<api, fs>>

\* UpdateDetailed and Compact, or no write if the record is already so.
WriteOwnership(o, pc) ==
  IF o = own \/ AllowedOwnershipUpdate(own, o) THEN InstallOwnership(o, pc)
  ELSE Check(FALSE, pc)

\* Fault seeded for a mutant: a lost answer is taken for success.
CASLostIsApplied(next, pc) ==
  /\ UNCHANGED <<own, fs>>
  /\ \/ /\ alloc.rev = op.a.rev
        /\ alloc' = next
        /\ op' = [op EXCEPT !.a = next, !.pc = pc]
        /\ UNCHANGED <<late, faults>>
     \/ /\ faults < MaxFaults
        /\ late' = late \cup {next}
        /\ faults' = faults + 1
        /\ op' = [op EXCEPT !.a = next, !.pc = pc]
        /\ UNCHANGED alloc

\* Fault seeded for a mutant: the write ignores the resourceVersion.
CASUnconditional(next, pc) ==
  /\ UNCHANGED <<own, fs>>
  /\ \/ /\ alloc' = next
        /\ op' = [op EXCEPT !.a = next, !.pc = pc]
        /\ UNCHANGED <<late, faults>>
     \/ /\ faults < MaxFaults
        /\ late' = late \cup {next}
        /\ faults' = faults + 1
        /\ Goto("fail")
        /\ UNCHANGED alloc

\* One compare-and-swap at the API server against the version in op.a. It is
\* applied, or refused because the version moved, or its answer is lost and
\* it stays in flight while the handler gives up.
CompareAndSwap(next, pc) ==
  /\ UNCHANGED <<own, fs>>
  /\ \/ /\ alloc.rev = op.a.rev
        /\ alloc' = next
        /\ op' = [op EXCEPT !.a = next, !.pc = pc]
        /\ UNCHANGED <<late, faults>>
     \/ /\ alloc.rev # op.a.rev
        /\ Goto("fail")
        /\ UNCHANGED api
     \/ /\ faults < MaxFaults
        /\ late' = late \cup {next}
        /\ faults' = faults + 1
        /\ Goto("fail")
        /\ UNCHANGED alloc

\* AllocationStore.Update
Update(next, pc) ==
  IF AllowedUpdate(op.a, next) THEN CompareAndSwap(next, pc)
  ELSE Check(FALSE, pc)

\* The record that a handler writes next: a clone at the next revision.
Successor == [op.a EXCEPT !.rev = @ + 1]

\* Fault seeded for a mutant: a tombstone does not count as existing.
CreateOverTombstone(record, created, exists) ==
  /\ UNCHANGED <<own, fs>>
  /\ \/ /\ alloc.kind # "detailed"
        /\ alloc' = record
        /\ op' = [op EXCEPT !.a = record, !.pc = created]
        /\ UNCHANGED <<late, faults>>
     \/ /\ faults < MaxFaults
        /\ late' = late \cup {record}
        /\ faults' = faults + 1
        /\ Goto("fail")
        /\ UNCHANGED alloc

\* AllocationStore.Create, and the Get that resolves AlreadyExists: the
\* handler goes on with whatever record is stored. An unanswered POST stays
\* in flight and the handler fails unresolved.
CreateIfAbsent(record, created, exists) ==
  /\ UNCHANGED <<own, fs>>
  /\ \/ /\ alloc.kind = "none"
        /\ alloc' = record
        /\ op' = [op EXCEPT !.a = record, !.pc = created]
        /\ UNCHANGED <<late, faults>>
     \/ /\ alloc.kind # "none"
        /\ op' = [op EXCEPT !.a = alloc, !.pc = exists]
        /\ UNCHANGED api
     \/ /\ faults < MaxFaults
        /\ late' = late \cup {record}
        /\ faults' = faults + 1
        /\ Goto("fail")
        /\ UNCHANGED alloc

\* A handler takes the volume lock and reads the allocation.
Begin(name, pc, n, byPass) ==
  /\ op = Idle
  /\ op' = [Idle EXCEPT !.name = name, !.pc = pc, !.n = n,
                        !.pass = byPass, !.a = alloc]
  /\ UNCHANGED <<api, own, fs, ctl, env>>

Serving == phase = "serving"

-----------------------------------------------------------------------------
(* CreateVolume: create.go, create_filesystem.go.                          *)

\* resume and resumeStoredCreation: where a stored record takes over.
ResumeCreation(a) ==
  CASE a.kind = "detailed" /\ a.state = "Reserved"          -> "creating"
    [] a.kind = "detailed" /\ a.state = "CreatingDirectory" -> "ensure"
    [] a.kind = "detailed" /\ a.state = "Ready"             -> "ok"
    [] OTHER                                                -> "fail"

BeginCreate ==
  /\ Serving
  /\ LET pc == IF alloc.kind = "none" THEN "reserve" ELSE ResumeCreation(alloc)
     IN pc # "fail" /\ Begin("create", pc, NoNode, FALSE)

\* newReservedRecord, persistReservation. The pool's reservation journal pins
\* the exact record, so a retry of an unresolved POST sends the same one.
PersistReservation ==
  /\ op.pc = "reserve"
  /\ \E p \in Policies :
       /\ \A w \in late : w.kind = "detailed" => w.policy = p
       /\ CreateIfAbsent([NoAllocation EXCEPT !.kind = "detailed", !.rev = 1,
                           !.state = "Reserved", !.policy = p],
                         "creating", ResumeCreation(alloc))

AdvanceCreating ==
  /\ op.pc = "creating"
  /\ Update([Successor EXCEPT !.state = "CreatingDirectory"], "ensure")

\* EnsureCreated: existing ownership is only verified; without it the
\* directory is created, or repaired if an earlier attempt left it.
EnsureCreated ==
  /\ op.pc = "ensure"
  /\ IF own.kind # "none"
     THEN Check(DetailedPair(op.a, own, "Ready") /\ data = SourcePath, "ready")
     ELSE IF data \notin {Absent, SourcePath} THEN Check(FALSE, "ready")
     ELSE /\ data' = SourcePath
          /\ unsynced' = unsynced \cup {"base"}
          /\ Goto("mkdirSync")
          /\ UNCHANGED <<api, own, intact>>

SyncLogicalDirectory ==
  /\ op.pc = "mkdirSync"
  /\ unsynced' = unsynced \ {"base"}
  /\ Goto("createOwn")
  /\ UNCHANGED <<api, own, data, intact>>

\* CreateOwnership(ownershipFromCreatingAllocation(allocation))
CreateOwnership ==
  /\ op.pc = "createOwn"
  /\ InstallOwnership([NoOwnership EXCEPT !.kind = "detailed",
                        !.state = "Ready", !.fences = op.a.fences,
                        !.policy = op.a.policy], "ready")

AdvanceReady ==
  /\ op.pc = "ready"
  /\ Update([Successor EXCEPT !.state = "Ready"], "ok")

-----------------------------------------------------------------------------
(* ControllerPublishVolume and ControllerUnpublishVolume: publish.go.      *)

Union == op.a.fences \cup own.fences

\* Unpublish's targets: the named node if it is fenced, else every fence.
UnpublishTargets ==
  IF op.n = NoNode THEN op.a.fences ELSE op.a.fences \cap {op.n}

\* First the allocation is raised to the union of both fence sets, then the
\* ownership record; only then does the handler go on.
RestoreUnion(after) ==
  \/ /\ op.pc = "unionA"
     /\ IF Union = op.a.fences THEN Check(TRUE, "unionO")
        ELSE Update([Successor EXCEPT !.fences = Union], "unionO")
  \/ /\ op.pc = "unionO"
     /\ own' = [own EXCEPT !.fences = op.a.fences]
     /\ op' = [op EXCEPT !.pc = after,
                         !.tgt = IF op.name = "unpublish"
                                 THEN UnpublishTargets ELSE {}]
     /\ UNCHANGED <<api, fs>>

\* Fault seeded for a mutant: the handler goes on without the union.
NoFenceUnion ==
  /\ op.name \in {"publish", "unpublish", "fences"}
  /\ op.pc = "unionA"
  /\ op' = [op EXCEPT !.pc = CASE op.name = "publish" -> "attach"
                               [] op.name = "fences"  -> "ok"
                               [] OTHER -> IF UnpublishTargets = {} THEN "ok"
                                           ELSE "clear",
                      !.tgt = UnpublishTargets]
  /\ UNCHANGED <<api, own, fs>>

\* reconcileFenceUnion: refuses a pair whose states differ.
ReconcileFenceUnion ==
  /\ op.name \in {"publish", "unpublish", "fences"}
  /\ op.pc \in {"unionA", "unionO"}
  /\ IF ~IdentityPair(op.a, own, op.a.state) THEN Check(FALSE, "unionO")
     ELSE RestoreUnion(CASE op.name = "publish" -> "attach"
                         [] op.name = "fences"  -> "ok"
                         [] OTHER -> IF UnpublishTargets = {} THEN "ok"
                                     ELSE "clear")

BeginPublish(n) ==
  /\ Serving
  /\ va[n] \in {"attaching", "attached"}
  /\ alloc.kind = "detailed" /\ alloc.state = "Ready"
  /\ alloc.rev < MaxRev
  /\ Begin("publish", "unionA", n, FALSE)

\* The SINGLE_NODE_WRITER conflict, EnsureAttached, and the early return of
\* an already published node.
EnsureAttached ==
  /\ op.pc = "attach"
  /\ Check(SingleWriter => op.a.fences \subseteq {op.n},
           IF op.n \in op.a.fences THEN "ok" ELSE "pubA")

PublishAllocation ==
  /\ op.pc = "pubA"
  /\ Update([Successor EXCEPT !.fences = @ \cup {op.n}], "pubO")

PublishOwnership ==
  /\ op.pc = "pubO"
  /\ WriteOwnership([own EXCEPT !.fences = op.a.fences], "ok")

\* The orchestrator calls Unpublish for a VolumeAttachment being deleted, or
\* for all nodes when none is in use.
BeginUnpublish(n) ==
  /\ Serving
  /\ IF n = NoNode THEN \A m \in Nodes : va[m] # "attached"
     ELSE va[n] = "detaching"
  /\ Begin("unpublish",
           IF alloc.kind # "detailed" \/ alloc.state \in PreReady
           THEN "ok" ELSE "unionA", n, FALSE)

\* FenceResolver.SafeToClear: a Ready registered node on the normal detach
\* path, or an instance that is conclusively stopped.
SafeToClear(n) == node[n] \in {"ready", "stopped"}

\* One turn of the loop over targets: ownership first ...
ClearOwnership ==
  /\ op.pc = "clear"
  /\ \E t \in op.tgt :
       IF ~SafeToClear(t) THEN Check(FALSE, "clearA")
       ELSE /\ own' = [own EXCEPT !.fences = op.a.fences \ {t}]
            /\ op' = [op EXCEPT !.pc = "clearA", !.t = t, !.tgt = @ \ {t}]
            /\ UNCHANGED <<api, fs>>

\* ... then the allocation.
ClearAllocation ==
  /\ op.pc = "clearA"
  /\ Update([Successor EXCEPT !.fences = @ \ {op.t}],
            IF op.tgt = {} THEN "ok" ELSE "clear")

-----------------------------------------------------------------------------
(* DeleteVolume: delete.go, delete_filesystem.go.                          *)

\* Delete and deleteDetailed: where a stored record leads.
ResumeDeletion(a) ==
  CASE a.kind # "detailed"    -> "ok"
    [] a.kind = "detailed" /\ a.state = "Deleted" -> "finishDeleted"
    [] OTHER                  -> "pair"

BeginDelete ==
  /\ Serving
  /\ Begin("delete", IF alloc.kind = "none" THEN "unknown"
                     ELSE ResumeDeletion(alloc), NoNode, FALSE)

\* resolveMissing: with neither ownership nor PV the absence is conclusive
\* and is recorded as a deletedUnknown tombstone.
ResolveMissing ==
  /\ op.pc = "unknown"
  /\ IF own.kind # "none" \/ pv THEN Check(FALSE, "ok")
     ELSE CreateIfAbsent([NoAllocation EXCEPT !.kind = "unknown", !.rev = 1,
                            !.state = "Deleted"], "ok", ResumeDeletion(alloc))

\* mirrorDeleteLifecycle
MirrorDelete(o, a) ==
  [o EXCEPT !.fences = a.fences, !.state = a.state, !.del = a.del, !.rm = a.rm]

\* reconcileDeletePair: the exact pair, or the predecessor on the ownership
\* side, which is brought up to the allocation.
ReconcileDeletePair ==
  /\ op.pc = "pair"
  /\ LET a == op.a IN
     CASE a.state = "Ready" ->
            Check(DetailedPair(a, own, "Ready"), "inUse")
       [] a.state = "Deleting" /\ IdentityPair(a, own, "Ready") ->
            WriteOwnership(MirrorDelete(own, a), "inUse")
       [] a.state = "Deleting" /\ own.state = "Deleting"
          /\ DeleteProgressPair(a, own) ->
            WriteOwnership(IF a.rm # NoID /\ own.rm = NoID
                           THEN MirrorDelete(own, a) ELSE own, "inUse")
       [] a.state \in Kept /\ own.state = "Deleting"
          /\ DeleteProgressPair(a, own) ->
            WriteOwnership(MirrorDelete(own, a), "ok")
       [] a.state \in Kept /\ own.state # "Deleting" ->
            Check(DetailedPair(a, own, a.state)
                  /\ DeleteTerminalEvidence(a, own), "ok")
       [] OTHER -> Check(FALSE, "inUse")

HasAttachment == \E n \in Nodes : va[n] # "none"

CheckAttachments ==
  /\ op.pc = "inUse"
  /\ Check(~HasAttachment, "unionA")

\* Fault seeded for a mutant: remaining fences do not block the deletion.
DeleteIgnoresFences ==
  /\ op.name = "delete"
  /\ RestoreUnion(IF op.a.state = "Ready" THEN "prepA" ELSE "dispose")

\* reconcileDeleteFenceUnion, then ErrPublishedFenceBlocked.
ReconcileDeleteFenceUnion ==
  /\ op.name = "delete"
  /\ RestoreUnion(CASE op.a.fences # {}       -> "fail"
                    [] op.a.fences = {} /\ op.a.state = "Ready" -> "prepA"
                    [] OTHER                  -> "dispose")

\* prepareDelete
PrepareDelete ==
  /\ op.pc = "prepA"
  /\ \E id \in IDs :
       Update([Successor EXCEPT !.state = "Deleting", !.del = id], "prepO")

\* Fault seeded for a mutant: the ownership record is left behind.
NoMirrorPrepared ==
  /\ op.pc = "prepO"
  /\ Check(TRUE, "dispose")

MirrorPrepared ==
  /\ op.pc = "prepO"
  /\ WriteOwnership(MirrorDelete(own, op.a), "dispose")

\* The next step once the tree is at its target.
AfterDisposition(a) ==
  CASE a.policy # "delete"                   -> "termA"
    [] a.policy = "delete" /\ a.rm = NoID    -> "rmA"
    [] OTHER                                 -> "remove"

\* renameToManagedDirectory: both parents change, and are synced next.
Rename(target, dirs, pc) ==
  /\ data' = target
  /\ unsynced' = unsynced \cup dirs
  /\ Goto(pc)
  /\ UNCHANGED <<api, own, intact>>

\* PrepareDisposition: rename the source, or accept a target that an earlier
\* attempt left, or an absence that remove-start evidence explains.
PrepareDisposition ==
  /\ op.pc = "dispose" /\ op.name = "delete"
  /\ LET target == DeleteTarget(op.a)
         done   == AfterDisposition(op.a)
     IN  IF op.a.policy = "retain" THEN Check(data = SourcePath, done)
         ELSE IF data = SourcePath
              THEN Rename(target, {"base", IF op.a.policy = "archive"
                                           THEN "archived" ELSE "deleted"},
                          "disposeSync")
              ELSE Check(data = target \/ op.a.rm # NoID, done)

SyncDisposition ==
  /\ op.pc = "disposeSync" /\ op.name = "delete"
  /\ unsynced' = unsynced \ {"base", IF op.a.policy = "archive"
                                     THEN "archived" ELSE "deleted"}
  /\ Goto(AfterDisposition(op.a))
  /\ UNCHANGED <<api, own, data, intact>>

\* completeArchiveOrRetain
CompleteArchiveOrRetain ==
  /\ op.pc = "termA"
  /\ Update([Successor EXCEPT !.state = GCExpectedState(op.a)], "termO")

MirrorTerminal ==
  /\ op.pc = "termO"
  /\ WriteOwnership(MirrorDelete(own, op.a), "ok")

\* completePhysicalDelete: remove-start evidence on both sides ...
PersistRemoveStart ==
  /\ op.pc = "rmA"
  /\ \E id \in IDs : Update([Successor EXCEPT !.rm = id], "rmO")

MirrorRemoveStart ==
  /\ op.pc = "rmO"
  /\ WriteOwnership(MirrorDelete(own, op.a), "remove")

\* Fault seeded for a mutant: a tree removed before a crash is an error.
RemoveTreeOnce(source, target) ==
  CASE data = target /\ intact ->
         /\ intact' = FALSE
         /\ UNCHANGED <<api, own, data, unsynced, op>>
    [] data = target /\ ~intact ->
         /\ data' = Absent
         /\ unsynced' = unsynced \cup {"deleted"}
         /\ Goto("removeSync")
         /\ UNCHANGED <<api, own, intact>>
    [] OTHER -> Check(FALSE, "removeSync")

\* RemoveTreeNoFollow takes many system calls: it may be interrupted after
\* the first, and an interrupted tree is still a present target.
RemoveTree(source, target) ==
  CASE data = source -> Check(FALSE, "removeSync")
    [] data = target /\ intact ->
         /\ intact' = FALSE
         /\ UNCHANGED <<api, own, data, unsynced, op>>
    [] data = target /\ ~intact ->
         /\ data' = Absent
         /\ unsynced' = unsynced \cup {"deleted"}
         /\ Goto("removeSync")
         /\ UNCHANGED <<api, own, intact>>
    [] OTHER -> Check(TRUE, "removeSync")

\* ... then the removal itself, RemoveQuarantine ...
RemoveQuarantine ==
  /\ op.pc = "remove" /\ op.name = "delete"
  /\ IF op.a.rm = NoID \/ own.rm # op.a.rm THEN Check(FALSE, "removeSync")
     ELSE RemoveTree(SourcePath, DeleteTarget(op.a))

\* SyncDir(.deleted), after the removal or after an observed absence.
SyncDeletedDirectory ==
  /\ op.pc = "removeSync"
  /\ unsynced' = unsynced \ {"deleted"}
  /\ Goto("deletedA")
  /\ UNCHANGED <<api, own, data, intact>>

\* ... and the terminal record, which stops reserving capacity.
CompleteDeleted ==
  /\ op.pc = "deletedA"
  /\ Update([Successor EXCEPT !.state = "Deleted"], "compactO")

CompactOwnershipRecord ==
  /\ op.pc = "compactO"
  /\ WriteOwnership(CompactOwnership(op.a), "ok")

\* finishDeletedPair
FinishDeletedPair ==
  /\ op.pc = "finishDeleted" /\ op.name = "delete"
  /\ IF own.kind = "compact" THEN Check(CompactPair(op.a, own), "ok")
     ELSE Check(/\ DeleteProgressPair(op.a, own)
                /\ PhysicalDeletePredecessor(op.a, own), "compactO")

-----------------------------------------------------------------------------
(* Garbage collection of archived and retained data: gc_request.go, gc.go, *)
(* gc_filesystem.go; and compaction of old tombstones: compaction.go.      *)

\* Submit: accepted once; only a dry run may be replaced, by an execute.
SubmitAllowed(mode) ==
  /\ alloc.kind = "detailed" /\ alloc.state \in Kept
  /\ \/ alloc.req = NoID
     \/ alloc.mode = "dry-run" /\ mode = "execute" /\ alloc.gc = NoID

BeginSubmit ==
  /\ Serving
  /\ SubmitAllowed("execute")
  /\ Begin("submit", "submitA", NoNode, FALSE)

SubmitRequest ==
  /\ op.pc = "submitA"
  /\ \E id \in IDs, mode \in {"dry-run", "execute"} :
       /\ op.a.req # NoID => mode = "execute"
       /\ Update([Successor EXCEPT !.req = id, !.mode = mode], "ok")

\* GCController.Reconcile up to its pair checks. A dry run writes nothing.
ResumeGC(a) ==
  CASE a.kind # "detailed" \/ a.req = NoID -> "fail"
    [] a.kind = "detailed" /\ a.req # NoID /\ a.state = "Deleted" ->
         "finishDeleted"
    [] OTHER -> IF a.mode = "execute" THEN "gcPair" ELSE "fail"

BeginGC ==
  /\ Serving
  /\ ResumeGC(alloc) # "fail"
  /\ Begin("gc", ResumeGC(alloc), NoNode, FALSE)

FinishCollectedPair ==
  /\ op.pc = "finishDeleted" /\ op.name = "gc"
  /\ IF own.kind = "compact"
     THEN Check(op.a.gc # NoID /\ CompactPair(op.a, own), "ok")
     ELSE Check(op.a.gc # NoID /\ GCOwnershipPredecessor(op.a, own),
                "compactO")

\* mirrorGCLifecycle
MirrorGC(o, a) ==
  [o EXCEPT !.fences = a.fences, !.req = a.req, !.mode = a.mode,
            !.gc = a.gc, !.gcrm = a.gcrm]

\* reconcileExecutePair
ReconcileExecutePair ==
  /\ op.pc = "gcPair"
  /\ LET a == op.a
         behind == own.gc = NoID \/ (a.gcrm # NoID /\ own.gcrm = NoID)
     IN  IF a.gc = NoID
         THEN Check(a.state \in Kept /\ InitialGCPair(a, own), "unionA")
         ELSE IF a.state \in Kept /\ GCProgressPair(a, own)
         THEN WriteOwnership(IF behind THEN MirrorGC(own, a) ELSE own,
                             "unionA")
         ELSE Check(FALSE, "unionA")

ReconcileExecuteFenceUnion ==
  /\ op.name = "gc"
  /\ RestoreUnion("gcGates")

\* validateMutationGates
ValidateMutationGates ==
  /\ op.pc = "gcGates"
  /\ Check(~HasAttachment /\ ~pv /\ op.a.fences = {},
           IF op.a.gc = NoID THEN "gcPrepA" ELSE "dispose")

\* prepareGC
PrepareGC ==
  /\ op.pc = "gcPrepA"
  /\ \E id \in IDs : Update([Successor EXCEPT !.gc = id], "gcPrepO")

MirrorGCPrepared ==
  /\ op.pc = "gcPrepO"
  /\ WriteOwnership(MirrorGC(own, op.a), "dispose")

AfterGCQuarantine(a) == IF a.gcrm = NoID THEN "gcRmA" ELSE "remove"

\* The parent directories of a GC rename.
GCDirs(a) == {IF a.policy = "archive" THEN "archived" ELSE "base", "deleted"}

\* PrepareQuarantine
PrepareQuarantine ==
  /\ op.pc = "dispose" /\ op.name = "gc"
  /\ IF data = TerminalDataPath(op.a)
     THEN Rename(GCQuarantinePath(op.a), GCDirs(op.a), "disposeSync")
     ELSE Check(data = GCQuarantinePath(op.a) \/ op.a.gcrm # NoID,
                AfterGCQuarantine(op.a))

SyncGCQuarantine ==
  /\ op.pc = "disposeSync" /\ op.name = "gc"
  /\ unsynced' = unsynced \ GCDirs(op.a)
  /\ Goto(AfterGCQuarantine(op.a))
  /\ UNCHANGED <<api, own, data, intact>>

\* persistGCRemoveStart
PersistGCRemoveStart ==
  /\ op.pc = "gcRmA"
  /\ \E id \in IDs : Update([Successor EXCEPT !.gcrm = id], "gcRmO")

MirrorGCRemoveStart ==
  /\ op.pc = "gcRmO"
  /\ WriteOwnership(MirrorGC(own, op.a), "remove")

RemoveGCQuarantine ==
  /\ op.pc = "remove" /\ op.name = "gc"
  /\ IF op.a.gcrm = NoID \/ own.gcrm # op.a.gcrm
     THEN Check(FALSE, "removeSync")
     ELSE RemoveTree(TerminalDataPath(op.a), GCQuarantinePath(op.a))

\* AllocationCompactor.Compact, once the retention period has passed.
BeginCompact ==
  /\ Serving
  /\ alloc.kind = "detailed" /\ alloc.state = "Deleted"
  /\ CompactPair(alloc, own)
  /\ Begin("compact", "compactA", NoNode, FALSE)

CompactAllocation ==
  /\ op.pc = "compactA"
  /\ Update([CompactProjection(op.a) EXCEPT !.rev = @ + 1], "ok")

-----------------------------------------------------------------------------
(* Cold start and the reconciliation pass: reconcile.go, startup.go,       *)
(* controller_startup_order.go, controller_maintenance.go.                 *)

\* Fault seeded for a mutant: only CreatingDirectory counts as a creation.
DispatchNotReserved(a) ==
  CASE a.kind # "detailed" \/ a.state = "Reserved" -> "none"
    [] OTHER ->
       CASE a.state = "CreatingDirectory" -> "creation"
         [] a.state = "Ready"    -> "fences"
         [] a.state \in Kept     -> "terminal"
         [] OTHER -> "deletion"

\* Fault seeded for a mutant: a Ready volume needs no repair.
DispatchNotReady(a) ==
  CASE a.kind # "detailed" \/ a.state = "Ready" -> "none"
    [] OTHER ->
       CASE a.state \in PreReady -> "creation"
         [] a.state \in Kept     -> "terminal"
         [] OTHER -> "deletion"

\* reconcileDetailed: the state machine that owns the listed record.
\* "terminal" runs the fence repair and then the deletion machine.
Dispatch(a) ==
  CASE a.kind # "detailed" -> "none"
    [] OTHER ->
       CASE a.state \in PreReady -> "creation"
         [] a.state = "Ready"    -> "fences"
         [] a.state = "Deleting" -> "deletion"
         [] a.state \in Kept ->
              IF a.mode = "execute" \/ a.gc # NoID THEN "gc" ELSE "terminal"
         [] a.state = "Deleted" -> IF a.gc # NoID THEN "gc" ELSE "deletion"

Passes == {"none", "creation", "fences", "deletion", "gc", "terminal"}

\* A new controller process: it may act only on an inventory it accepts.
Restart ==
  /\ phase = "down"
  /\ StartupInventory
  /\ phase' = "starting"
  /\ UNCHANGED <<api, own, fs, op, pass, env>>

\* LifecycleCrashReconciler.Reconcile lists without the volume lock; what it
\* decides here is carried out later, against a record read afresh.
ListAllocations ==
  /\ phase \in {"starting", "serving"}
  /\ pass = "none"
  /\ phase = "serving" => Dispatch(alloc) # "none"
  /\ pass' = Dispatch(alloc)
  /\ phase' = IF pass' = "none" THEN "serving" ELSE phase
  /\ UNCHANGED <<api, own, fs, op, env>>

\* ReconcileExistingCreation, ReconcilePublishedFences,
\* ReconcileExistingDeletion and GCController.Reconcile on a fresh read.
PassEntry ==
  LET a == alloc IN
  CASE a.kind # "detailed" ->
         IF pass = "gc" /\ a.gc # NoID THEN "ok" ELSE "fail"
    [] OTHER ->
       CASE pass = "creation" ->
              IF a.state \in PreReady \cup {"Ready"} THEN ResumeCreation(a)
              ELSE "fail"
         [] pass \in {"fences", "terminal"} ->
              IF a.state \in Kept \cup {"Ready"} THEN "unionA" ELSE "fail"
         [] pass = "deletion" ->
              IF \/ a.state \in Kept \cup {"Deleting"}
                 \/ a.state = "Deleted" /\ a.gc = NoID
              THEN ResumeDeletion(a) ELSE "fail"
         [] OTHER -> ResumeGC(a)

BeginPass ==
  /\ pass # "none"
  /\ Begin(CASE pass = "creation"             -> "create"
             [] pass \in {"fences", "terminal"} -> "fences"
             [] pass = "deletion"             -> "delete"
             [] OTHER                         -> "gc",
           PassEntry, NoNode, TRUE)

\* A handler called by the pass returns: an error ends the pass, and a
\* starting controller exits on it.
ReturnToPass ==
  /\ op.pass
  /\ op.pc \in {"ok", "fail"}
  /\ op' = Idle
  /\ pass' = IF op.pc = "ok" /\ pass = "terminal" THEN "deletion" ELSE "none"
  /\ phase' = CASE phase # "starting" \/ pass' # "none" -> phase
                [] OTHER -> IF op.pc = "ok" THEN "serving" ELSE "down"
  /\ UNCHANGED <<api, own, fs, env>>

\* A request's answer reaches its caller: the provisioner creates or deletes
\* the PersistentVolume, the attacher settles the VolumeAttachment.
ReturnToCaller ==
  /\ ~op.pass
  /\ op.pc \in {"ok", "fail"}
  /\ op' = Idle
  /\ pv' = CASE op.pc = "ok" /\ op.name = "create" -> TRUE
             [] op.pc = "ok" /\ op.name = "delete" -> FALSE
             [] OTHER -> pv
  /\ va' = [n \in Nodes |->
              CASE /\ op.pc = "ok" /\ op.name = "publish" /\ op.n = n
                   /\ va[n] = "attaching" -> "attached"
                [] /\ op.pc = "ok" /\ op.name = "unpublish" /\ op.n = n
                   /\ va[n] = "detaching" -> "none"
                [] OTHER -> va[n]]
  /\ UNCHANGED <<api, own, fs, ctl, node, mounted>>

-----------------------------------------------------------------------------
(* Faults and the environment.                                             *)

\* Any call of the running handler returns an error, or its context ends.
Abort ==
  /\ op.pc \notin {"idle", "fail"}
  /\ faults < MaxFaults
  /\ faults' = faults + 1
  /\ Goto("fail")
  /\ UNCHANGED <<alloc, late, own, fs, ctl, env>>

\* The controller process dies. Its unanswered API writes stay in flight.
Crash ==
  /\ phase # "down"
  /\ faults < MaxFaults
  /\ faults' = faults + 1
  /\ op' = Idle
  /\ pass' = "none"
  /\ phase' = "down"
  /\ UNCHANGED <<alloc, late, own, fs, env>>

\* An unanswered write reaches the API server: the compare-and-swap applies
\* it only on top of the version it was computed from.
LandLate ==
  \E w \in late :
    /\ late' = late \ {w}
    /\ alloc' = IF w.rev = alloc.rev + 1 THEN w ELSE alloc
    /\ UNCHANGED <<faults, own, fs, op, ctl, env>>

SetVA(n, value) ==
  /\ va' = [va EXCEPT ![n] = value]
  /\ UNCHANGED <<api, own, fs, op, ctl, node, mounted, pv>>

\* The attach/detach controller. It detaches a node that still has the
\* volume mounted only when it gives the node up as unreachable.
CreateAttachment(n) ==
  /\ va[n] = "none" /\ pv /\ node[n] = "ready"
  /\ SetVA(n, "attaching")

DeleteAttachment(n) ==
  /\ va[n] \in {"attaching", "attached"}
  /\ n \notin mounted \/ node[n] # "ready"
  /\ SetVA(n, "detaching")

\* The VolumeAttachment of an unreachable node is removed by force, without
\* an Unpublish.
ForceDeleteAttachment(n) ==
  /\ va[n] = "detaching" /\ node[n] # "ready"
  /\ SetVA(n, "none")

\* NodeStageVolume: authorizeMount reads the ownership record only.
AuthorizeMount(n) ==
  /\ va[n] = "attached" /\ node[n] = "ready"
  /\ own.kind = "detailed" /\ own.state = "Ready" /\ n \in own.fences
  /\ data = SourcePath
  /\ mounted' = mounted \cup {n}
  /\ UNCHANGED <<api, own, fs, op, ctl, va, node, pv>>

NodeUnstage(n) ==
  /\ n \in mounted /\ node[n] = "ready"
  /\ mounted' = mounted \ {n}
  /\ UNCHANGED <<api, own, fs, op, ctl, va, node, pv>>

\* A node stops reporting, keeping what it has mounted.
LoseNode(n) ==
  /\ node[n] = "ready"
  /\ node' = [node EXCEPT ![n] = "lost"]
  /\ UNCHANGED <<api, own, fs, op, ctl, va, mounted, pv>>

\* A lost node reports again. The driver trusts the kubelet for one thing: a
\* node whose attachment was taken away meanwhile has dropped the mount by
\* the time it reports Ready.
ReturnNode(n) ==
  /\ node[n] = "lost"
  /\ node' = [node EXCEPT ![n] = "ready"]
  /\ mounted' = IF va[n] # "attached" THEN mounted \ {n}
                ELSE mounted
  /\ UNCHANGED <<api, own, fs, op, ctl, va, pv>>

\* The instance of a lost node is conclusively stopped.
StopNode(n) ==
  /\ node[n] = "lost"
  /\ node' = [node EXCEPT ![n] = "stopped"]
  /\ mounted' = mounted \ {n}
  /\ UNCHANGED <<api, own, fs, op, ctl, va, pv>>

\* A stopped instance boots again, with nothing mounted.
BootNode(n) ==
  /\ node[n] = "stopped"
  /\ node' = [node EXCEPT ![n] = "ready"]
  /\ UNCHANGED <<api, own, fs, op, ctl, va, mounted, pv>>

-----------------------------------------------------------------------------
Init ==
  /\ alloc = NoAllocation /\ late = {} /\ faults = 0
  /\ own = NoOwnership
  /\ data = Absent /\ intact = TRUE /\ unsynced = {}
  /\ op = Idle
  /\ phase = "serving" /\ pass = "none"
  /\ va = [n \in Nodes |-> "none"]
  /\ node = [n \in Nodes |-> "ready"]
  /\ mounted = {}
  /\ pv = FALSE

CreateStep ==
  \/ PersistReservation \/ AdvanceCreating \/ EnsureCreated
  \/ SyncLogicalDirectory \/ CreateOwnership \/ AdvanceReady

PublishStep ==
  \/ ReconcileFenceUnion \/ EnsureAttached \/ PublishAllocation
  \/ PublishOwnership \/ ClearOwnership \/ ClearAllocation

DeleteStep ==
  \/ ResolveMissing \/ ReconcileDeletePair \/ CheckAttachments
  \/ ReconcileDeleteFenceUnion \/ PrepareDelete \/ MirrorPrepared
  \/ PrepareDisposition \/ SyncDisposition \/ CompleteArchiveOrRetain
  \/ MirrorTerminal \/ PersistRemoveStart \/ MirrorRemoveStart
  \/ RemoveQuarantine \/ SyncDeletedDirectory \/ CompleteDeleted
  \/ CompactOwnershipRecord \/ FinishDeletedPair

GCStep ==
  \/ SubmitRequest \/ FinishCollectedPair \/ ReconcileExecutePair
  \/ ReconcileExecuteFenceUnion \/ ValidateMutationGates \/ PrepareGC
  \/ MirrorGCPrepared \/ PrepareQuarantine \/ SyncGCQuarantine
  \/ PersistGCRemoveStart \/ MirrorGCRemoveStart \/ RemoveGCQuarantine
  \/ CompactAllocation

\* A handler's step leaves the process and the environment alone.
Step ==
  /\ CreateStep \/ PublishStep \/ DeleteStep \/ GCStep
  /\ UNCHANGED <<ctl, env>>

Request ==
  \/ BeginCreate \/ BeginDelete \/ BeginSubmit \/ BeginGC \/ BeginCompact
  \/ \E n \in Nodes : BeginPublish(n)
  \/ \E n \in MaybeNode : BeginUnpublish(n)

Controller == Restart \/ ListAllocations \/ BeginPass \/ ReturnToPass
              \/ ReturnToCaller

Environment ==
  \/ Abort \/ Crash \/ LandLate
  \/ \E n \in Nodes :
       \/ CreateAttachment(n) \/ DeleteAttachment(n)
       \/ ForceDeleteAttachment(n)
       \/ AuthorizeMount(n) \/ NodeUnstage(n)
       \/ LoseNode(n) \/ ReturnNode(n) \/ StopNode(n) \/ BootNode(n)

Next == Step \/ Request \/ Controller \/ Environment

Spec == Init /\ [][Next]_vars

\* A running handler keeps running, its answer is delivered, a stopped
\* process is restarted, the pass is repeated, and a pass that waits for the
\* volume lock gets it: the lock is a channel, whose waiters queue.
Fairness ==
  /\ WF_vars(Step)
  /\ WF_vars(ReturnToPass)
  /\ WF_vars(ReturnToCaller)
  /\ WF_vars(Restart)
  /\ WF_vars(ListAllocations)
  /\ SF_vars(BeginPass)

FairSpec == Spec /\ Fairness
==============================================================================
