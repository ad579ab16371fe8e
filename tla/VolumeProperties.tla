--------------------------- MODULE VolumeProperties ---------------------------
(***************************************************************************)
(* What the handlers of VolumeLifecycle promise together.                  *)
(***************************************************************************)
EXTENDS VolumeLifecycle

\* Every variable has its type: the records are well formed, and no handler
\* leaves its program.
TypeOK ==
  /\ alloc \in Allocation
  /\ late \subseteq Allocation
  /\ own \in Ownership
  /\ data \in Location /\ intact \in BOOLEAN /\ unsynced \subseteq Dirs
  /\ op \in Handler
  /\ pass \in Passes
  /\ phase \in {"down", "starting", "serving"}
  /\ va \in [Nodes -> {"none", "attaching", "attached", "detaching"}]
  /\ node \in [Nodes -> {"ready", "lost", "stopped"}]
  /\ mounted \subseteq Nodes
  /\ pv \in BOOLEAN
  /\ faults \in 0..MaxFaults

\* A mounted tree is never renamed, removed or scheduled for deletion: while
\* any node has the volume mounted, the allocation is Ready and the tree is
\* whole at its source path (delete.go's attachment and fence gates).
MountedDataStable ==
  mounted # {} =>
    alloc.state = "Ready" /\ data = SourcePath /\ intact

\* A node that a successful ControllerPublish serves stays authorised: until
\* its attachment is given up, the ownership record, the only one a node
\* reads, is Ready and fences the node (publish.go, node_authorizer.go).
PublishedStaysAuthorised ==
  \A n \in Nodes : va[n] = "attached" =>
    own.kind = "detailed" /\ own.state = "Ready" /\ n \in own.fences

\* A node with the volume mounted is fenced in one of the two records, so
\* that the union restored by every handler contains it (publish.go).
MountedFenced == mounted \subseteq alloc.fences \cup own.fences

\* SINGLE_NODE_WRITER: at most one node has the volume mounted, a lost node
\* that may still be writing included (publish.go, ErrSingleNodeConflict).
SingleNodeWriter == SingleWriter => \A m, n \in mounted : m = n

\* The recursive removal has touched the tree only under remove-start
\* evidence that both records carry (completePhysicalDelete, GC Reconcile).
RemovalAuthorised ==
  ~intact =>
    \/ alloc.state = "Deleted"
    \/ alloc.state = "Deleting" /\ alloc.rm # NoID /\ own.rm = alloc.rm
    \/ alloc.state \in Kept /\ alloc.gcrm # NoID /\ own.gcrm = alloc.gcrm

\* The tree is always where the allocation record says it may be: whatever
\* crashed, no directory is left behind under an operation ID that the record
\* does not carry, and only removal evidence explains its absence.
DataFindable ==
  alloc.kind \in {"detailed", "compact"} =>
    CASE alloc.state \in PreReady -> data \in {Absent, SourcePath}
      [] alloc.state = "Ready"    -> data = SourcePath
      [] alloc.state = "Deleting" ->
           \/ data \in {SourcePath, DeleteTarget(alloc)}
           \/ data = Absent /\ ~intact
      [] alloc.state \in Kept ->
           \/ data = TerminalDataPath(alloc)
           \/ alloc.gc # NoID /\ data = GCQuarantinePath(alloc)
           \/ data = Absent /\ ~intact
      [] OTHER -> data = Absent /\ ~intact

\* Capacity is reserved as long as there is data: an allocation that no
\* longer reserves (Deleted, or a tombstone) has no tree left anywhere.
CapacityCoversData ==
  data # Absent => alloc.kind = "detailed" /\ alloc.state # "Deleted"

\* No record advances past a directory change that was not synced: Ready
\* after the logical directory, Deleted after the removal from .deleted.
SyncedBeforeAdvance ==
  /\ alloc.state = "Ready" => "base" \notin unsynced
  /\ alloc.state = "Deleted" => "deleted" \notin unsynced

\* A crash at any moment leaves records that the next cold start accepts
\* (BuildStartupInventoryPlan). The one exception is a volume compacted
\* before its PersistentVolume was removed, which the compactor does not ask.
CrashesAreRecoverable ==
  StartupInventory \/ (alloc.kind = "compact" /\ pv)

\* Collection of archived or retained data never proceeds under a reference:
\* once a GC operation is recorded nothing names or uses the volume again.
CollectedUnreferenced ==
  alloc.gc # NoID => ~pv /\ ~HasAttachment /\ mounted = {}

\* The two records, the tree and the references to the volume agree at every
\* moment, a crash between any two writes included.
LifecycleSafety ==
  /\ RemovalAuthorised /\ DataFindable /\ CapacityCoversData
  /\ SyncedBeforeAdvance /\ CollectedUnreferenced

Rank(state) ==
  CASE state = "none" -> 0 [] state = "Reserved" -> 1
    [] state = "CreatingDirectory" -> 2 [] state = "Ready" -> 3
    [] state = "Deleting" -> 4 [] state \in Kept -> 5
    [] state = "Deleted" -> 6

\* "No recovery rule may move either record backward": neither lifecycle
\* state regresses, and operation IDs and evidence, once written to a
\* detailed record, keep their value.
NeverBackward ==
  [][/\ Rank(alloc.state) <= Rank(alloc'.state)
     /\ Rank(own.state) <= Rank(own'.state)
     /\ \A f \in {"del", "rm", "gc", "gcrm"} :
          /\ alloc[f] # NoID /\ alloc'.kind = "detailed" =>
               alloc'[f] = alloc[f]
          /\ own[f] # NoID /\ own'.kind = "detailed" => own'[f] = own[f]]_vars

-----------------------------------------------------------------------------
(* The contract of VolumeContract, and the mapping to it.                  *)

Stage ==
  CASE alloc.kind = "none"        -> "absent"
    [] alloc.state \in PreReady   -> "creating"
    [] alloc.state = "Ready"      -> "live"
    [] alloc.state = "Deleting"   -> "retired"
    [] alloc.state \in Kept       -> "kept"
    [] OTHER                      -> "gone"

Tree ==
  CASE data = Absent -> "none"
    [] data # Absent /\ intact -> "whole"
    [] OTHER -> "partial"

Contract == INSTANCE VolumeContract
              WITH stage <- Stage, tree <- Tree, users <- mounted

\* The handlers implement the contract: the allocation record, written by
\* compare-and-swap by handlers that may crash between any two writes, moves
\* through the stages in order, and mounts and removals obey them.
ImplementsContract == Contract!Spec

-----------------------------------------------------------------------------
(* Progress, under FairSpec.                                               *)

\* What a cold start cannot get past: a volume that is being deleted, or whose
\* collection was requested, and that is still referenced; one compacted while
\* its PersistentVolume existed; one archived or retained in the allocation only.
ColdStartRefuses ==
  \/ alloc.state = "Deleting" /\ HasAttachment
  \/ /\ alloc.mode = "execute" /\ alloc.gc = NoID
     /\ pv \/ HasAttachment \/ alloc.fences \cup own.fences # {}
  \/ alloc.kind = "compact" /\ pv
  \/ alloc.state \in Kept /\ own.state = "Deleting"

\* A crashed controller comes back: its cold start (inventory, then the
\* reconciliation pass) eventually succeeds from whatever the crash left,
\* the states of ColdStartRefuses excepted (reconcileControllerColdStart).
StartupCompletes == []<>(phase = "serving" \/ ColdStartRefuses)

\* A reserved volume becomes Ready without the provisioner's retry: the pass
\* resumes the creation from the stored record (ReconcileExistingCreation).
CreationResumes == alloc.state \in PreReady ~> alloc.state = "Ready"

\* A deletion that was recorded completes without the provisioner's retry,
\* unless an attachment appears (ReconcileExistingDeletion).
DeletionCompletes ==
  alloc.state = "Deleting" ~>
    alloc.state \in Kept \cup {"Deleted"} \/ HasAttachment

\* Fence sets that a crash left apart are brought together again
\* (ReconcilePublishedFences), as Delete on a Ready volume requires.
FencesConverge ==
  []<>(own.kind # "detailed" \/ alloc.fences = own.fences)

-----------------------------------------------------------------------------
(* What the documents and assertions of the repository say and the code    *)
(* does not do. Each of these is violated.                                 *)

\* docs/SPECIFICATION.md on the completion of an archive or retain: "advance
\* only the matching Deleting ownership predecessor". After a crash between
\* the two completion writes of completeArchiveOrRetain, the cold start is to
\* bring the ownership record up to the allocation.
TerminalLagResumes ==
  phase = "down" /\ alloc.state \in Kept /\ own.state = "Deleting"
    ~> own.state = alloc.state

\* docs/SPECIFICATION.md on renames into .archived: "sync both the source and
\* destination parent directories before recording rename completion".
ArchivedDurably ==
  alloc.state = "Archived" => unsynced \cap {"base", "archived"} = {}

\* docs/SPECIFICATION.md: "Unpublish and unstage remain idempotent in every
\* state". With no fault, Unpublish of a node that no record fences is an
\* accepted no-op.
UnpublishIdempotent ==
  op.name = "unpublish" /\ op.pc = "fail" /\ faults = 0 =>
    alloc.fences \cup own.fences # {}

\* pkg/recovery/startup.go: a compact allocation "unexpectedly has
\* PersistentVolume". Compaction is to wait for the PersistentVolume to go.
CompactedWithoutPV == alloc.kind = "compact" => ~pv
==============================================================================
