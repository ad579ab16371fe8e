# TLA+ verification of the Scaleway File Storage subdirectory CSI driver

The driver maps each PersistentVolume to a subdirectory of a shared Scaleway
File Storage filesystem (a *parent*). One controller Pod serves the CSI
controller calls; a node plugin mounts the subdirectories. The controller keeps
two records of every logical volume: the *allocation*, a Kubernetes ConfigMap
written by compare-and-swap, and the *ownership*, a file on the parent. No
transaction spans the two, the directory tree and the cluster's own objects, so
the correctness of the driver is the correctness of its write orders and of
what it does after a crash between two writes. That is what these modules are
about.

## The system

State, and who changes it:

| State | Where | Changed by |
| --- | --- | --- |
| allocation record | ConfigMap, CAS on resourceVersion | create, publish, delete, gc, gc_request, compaction, recovery |
| ownership record | file on the parent, atomic install | create_filesystem, publish, delete, gc |
| directory tree, `.archived`, `.deleted` | parent | create, delete, gc through `safety.DirectoryLifecycle` |
| PersistentVolume, VolumeAttachment | API server | external sidecars, kubelet, operators |
| mounts | nodes | node plugin, authorised by the ownership record only |
| mutation gate | controller memory | every mutating call; checkpoint, decommission, uninstall, shutdown |
| keyed locks (volume, pool) | controller memory | every handler; placement |
| reservation journals and their set | ConfigMaps | placement, create, cold start, restore |
| leadership Lease | Lease object | `coordination.LeaseRuntime`, `LeadershipSession` |
| parent claim, bootstrap evidence | parent, Lease annotations | bootstrap |
| provider attachments | Scaleway API | attach, detach, fence |
| checkpoint session and archive | controller memory, file | `recovery.CheckpointCoordinator`, csi-admin |
| uninstall progress | ConfigMap, plugin memory | csi-admin, controller, node plugins |

What is concurrent: client calls, the periodic maintenance pass, admin
requests, nodes, the cluster's controllers and, across a failover, two
controller Pods. Inside the controller every mutating call goes through the
mutation gate, then takes the lock of its volume (and, for placement, of its
pool). Calls for one volume are therefore sequential; they still interleave
with the cluster, with crashes, and with API writes that a dead process or a
timed-out request left in flight.

PROJECT.json lists every component with its sources and status, which lines
each definition models, and the hazards at the lines where they bite.

## Modules

| Module | Models |
| --- | --- |
| `VolumeRecords` | `pkg/volume`, and the pairing and transition rules of `pkg/driver`; operators only |
| `VolumeLifecycle` | create, publish, unpublish, delete, gc, compaction, reconciliation pass and cold start of one volume |
| `VolumeContract` | what the driver promises of a volume: an abstract specification |
| `VolumeProperties` | the properties of `VolumeLifecycle`, and its mapping to `VolumeContract` |
| `VolumeInvariant` | the inductive invariants, and `OnlySuccessors` |
| `VolumeTypeProofs`, `VolumeFenceProofs`, `VolumeSafetyProofs`, `VolumeWriterProofs` | proofs about the above |
| `MutationGate`, `MutationGateProofs` | `pkg/coordination/gate.go` |
| `KeyedLock`, `KeyedLockProofs` | `pkg/coordination/lock.go` |
| `Admission` | gate and volume locks composed, as every handler uses them |
| `PoolAccounting`, `PoolAccountingProofs` | the 64-bit arithmetic of `pkg/pool` |
| `PoolReservations` | placement and reservation in `CreateVolume`, the reservation journals and their set; extends `PoolAccounting` |
| `Leadership`, `LeadershipProofs` | the Lease, its sessions, approvals and releases (`pkg/coordination`, `pkg/k8s/lease_store.go`) |
| `Installation` | `Leadership` composed with controller startup: discovery, parent claims, layout |
| `NodeService` | the node plugin and the mount table of one node |
| `Uninstall` | safe uninstall and decommission: csi-admin, controller, node plugins, provider |
| `Checkpoint` | capture, export, restore, promotion, and the reconstruction of lost records |
| `MCVolumeLifecycle`, `MCAdmission`, `MCPoolReservations`, `MCLeadership`, `MCInstallation`, `MCNodeService`, `MCUninstall` | instances and symmetry sets for TLC; `checkpoint.cfg` instantiates `Checkpoint` itself |

How the modules stand to each other. `VolumeLifecycle` assumes one handler per
volume and one writing controller. The first is `KeyedLock` and `Admission`,
the second `Leadership`. `VolumeLifecycle` takes the mount decision of a node as
one step; `NodeService` has the steps below it and takes the decision as an
input. `Checkpoint` and `Uninstall` see a volume as the few states that they
tell apart and take the detail of every transition from `VolumeLifecycle` and
`PoolReservations`. These assumptions are made in the text of the modules. The
compositions that are specifications are `Admission` (gate and lock),
`Installation` (Lease and bootstrap) and `PoolReservations` (arithmetic and
journals).

Definitions under a comment "Fault seeded for a mutant" are not part of any
specification. Each is a plausible bug; with it in place of the definition that
follows it, the property it is meant for is violated.

### VolumeLifecycle

`alloc`, `own` and `data`/`intact`/`unsynced` are the two records and the tree.
`op` is the handler that holds the volume lock: its name, its program counter,
the allocation it read (`a`) and its target nodes. A step of a handler is what
the code does up to and including its next durable effect; a handler may end
(`Abort`) or its process die (`Crash`) between any two steps. `CompareAndSwap`
and `CreateIfAbsent` are the two API writes, with four outcomes: applied,
refused, failed with the write applied or not (an unknown outcome), failed with
the write still in flight. The last puts the record into `late`, from where
`LandLate` may deliver it at any later time, under the compare-and-swap.
Filesystem writes are synchronous and die with the process.

`Dispatch`, `ListAllocations`, `BeginPass` and `PassEntry` are the pass of
`LifecycleCrashReconciler`: the list is read once and acted on later, when the
volume may have moved. `Restart` runs `StartupInventory`
(`BuildStartupInventoryPlan`) first and serves only when the pass succeeds.

The environment is what the cluster may do: VolumeAttachments come and go, also
by force; a node mounts only when its attachment is settled and the ownership
record authorises it; a node may be lost with its mounts, come back, be
stopped or boot. A node that returns has its stale mounts cleaned by kubelet
before its attachment is given up, as the code assumes of a Ready node.

Abstractions. One volume on one configured parent; volumes share no state but
the pool. IDs, timestamps and paths are members of small sets: a path is the
directory it is in plus the operation ID embedded in it. Identity fields,
hashes and encodings are left out, because every rule compares them for
equality with a value that never changes; the operation IDs that a compact
record copies are left out for the same reason. The reservation journal appears
here as its effect: a reservation POST whose outcome is unknown pins the record,
so a retry sends the same one; the journal's own re-POST at cold start is the
late delivery of that write. An ownership write is atomic. A record whose parent
left the configuration is not modelled.

### MutationGate, KeyedLock, Admission

Gate and lock are at the grain of the critical sections and channel operations
of the code. In the gate, `changed[r]` says that the channel request `r` waits on
was closed; a call carries any capability ever issued, because a context can be
retained. The calls of one barrier request are serialised by its owner
(`CheckpointCoordinator.operationMu` and its like), and that is an assumption:
`BeginQuiesce` does not look at `quiesceID` again after it slept. In the lock,
an entry that nothing refers to may be used again, as memory is. `Admission`
runs a handler through both: token, lock, unlock, token back.

### PoolAccounting and PoolReservations

`PoolAccounting` keeps the word: a sum or product that the code does not guard
wraps at `MaxUint`. `PoolReservations` builds the capacity of a parent from it.

`alloc`, `journal` and `set` are what the API server holds, `lateA`, `lateJ` and
`lateS` the writes whose answer was lost and that may still be applied. `h[v]`
is the handler that runs for volume `v`, which holds the lock of `v`: its
program counter, whether it places, resumes an intent or replays an allocation,
the record it works on and the journals it read. Every read and every write of
the API is a step of its own, so handlers of different volumes interleave
between any two. `blocked` is `blockedPools`, lost in a crash. `ctl` is the
initialisation or extension of the journal set followed by `Reconcile`, at cold
start or under the closed gate of a checkpoint. `refresh` is the goroutine that
takes all pool locks in order.

A journal's generation doubles as its resourceVersion: every write advances it,
so a late write lands exactly if its generation is the next one. A retry loop
around one write is a step that may be repeated. What excludes a parent from a
placement (provider, mount, statfs) is a free choice among the parents with
room. An allocation is absent, Reserved, advanced or released; the states
between are those of `VolumeLifecycle`.

### Leadership and Installation

An update of the Lease is a compare-and-swap. The model keeps no version number:
`fresh[p]` says that no update has landed since `p`'s snapshot, and `late` holds
the abandoned requests that still name the current version. Time is an age in
retry periods, of the stored renewal (`leaseAge`) and of each session's last
success (`age`); the watchdog acts before a session passes `RenewDeadline`.
`busy[p]` is a mutation that the gate of `p` admitted. Approvals, graceful
release and its marker, the lost Lease, stopped and restarted Instances are
actions.

`Installation` adds `root` and `disk`, a parent as it is and as a stop of the
Instance would leave it, and goes through the metadata writer (temporary file,
sync, rename without replacement, sync) step by step; `att` and `pend`,
attachments made and requested; `boot`, the startup program of each process;
`refs` and `restored`, references and the checkpoint Secret, which decide what a
process that finds no Lease may do.

### NodeService

`table` is the stack of mounts at each path, `quarantine` the private tree that
a mount is moved to before it is detached, `locks` the volume, target and parent
locks, `call` the program of each CSI call and of the terminal unmount that
uninstall asks for. Somebody else may mount or unmount at the paths `Disturbed`
between any two steps. `shared` says that the kubelet path is a shared mount,
where the kernel refuses to move a mount and the plugin detaches lazily instead.

### Uninstall

`progress` is the ConfigMap in which csi-admin keeps the phases it completed;
`ctl` and `stop` are the memory of controller and node plugins, lost in a
restart. `cli` is a process of the operator, which may be interrupted and run
again. Volume calls and node calls are single steps, since the drain before a
gate closes is the subject of `MutationGate` and `NodeService`. `Lead` is a
process that becomes leader; it is disabled while the provider detaches, so a
replacement that mounts in the middle of a detach is not explored.

### Checkpoint

Per volume: allocation, ownership, PersistentVolume and VolumeAttachment, and
`op`, the handler with a gate token. Admission is one step and every write of
the handler another, the first one included, so that a handler admitted before
the barrier can give up at any write and the write land late (`late`, `lateJ`),
behind the barrier as well. `ctl` is the controller process: its phase, the
checkpoint request that closed its gate, the captured candidate, and the pass.
The pass reconciles journals, builds the startup plan, reconstructs what is
missing (records with a PersistentVolume first) and reconciles each volume. It
refuses what the code refuses: an archived allocation whose ownership still says
Deleting, a deletion with a VolumeAttachment, a compact tombstone with a
PersistentVolume. The archive is its contents plus the parts that were damaged
since. `LoseNamespace` takes every object of the namespace; parents and
PersistentVolumes stay. A process on an Instance that is being retired may make
one more write to the parent (`LastWrite`).

Here Retained is one state with Archived, and Reserved with CreatingDirectory.
Garbage collection and its place in eligibility, `deletedUnknown` and historical
records, bootstrap evidence in the Lease and the periodic pass of a serving
controller are left out.

## Runs

| Run | Instance | Shows |
| --- | --- | --- |
| `fences` | 2 nodes, 1 operation ID, policy delete, 1 fault | `FenceSafety`, the inductive invariant of the proofs; `MountedDataStable`: a mounted tree is left alone; `PublishedStaysAuthorised`: a published node keeps its fence and a Ready ownership |
| `lifecycle` | 1 node, 2 operation IDs, 3 policies, 1 fault | `LifecycleSafety`: records, tree and references agree; `CrashesAreRecoverable`: the inventory accepts what a crash leaves; `NeverBackward`; `ImplementsContract`: refinement of `VolumeContract` |
| `progress` | 1 node, 1 operation ID, 3 policies, 1 fault, `FairSpec` | `StartupCompletes`, `CreationResumes`, `DeletionCompletes`, `FencesConverge` |
| `admission` | 3 callers, 2 tokens, 1 barrier request with one callback, 1 volume, `AFairSpec` | `GateSafety`; `QuiescedUnlocked`: a closed barrier meets no handler half way; `QuiesceCompletes`, `HandlersLeave` |
| `pool` | 2 volumes, 2 pools (1 or 2 at the start) with room for one volume each, 2 requests for one volume, 1 failed or lost API call, 1 crash, `FairSpec` | `JournalSafety`: the journals show every reservation that may still appear; `CompletedExactly`: an intent is given up only for its exact allocation; `OvercommitNeedsLoss`, `PoolLocksReturn`, `ServingResumes` |
| `leadership` | 2 Pods on 2 Instances, deadline 2 and duration 3, 2 Leases, 1 approval, 1 fault | `LeaderIsExclusive`, `LeaseCoversLeader`, `NoStuckLease` |
| `installation` | 2 Pods, 1 parent, 2 Leases, 1 approval, 2 faults | `ReadyIsDurable`, `InstallationSafety` (one Pod serves, also across Leases), `AttachmentsExplained`, `ClaimsImmutable` |
| `startup` | 1 Pod, 2 parents, 2 faults, `IFairSpec` | `InstallationCompletes` |
| `node` | 2 calls and the terminal unmount, 2 volumes (one single-writer), 2 targets, 1 fault | `NodeSafety` (one target per single-writer volume, no lock kept), `EvidenceHolds`, `StageOutlivesPublish`, `ForeignKept` |
| `uninstall` | an uninstall and a decommission, 2 parents, 2 volumes, 2 nodes, 1 fault of four kinds | `DetachedUnmounted`, `OnlyRequestedDetached`, `UninstallSafety` |
| `checkpoint` | 2 volumes, one provisioned, 2 requests, 2 mutations, 2 faults, `FairSpec` | `QuiescedIsFrozen`, `NothingForgotten`, `RestoreIsExact`, `BarrierIsLifted`, `RestoreCompletes` |
| `v_overcommit` | 2 volumes, 1 parent with room for one, 1 lost call | the disagreement below |

The comment above each property states it and names the code it is about.

### What the properties except

Several progress properties hold only outside states that the code refuses on
purpose or without meaning to. Each exception is a named definition.

- `StartupCompletes` excepts `ColdStartRefuses`: a deletion with a
  VolumeAttachment, a collection request that is executed under a reference, a
  compact tombstone with a PersistentVolume, and a volume that is Archived or
  Retained in the allocation and Deleting in the ownership.
  `DeletionCompletes` excepts an attachment. `CrashesAreRecoverable` excepts the
  compact tombstone with a PersistentVolume, and is about the inventory only:
  the last of the four pairs passes it and the pass behind it refuses.
- `BarrierIsLifted` excepts `Refused`: the same pairs but for the collection
  request, which `Checkpoint` does not have. `DeleteVolume` may give up between
  the Archived allocation and the mirror; the gate then closes; every resume
  fails at the pass, and the retry of `DeleteVolume` that would repair the pair
  waits at the gate.
- `RestoreCompletes` excepts `Displaced`: another archive was restored, this one
  was damaged, the namespace holds objects that are not of the archive, or the
  archive has a compact tombstone with a PersistentVolume.
- `InstallationCompletes` excepts `Refuses` (something foreign or incomplete on
  a parent) and `ReplaysLaidOut` (the plan is still in the Lease although a
  parent of it is laid out).
- `ForeignKept` is about private mounts. On shared ones, the usual topology, the
  lazy detach can take a mount stacked in its window.
- `FinishedIsClean`, in `UninstallSafety`, asks that the Lease still carry the
  release marker of the request.
- `SyncedBeforeAdvance`, in `LifecycleSafety`, is about Ready and Deleted; for
  Archived see `ArchivedDurably` below.
- `StageOutlivesPublish` does not cover a mount still under verification by the
  call that made it, nor one that is in the quarantine.
- `QuiescedIsFrozen` lets a write land that left before the barrier closed. The
  second read of an export compares the objects with the candidate.

### Bounds

`MaxFaults` counts crashes, errors and lost answers together. For a volume one is
enough for every window between two writes, because a fault may come at every
step and recovery itself is fault-free afterwards; the proofs do without the
bound. `installation`, `startup` and `checkpoint` take two, for a fault during
recovery from another; `uninstall` takes one, so that a second fault while a
replacement recovers is not explored. `MaxRev` stops new fences from revision 4
or 5 on, which otherwise would grow the revision for ever; every handler can run
to its end above it. Two nodes are needed for fences that differ, two operation
IDs for a collection that must not mix with the deletion. Two pools are needed
for a retry that names another pool than the request before it, and a second
request for a late write of the first. A crash with a write in flight is a lost
answer followed by the crash, so `pool` needs both bounds. `MaxIds` bounds
bootstrap attempts in `Installation` and mount generations in `NodeService`;
with 7, `startup` has an ID left for every attempt that two faults can cause.
`MaxUint` of 16383 in `pool` keeps numbers small; the wrap at the word size is
the subject of the theorems. `admission` has one volume and one lock entry: the
removal and reuse of entries is covered by the theorems on `KeyedLock`. Two
mutations in `checkpoint` let one land late while the other is admitted.

No run sets `SingleWriter` of `VolumeLifecycle`; that a SINGLE_NODE_WRITER
volume has one writer is the theorem `OneWriter`.

Symmetry of nodes, IDs, Pods or calls is used only where no liveness is checked.
Deadlock is checked but in `installation`, `startup` and `checkpoint`, where
the system may stop: a startup refuses for ever, or every bound is used up.

### Fairness

A running handler keeps running and its answer is delivered; Kubernetes
restarts the Pod; the pass is periodic. Goroutines that wait on a Go channel or
a lock token queue, so one that waits gets it if it becomes free again and
again: strong fairness, in `Admission` and of the handlers of
`PoolReservations`. In `Installation` the API server and the provider answer and
a stopped Instance is started again. In `Checkpoint` a process on a retired
Instance ends, and the operator follows the runbook: a prepared checkpoint is
resumed and a restore is run again until it ends (strong fairness, since each
needs a process that serves). No client retry, no cooperation of a node, no
request and no fault is owed to anyone.

### Where documents and code disagree

`v_overcommit` refutes what `placement.go` says of the pool lock. A placement
lists the allocations while the journal of its pool is Pending for another
volume, whose closing marker it removed on an older reading. That volume's POST
lands and its journal is completed without the pool lock; the placement then
finds the journal Idle and reserves room that its list did not show as taken.
`OvercommitNeedsLoss` shows that a failed or lost call is necessary.

The modules also state the following. TLC refutes each under the constants
of the run in brackets, and no run of the project checks them; they are what the
exceptions above come from.

- `TerminalLagResumes` [`progress`]: `docs/SPECIFICATION.md` calls (Archived or
  Retained, Deleting) an expected crash window. `reconcileDetailed` restores
  fences first, whose pairing rule refuses different states.
- `ArchivedDurably` [`lifecycle`]: after a failed directory sync the retry
  accepts the renamed tree without syncing.
- `UnpublishIdempotent` [`lifecycle`]: unpublish of a deleted volume fails while
  its allocation is a detailed tombstone.
- `CompactedWithoutPV` [`lifecycle`]: compaction does not ask for the
  PersistentVolume, whose presence the startup inventory rejects.
- `PlanIsReplayed` [`startup`]: a crash before `ClearFreshBootstrapPlan` is to be
  replayed; a parent already laid out is not accepted by the replay.
- `AuditIsClean` [`uninstall`]: a controller that restarts between its release
  and the scale-down takes the released Lease and attaches the parents again;
  the request still finishes, on the cleanup recorded before.
- `InterruptedResumes` [`uninstall`, under `FairSpec`]: a node plugin that made
  its terminal stop is no longer ready, and an execution that is interrupted
  then and started again refuses plugins that are not ready.

## Proofs

| Theorem | Statement |
| --- | --- |
| `FenceSafetyInvariant` | `Spec => []FenceSafety` of `VolumeLifecycle` |
| `TypeCorrect` | `Spec => []TypeOK` |
| `MountsAreFenced` | `Spec => []MountedFenced` |
| `MountsAreStable` | `Spec => []MountedDataStable` |
| `WritesAreSuccessors` | `Spec => OnlySuccessors`: no write lands on a record that its writer had not seen |
| `OneWriter` | `Spec => []SingleNodeWriter` |
| `GateIsSafe`, `BarrierIsHeld`, `WakeupsAreKept` | `Spec => []GateSafety`, `[]BarrierHolds`, `[]NoLostWakeup` of `MutationGate` |
| `RevokedOpensNothing` | `Spec => OnlyValidCapability` |
| `LockIsSafe`, `LockExcludes`, `UnlockIsPrompt` | `LockSpec => []LockSafety`, `[]MutualExclusion`, `[]UnlockNeverBlocks` of `KeyedLock` |
| `ExclusiveLeader` | `Spec => []LeaderIsExclusive` of `Leadership` |
| `LeaseOutlivesLeader` | `Spec => []LeaseCoversLeader` |
| `LeaseNeverMalformed` | `Spec => []NoStuckLease` |
| `CeilPercentExact`, `FloorMultiplyExact` | the percentage and the ratio of `PoolAccounting` are exact, or report failure exactly when the result needs more than a word |
| `AdmittedFits`, `PhysicalFits` | a parent that the code admits has the logical and the physical room |
| `AcceptedNeverShrinks` | the size that placement trusts never shrinks |

They hold for any sets of nodes, IDs, policies, callers, requests, entries and
Pods, any timing with `1 < RenewDeadline < LeaseDuration`, any word of at least
9900, and any bounds. The other assumptions are that null values are not members
of their sets, that bounds are natural numbers, and that the sets of callers are
finite (their members are counted). TLC evaluates each named ASSUME.

The volume invariant. None of the properties is inductive: that a mounted node
is fenced depends on which fence a running handler is about to remove, on the
record it read, and on writes in flight. `TypeOK` is not inductive either,
since publish needs to know that its node is a node. `FenceSafety` adds

- `RecordInv`: a write in flight is at most one revision ahead of the stored
  record, and if it can still land it is a permitted successor of it;
- `SnapshotInv`: what the handler read is the stored record, or is stale by one
  write that landed late, and then nothing else can land. Every
  compare-and-swap from a stale snapshot is thus refused;
- `FenceInv`: no fences before Ready, nor once a deletion is recorded or in
  flight;
- `MountInv`: kubelet's order, and that mounts stay fenced even if a write in
  flight lands;
- `TreeInv`: the tree is whole and in place while the volume is Ready or could
  become so;
- `ReadInv` and `KnownInv`: what each step of a handler knows from the steps
  before it.

`VolumeTypeProofs` shows what each kind of step does to the types.
`VolumeFenceProofs` classifies steps by shape (a check, an allocation write, an
ownership write, a change of the tree), shows what each shape preserves, and
goes through create and publish; `VolumeSafetyProofs` through delete,
collection, compaction, requests, controller and environment, and concludes.
`VolumeWriterProofs` shows that `SingleWriterInv` is inductive relative to
`FenceSafety`: the fences of both records, of the record that the handler read
and of a write that can still land never name two nodes. With `MountedFenced`
that is one writer.

The gate invariant adds to the barrier that a request that began is the one
that closed the gate, and that a capability is valid only inside the callback
of its request, with exact counters. The lock invariant adds that reference
counts are exact and that every caller refers to the entry the map has.

The leadership invariant. That there is one leader depends on what other
processes have sent. `LeadershipInv` adds that every Lease ever written or asked
for is well formed (`StoreInv`, `CallOK`), that a snapshot no update has
overtaken is the stored Lease (`FreshOK`), what a process has read at each phase
(`ReadOK`), that nobody else's update can land while a process holds
(`Exclusive`), and that no session believes in a younger renewal than the stored
one, counting updates still on the way (`AgeOK`).

Only model-checked: liveness (the prover has no ENABLED or fairness),
`ImplementsContract` and the other properties of run `lifecycle`,
`PublishedStaysAuthorised`, and everything of `Admission` beyond its two parts,
`PoolReservations`, `Installation`, `NodeService`, `Uninstall` and `Checkpoint`.

## Not modelled

Encodings, hashing, path confinement and descriptor walking, the admin
transport, gRPC translation, metrics, logging and configuration parsing: pure
functions or I/O without state that a property here could be about. The upgrade
preflight reads and reports. Test infrastructure and release tooling run outside
the product. What modelled components leave out is in their notes in
PROJECT.json: records of parents that left the configuration, `deletedUnknown`
and historical records, the reconstruction of volumes under collection, the
second list that verifies a new journal set, and the polling of intermediate
provider states.
