----------------------------- MODULE NodeService ------------------------------
(***************************************************************************)
(* The node plugin on one Instance: NodeStage, NodePublish, NodeUnpublish   *)
(* and NodeUnstage (pkg/driver/node.go), the kernel mount table and the     *)
(* exact unmount through a private quarantine (pkg/mount/kernel_linux.go),  *)
(* and the terminal unmount of the parent that safe uninstall and           *)
(* decommission ask of every node (pkg/admin/node_uninstall.go).            *)
(*                                                                          *)
(* Calls interleave at every lock, snapshot and mount syscall. Somebody     *)
(* else on the node may mount over a target or unmount it between two       *)
(* steps; the plugin may restart and the Instance reboot at any moment.     *)
(*                                                                          *)
(* A staging path is named after its volume, as kubelet derives it from the *)
(* handle; the target path of a publication is an input of its own.         *)
(* Whether the ownership record authorises a mount is an input here and is  *)
(* modelled in VolumeLifecycle. Target directories are left out: the kernel *)
(* refuses to remove one that is mounted on.                                *)
(***************************************************************************)
EXTENDS Integers, Sequences, FiniteSets

CONSTANTS
  Calls,         \* CSI calls that may run at once
  Admin,         \* the terminal unmount command
  Volumes,       \* volumes, and their staging paths
  SingleWriter,  \* volumes with access mode SINGLE_NODE_WRITER
  Targets,       \* publish target paths
  TargetsOf,     \* the targets that requests for a volume may name
  Root,          \* the parent filesystem, and its mount path
  Foreign,       \* what somebody else mounts
  Disturbed,     \* the paths where somebody else mounts and unmounts
  None,
  MaxIds,        \* mount generations alive or remembered at once
  MaxFaults      \* mounts and unmounts by somebody else, restarts, reboots

ASSUME NodeAssumption ==
  /\ SingleWriter \subseteq Volumes /\ TargetsOf \in [Volumes -> SUBSET Targets]
  /\ Disturbed \subseteq Volumes \cup Targets \cup {Root}
  /\ Root \notin Volumes \cup Targets /\ Volumes \cap Targets = {}
  /\ Foreign \notin Volumes \cup {Root} /\ Admin \notin Calls
  /\ None \notin Calls \cup Targets \cup Volumes \cup {Admin}
  /\ MaxIds \in Nat \ {0} /\ MaxFaults \in Nat

VARIABLES
  table,       \* the stack of mounts at every path, the oldest first
  quarantine,  \* the tree of mounts in the private quarantine
  locks,       \* who holds each volume, target and parent lock
  closed,      \* the node's mutation gate was closed for good
  evidence,    \* this process reported the parent as unmounted
  call,        \* the state of every call
  shared,      \* the kubelet path is a shared mount: move_mount gets EINVAL
  faults

vars == <<table, quarantine, locks, closed, evidence, call, shared,
          faults>>
kernel == <<table, quarantine>>
outside == <<shared, faults>>

Procs == Calls \cup {Admin}
Paths == Volumes \cup Targets \cup {Root}
Ids == 1..MaxIds
\* A mount: its STATX_MNT_ID_UNIQUE generation and what it shows.
Mount == [id : Ids, of : Volumes \cup {Root, Foreign}]
Ops == {"stage", "publish", "unpublish", "unstage", "prepare"}
PCs == {"idle", "drain", "volume", "target", "reconcile", "parent",
        "authorize", "bind", "attach", "verify", "inspect", "prove", "move",
        "detach"}
Idle == [op |-> "stage", vol |-> None, tgt |-> None, pc |-> "idle", id |-> 0]

Init ==
  /\ table = [l \in Paths |-> <<>>] /\ quarantine = <<>>
  /\ locks = [l \in Paths |-> None] /\ closed = FALSE /\ evidence = FALSE
  /\ call = [c \in Procs |-> Idle] /\ shared \in BOOLEAN
  /\ faults = 0

-----------------------------------------------------------------------------
\* The mount table

Elems(s) == {s[i] : i \in DOMAIN s}
\* Table.Exact: one layer at the path, and it is m.
Exact(l, m) == table[l] = <<m>>
ParentReady == Len(table[Root]) = 1 /\ table[Root][1].of = Root
\* Stage, publish: the mounts of a volume that are classified by their path.
StageOf(v) == {m \in Elems(table[v]) : m.of = v}
PublishOf(v) == {t \in Targets : \E m \in Elems(table[t]) : m.of = v}

\* The path a call mounts or unmounts.
At(c) == CASE call[c].op \in {"stage", "unstage"} -> call[c].vol
           [] call[c].op \in {"publish", "unpublish"} -> call[c].tgt
           [] OTHER -> Root

\* Generations are never reused: a new one differs from every mount at the
\* path, from the quarantine and from what a call remembers of the path.
Source(c) == IF call[c].op = "stage" THEN Root ELSE call[c].vol
Remembered(l) ==
  {m.id : m \in Elems(table[l]) \cup Elems(quarantine)}
    \cup {call[c].id : c \in {d \in Procs :
            l = IF call[d].pc = "bind" THEN Source(d) ELSE At(d)}}
CanMount(l) == Ids \ Remembered(l) # {}
Fresh(l) == CHOOSE i \in Ids : i \notin Remembered(l)

Present(l, id) == \E i \in DOMAIN table[l] : table[l][i].id = id
Layer(l, id) == CHOOSE i \in DOMAIN table[l] : table[l][i].id = id
\* The mount with this generation and what is stacked on it.
Tree(l, id) == SubSeq(table[l], Layer(l, id), Len(table[l]))
Below(l, id) == SubSeq(table[l], 1, Layer(l, id) - 1)

-----------------------------------------------------------------------------
\* Locks and returns. The order is gate, volume, target, parent.

Goto(c, q) == call' = [call EXCEPT ![c].pc = q]
Take(c, l) == locks[l] = None /\ locks' = [locks EXCEPT ![l] = c]
\* The deferred unlocks of a call that returns.
Return(c) ==
  /\ call' = [call EXCEPT ![c] = Idle]
  /\ locks' = [l \in Paths |-> IF locks[l] = c THEN None ELSE locks[l]]

\* quarantineMu is held from the last proof of an exact unmount to its end.
QuarantineFree(c) ==
  \A d \in Procs \ {c} : call[d].pc \notin {"move", "detach"}
\* recoverPrivateQuarantinesLocked detaches one mount of the generation that
\* its directory name encodes and refuses anything stacked on it.
Recoverable == Len(quarantine) <= 1

\* A request passes validation and the gate admits it.
Enter(c, op, v, t) ==
  /\ call[c] = Idle /\ ~closed
  /\ call' = [call EXCEPT ![c] = [Idle EXCEPT !.op = op, !.vol = v, !.tgt = t,
                                              !.pc = "volume"]]
  /\ UNCHANGED <<kernel, locks, closed, evidence, outside>>

LockVolume(c) ==
  /\ call[c].pc = "volume" /\ Take(c, call[c].vol)
  /\ Goto(c, IF call[c].tgt = None THEN "reconcile" ELSE "target")
  /\ UNCHANGED <<kernel, closed, evidence, outside>>

LockTarget(c) ==
  /\ call[c].pc = "target" /\ Take(c, call[c].tgt) /\ Goto(c, "reconcile")
  /\ UNCHANGED <<kernel, closed, evidence, outside>>

ReconcileQuarantines(c) ==
  /\ call[c].pc = "reconcile" /\ QuarantineFree(c)
  /\ IF Recoverable
     THEN /\ quarantine' = <<>> /\ UNCHANGED locks
          /\ Goto(c, IF call[c].op \in {"stage", "publish"} THEN "parent"
                     ELSE "inspect")
     ELSE Return(c) /\ UNCHANGED quarantine
  /\ UNCHANGED <<table, closed, evidence, outside>>

LockParent(c) ==
  /\ call[c].pc = "parent" /\ call[c].op = "publish"
  /\ Take(c, Root) /\ Goto(c, "authorize")
  /\ UNCHANGED <<kernel, closed, evidence, outside>>

\* The context of a call ends before it changed a mount.
Cancel(c) ==
  /\ call[c].pc \in PCs \ {"idle", "drain", "attach", "verify", "move", "detach"}
  /\ Return(c)
  /\ UNCHANGED <<kernel, closed, evidence, outside>>

-----------------------------------------------------------------------------
\* Stage and Publish

\* MountParent moves one detached virtiofs mount onto the parent path.
MountParent ==
  /\ table[Root] = <<>> /\ CanMount(Root)
  /\ table' = [table EXCEPT ![Root] = <<[id |-> Fresh(Root), of |-> Root]>>]

\* ensureParentMounted between lock and unlock of the parent. Mounting fails
\* while the provider has not made the attachment visible on the node.
EnsureParentMounted(c) ==
  /\ call[c].pc = "parent" /\ call[c].op = "stage" /\ locks[Root] = None
  /\ \/ ParentReady /\ Goto(c, "authorize") /\ UNCHANGED <<table, locks>>
     \/ MountParent /\ Goto(c, "authorize") /\ UNCHANGED locks
     \/ ~ParentReady /\ Return(c) /\ UNCHANGED table
  /\ UNCHANGED <<quarantine, closed, evidence, outside>>

\* AuthorizeStage and the checks of one snapshot. A staging path that is
\* already mounted is validated and ends the call.
AuthorizeStage(c) ==
  /\ call[c].pc = "authorize" /\ call[c].op = "stage"
  /\ \/ /\ ParentReady /\ table[call[c].vol] = <<>>
        /\ call' = [call EXCEPT ![c].pc = "bind", ![c].id = table[Root][1].id]
        /\ UNCHANGED locks
     \/ Return(c)
  /\ UNCHANGED <<kernel, closed, evidence, outside>>

\* Fault seeded for a mutant: the other targets of the volume are not looked at.
AnyTarget(c) == TRUE
\* SINGLE_NODE_WRITER: no publication of the volume at another target.
NoOtherTarget(c) ==
  call[c].vol \in SingleWriter => PublishOf(call[c].vol) \subseteq {call[c].tgt}

\* AuthorizePublish, ValidateStage, the target count, EnsurePublishTarget.
AuthorizePublish(c) ==
  /\ call[c].pc = "authorize" /\ call[c].op = "publish"
  /\ LET v == call[c].vol
         t == call[c].tgt
     IN \/ /\ ParentReady /\ Len(table[v]) = 1 /\ table[v][1].of = v
           /\ NoOtherTarget(c) /\ table[t] = <<>>
           /\ call' = [call EXCEPT ![c].pc = "bind", ![c].id = table[v][1].id]
           /\ UNCHANGED locks
        \/ Return(c)
  /\ UNCHANGED <<kernel, closed, evidence, outside>>

\* Bind up to the detached clone: the target is unmounted, and the source is
\* the mount that was validated.
Bind(c) ==
  /\ call[c].pc = "bind"
  /\ IF /\ table[At(c)] = <<>>
        /\ Present(Source(c), call[c].id)
     THEN /\ call' = [call EXCEPT ![c].pc = "attach", ![c].id = 0]
          /\ UNCHANGED locks
     ELSE Return(c)
  /\ UNCHANGED <<kernel, closed, evidence, outside>>

\* move_mount exposes the clone on top of whatever is at the target by now.
MoveMount(c) ==
  /\ call[c].pc = "attach" /\ CanMount(At(c))
  /\ LET m == [id |-> Fresh(At(c)), of |-> call[c].vol]
     IN /\ table' = [table EXCEPT ![At(c)] = Append(@, m)]
        /\ call' = [call EXCEPT ![c].pc = "verify", ![c].id = m.id]
  /\ UNCHANGED <<quarantine, locks, closed, evidence, outside>>

\* Bind verifies what it exposed, or its context ended. rollbackOwnedBind takes
\* the mount away through its descriptor; where that fails the mount is left.
BindVerified(c) ==
  /\ call[c].pc = "verify"
  /\ Exact(At(c), [id |-> call[c].id, of |-> call[c].vol])
  /\ Return(c) /\ UNCHANGED <<kernel, closed, evidence, outside>>
RollbackOwnedBind(c) ==
  /\ call[c].pc = "verify" /\ QuarantineFree(c)
  /\ LET l == At(c)
         id == call[c].id
     IN IF Recoverable /\ Present(l, id)
        THEN /\ table' = [table EXCEPT ![l] = Below(l, id)]
             /\ quarantine' = IF shared \/ Len(Tree(l, id)) = 1 THEN <<>>
                              ELSE Tree(l, id)
        ELSE UNCHANGED kernel
  /\ Return(c) /\ UNCHANGED <<closed, evidence, outside>>

-----------------------------------------------------------------------------
\* Unpublish, Unstage and the terminal unmount

\* Fault seeded for a mutant: Unstage does not look for child publications.
AuthenticatedAlone(c) ==
  LET v == call[c].vol
  IN /\ Len(table[At(c)]) = 1 /\ table[At(c)][1].of = v /\ ParentReady
     /\ call[c].op = "unpublish" => Cardinality(StageOf(v)) = 1

\* ResolveCleanup reads the ownership record through the mounted parent.
\* Unpublish then wants the one staging mount of the volume, Unstage wants no
\* publication of it.
Authenticated(c) ==
  LET v == call[c].vol
  IN /\ Len(table[At(c)]) = 1 /\ table[At(c)][1].of = v /\ ParentReady
     /\ IF call[c].op = "unpublish" THEN Cardinality(StageOf(v)) = 1
        ELSE PublishOf(v) = {}

\* The snapshot of Unpublish or Unstage. An unmounted path is a success.
Inspect(c) ==
  /\ call[c].pc = "inspect" /\ call[c].op \in {"unpublish", "unstage"}
  /\ IF table[At(c)] # <<>> /\ Authenticated(c)
     THEN /\ call' = [call EXCEPT ![c].pc = "prove", ![c].id = table[At(c)][1].id]
          /\ UNCHANGED locks
     ELSE Return(c)
  /\ UNCHANGED <<kernel, closed, evidence, outside>>

\* UnmountExact up to its last look at the path, under quarantineMu.
ProveExact(c) ==
  /\ call[c].pc = "prove" /\ QuarantineFree(c)
  /\ IF Recoverable
     THEN /\ quarantine' = <<>>
          /\ IF Len(table[At(c)]) = 1 /\ Present(At(c), call[c].id)
             THEN Goto(c, "move") /\ UNCHANGED locks
             ELSE Return(c)
     ELSE Return(c) /\ UNCHANGED quarantine
  /\ UNCHANGED <<table, closed, evidence, outside>>

\* move_mount into the quarantine carries what was stacked on the mount since.
\* With EINVAL the proof is repeated instead.
MoveToQuarantine(c) ==
  /\ call[c].pc = "move"
  /\ LET l == At(c)
         id == call[c].id
     IN IF ~shared /\ Present(l, id)
        THEN /\ table' = [table EXCEPT ![l] = Below(l, id)]
             /\ quarantine' = Tree(l, id) /\ Goto(c, "detach") /\ UNCHANGED locks
        ELSE /\ UNCHANGED kernel
             /\ IF shared /\ Len(table[l]) = 1 /\ Present(l, id)
                THEN Goto(c, "detach") /\ UNCHANGED locks
                ELSE Return(c)
  /\ UNCHANGED <<closed, evidence, outside>>

\* What follows an unmount: the terminal one reports the parent if nothing is
\* mounted any more.
AfterUnmount(c) ==
  evidence' = (evidence \/ (/\ call[c].op = "prepare"
                            /\ \A l \in Paths : table'[l] = <<>>))

\* Fault seeded for a mutant: the quarantine is detached whatever it holds.
DetachAnything(c) ==
  /\ call[c].pc = "detach"
  /\ IF shared
     THEN /\ UNCHANGED quarantine
          /\ table' = IF Present(At(c), call[c].id)
                      THEN [table EXCEPT ![At(c)] = Below(At(c), call[c].id)] ELSE table
     ELSE quarantine' = <<>> /\ UNCHANGED table
  /\ AfterUnmount(c) /\ Return(c) /\ UNCHANGED <<closed, outside>>

\* restoreQuarantinedMount: the tree returns to a path that is still free, else
\* it stays in the quarantine.
RestoreQuarantinedMount(l) ==
  IF table[l] = <<>>
  THEN table' = [table EXCEPT ![l] = quarantine] /\ quarantine' = <<>>
  ELSE UNCHANGED kernel

\* detachQuarantinedMount detaches one layer; a taller tree is restored. With
\* EINVAL the mount is detached where it is, with everything on it.
Detach(c) ==
  /\ call[c].pc = "detach"
  /\ IF shared
     THEN /\ UNCHANGED quarantine
          /\ table' = IF Present(At(c), call[c].id)
                      THEN [table EXCEPT ![At(c)] = Below(At(c), call[c].id)] ELSE table
          /\ AfterUnmount(c)
     ELSE IF Len(quarantine) = 1
     THEN quarantine' = <<>> /\ UNCHANGED table /\ AfterUnmount(c)
     ELSE RestoreQuarantinedMount(At(c)) /\ UNCHANGED evidence
  /\ Return(c) /\ UNCHANGED <<closed, outside>>

\* uninstall-prepare and decommission-prepare: the gate closes for the rest of
\* the process and admitted calls drain.
BeginTerminalStop ==
  /\ call[Admin] = Idle
  /\ call' = [call EXCEPT ![Admin].op = "prepare", ![Admin].pc = "drain"]
  /\ closed' = TRUE /\ UNCHANGED <<kernel, locks, evidence, outside>>
\* Fault seeded for a mutant: the command does not wait for admitted calls.
DrainNothing ==
  /\ call[Admin].pc = "drain" /\ Goto(Admin, "reconcile")
  /\ UNCHANGED <<kernel, locks, closed, evidence, outside>>
Drain ==
  /\ call[Admin].pc = "drain" /\ \A c \in Calls : call[c] = Idle
  /\ Goto(Admin, "reconcile")
  /\ UNCHANGED <<kernel, locks, closed, evidence, outside>>

\* rejectChildrenAndForeignParents.
ChildrenOrForeign ==
  \/ \E l \in Paths \ {Root} : table[l] # <<>>
  \/ table[Root] # <<>> /\ ~ParentReady
\* The exact parent mount is next. A parent that is not mounted was unmounted
\* by an earlier attempt.
InspectNode ==
  /\ call[Admin].pc = "inspect"
  /\ IF ChildrenOrForeign THEN Return(Admin) /\ UNCHANGED evidence
     ELSE IF table[Root] = <<>> THEN Return(Admin) /\ evidence' = TRUE
     ELSE /\ call' = [call EXCEPT ![Admin].pc = "prove",
                                  ![Admin].id = table[Root][1].id]
          /\ UNCHANGED <<locks, evidence>>
  /\ UNCHANGED <<kernel, closed, outside>>

-----------------------------------------------------------------------------
\* The environment

Fault == faults < MaxFaults /\ faults' = faults + 1

ForeignMount(l) ==
  /\ Fault /\ CanMount(l)
  /\ table' = [table EXCEPT ![l] = Append(@, [id |-> Fresh(l), of |-> Foreign])]
  /\ UNCHANGED <<quarantine, locks, closed, evidence, call, shared>>
ForeignUnmount(l) ==
  /\ table[l] # <<>> /\ table' = [table EXCEPT ![l] = SubSeq(@, 1, Len(@) - 1)]
  /\ IF table[l][Len(table[l])].of = Foreign THEN UNCHANGED faults
     ELSE Fault
  /\ UNCHANGED <<quarantine, locks, closed, evidence, call, shared>>

\* A restart of the container destroys its mount namespace, and with it the
\* quarantine; mounts that propagated to the host stay. A reboot takes all.
Restart ==
  /\ Fault
  /\ table' \in {table, [l \in Paths |-> <<>>]}
  /\ quarantine' = <<>> /\ call' = [c \in Procs |-> Idle]
  /\ locks' = [l \in Paths |-> None] /\ closed' = FALSE /\ evidence' = FALSE
  /\ UNCHANGED shared

Locking(c) == LockVolume(c) \/ LockTarget(c) \/ LockParent(c) \/ EnsureParentMounted(c)
                \/ ReconcileQuarantines(c) \/ ProveExact(c) \/ RollbackOwnedBind(c)
Working(c) ==
  \/ AuthorizeStage(c) \/ AuthorizePublish(c)
  \/ Bind(c) \/ MoveMount(c) \/ BindVerified(c)
  \/ Inspect(c) \/ MoveToQuarantine(c) \/ Detach(c)
Driver ==
  \/ \E c \in Calls, v \in Volumes :
       \/ \E op \in {"stage", "unstage"} : Enter(c, op, v, None)
       \/ \E op \in {"publish", "unpublish"}, t \in TargetsOf[v] : Enter(c, op, v, t)
  \/ \E c \in Procs : Locking(c) \/ Working(c) \/ Cancel(c)
  \/ BeginTerminalStop \/ Drain \/ InspectNode
Next == Driver \/ Restart \/ \E l \in Disturbed : ForeignMount(l) \/ ForeignUnmount(l)

Spec == Init /\ [][Next]_vars
-----------------------------------------------------------------------------
\* Properties

\* Type invariant of the node plugin.
NodeTypeOK ==
  /\ table \in [Paths -> Seq(Mount)] /\ quarantine \in Seq(Mount)
  /\ locks \in [Paths -> Procs \cup {None}]
  /\ closed \in BOOLEAN /\ evidence \in BOOLEAN /\ shared \in BOOLEAN
  /\ call \in [Procs -> [op : Ops, vol : Volumes \cup {None},
                         tgt : Targets \cup {None}, pc : PCs, id : Ids \cup {0}]]
  /\ faults \in 0..MaxFaults

\* A SINGLE_NODE_WRITER volume is mounted at one target at most, however
\* publications of it interleave and fail.
OneTarget == \A v \in SingleWriter : Cardinality(PublishOf(v)) <= 1

\* Once this process reported the parent as unmounted, none of its mounts is
\* left on the node: no call that was admitted earlier brings one back.
EvidenceHolds ==
  evidence => \A l \in Paths : \A m \in Elems(table[l]) \cup Elems(quarantine) :
                m.of = Foreign

\* The plugin never unmounts a staging mount that some call reported while its
\* volume is published.
StageOutlivesPublish ==
  [][Driver => \A v \in Volumes : PublishOf(v) # {} =>
       {m \in StageOf(v) : \A c \in Calls : call[c].pc = "verify" => call[c].id # m.id}
         \subseteq Elems(table'[v]) \cup Elems(quarantine')]_vars

\* How many mounts of somebody else there are.
ForeignMounts ==
  Cardinality({<<l, i>> \in Paths \X Ids :
                 \E m \in Elems(table[l]) : m = [id |-> i, of |-> Foreign]})
    + Cardinality({m \in Elems(quarantine) : m.of = Foreign})
\* Where mounts can be moved, no step of the plugin detaches a mount that
\* somebody else made, also one stacked between the last proof and the move.
ForeignKept == [][Driver /\ ~shared => ForeignMounts' >= ForeignMounts]_vars

\* A lock belongs to a call that still runs and that the lock was taken for: no
\* return path keeps one, so that later calls do not wait forever.
NoLeakedLock ==
  \A l \in Paths : locks[l] # None =>
    LET c == call[locks[l]]
    IN c # Idle /\ l \in {c.vol, c.tgt, Root} /\ (l = Root => c.op = "publish")

\* What concurrent calls on one node never break, whatever fails under way.
NodeSafety == NodeTypeOK /\ OneTarget /\ NoLeakedLock
=============================================================================
