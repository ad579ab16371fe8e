----------------------------- MODULE Uninstall -----------------------------
(***************************************************************************)
(* The two terminal workflows of csi-admin: the safe uninstall of a        *)
(* release and the decommission of one draining parent.  Both are driven   *)
(* by an operator's process that keeps its progress in a ConfigMap, and    *)
(* executed by the controller and node plugins, which keep theirs in       *)
(* memory:                                                                 *)
(*                                                                         *)
(*   pkg/admin/uninstall_coordinator.go, decommission.go    the sequence   *)
(*   internal/admincli/kubernetes_uninstall.go,                            *)
(*     kubernetes_decommission.go            phases and durable progress   *)
(*   internal/driverapp/uninstall_runtime.go, decommission_runtime.go,     *)
(*     uninstall_cleanup.go                  the controller's part         *)
(*   pkg/admin/node_uninstall.go             a node plugin's part          *)
(*   pkg/scaleway/detach.go                  the provider's part           *)
(*                                                                         *)
(* A volume mutation and a node call are single steps here: that the gate  *)
(* of the controller and of a node drains them before it closes is the     *)
(* subject of MutationGate and NodeService.                                *)
(***************************************************************************)
EXTENDS Integers, FiniteSets

CONSTANTS
    Clis,           \* processes of the operator
    RequestOf,      \* the request ID each of them was started with
    Requests,       \* request IDs
    Decommissions,  \* the requests that decommission; the others uninstall
    ParentsOf,      \* the parents a request removes
    Parents, Draining,
    Volumes, ParentOf,
    Nodes, Host,    \* Host: the node that runs the controller
    Ctl,            \* stands for the controller Pod beside the node Pods
    None, Ready, Held, Other,
    Faults,         \* the kinds of fault a run admits
    MaxFaults       \* how many of them

ASSUME UninstallAssumption ==
    /\ RequestOf \in [Clis -> Requests] /\ Decommissions \subseteq Requests
    /\ ParentsOf \in [Requests -> SUBSET Parents]
    /\ \A r \in Requests : r \notin Decommissions => ParentsOf[r] = Parents
    /\ \A r \in Decommissions : ParentsOf[r] \subseteq Draining
    /\ Draining \subseteq Parents /\ ParentOf \in [Volumes -> Parents]
    /\ Host \in Nodes /\ Ctl \notin Nodes /\ MaxFaults \in Nat
    /\ Faults \subseteq {"interrupt", "controller", "node", "provider"}

VARIABLES
    vol,        \* a volume's record: None, Ready, or the node it is published to
    staged,     \* staging mounts, as <<volume, node>>
    mounted,    \* parents mounted by a node plugin, as <<parent, node>>
    cmounted,   \* parents mounted by the controller
    att,        \* provider attachments, as <<parent, node>>
    detaching,  \* those the provider has been asked to detach
    lease,      \* Held, the request that released it, or Other
    ctl,        \* the controller's process memory
    daemonset, pods, stop, unready,  \* node plugins: object, Pods, memory, readiness
    replicas,   \* whether the Deployment wants its one Pod
    gen,        \* UIDs of the Pods
    progress,   \* the ConfigMap of each request
    cli,        \* the operator's processes
    faults

kube == <<daemonset, pods, stop, unready, replicas, gen>>
data == <<vol, staged, mounted, cmounted, att, detaching>>
vars == <<data, kube, lease, ctl, progress, cli, faults>>

-----------------------------------------------------------------------------
\* State.

\* What the progress ConfigMap of an uninstall records beside the quiesce that
\* creates it: the evidence of each node, and the phases completed.
UninstallFacts == Nodes \cup {"deleted", "stopped", "cleaned", "released", "scaled",
                              "done"}
\* That of a decommission also records the validation under the closed gate.
Facts == UninstallFacts \cup {"validated"}

Pods == Nodes \cup {Ctl}
Progress == [facts: SUBSET Facts, gen: [Pods -> 0 .. MaxFaults]]

\* The controller process: standing by for the Lease, serving, or released;
\* its gate's owner, and the workflow's request, validation and evidence.
Controller(phase) ==
    [phase |-> phase, gate |-> None, req |-> None, valid |-> FALSE,
     work |-> None, cleaned |-> FALSE]

\* The phases of one execution, in the order Prepare runs them.
PCs == {"idle", "read", "records", "quiesce", "create", "reread", "rerecords",
        "nodes", "delete", "stop", "cleanup", "release", "scale", "end", "audit",
        "audited"}

\* An execution: where it is, the progress and Pod UIDs it has read, and the
\* fact it has established and not yet recorded.
Cli == [pc: PCs, seen: SUBSET Facts, known: BOOLEAN,
        gen: [Pods -> 0 .. MaxFaults], did: Facts \cup {None}]

NoPods == [x \in Pods |-> 0]
IdleCli == [pc |-> "idle", seen |-> {}, known |-> FALSE, gen |-> NoPods, did |-> None]

Init ==
    /\ vol \in [Volumes -> {None, Ready}]
    /\ staged = {} /\ mounted = {}
    /\ cmounted = Parents /\ att = Parents \X {Host} /\ detaching = {}
    /\ lease = Held /\ ctl = Controller("serving")
    /\ daemonset = TRUE /\ pods = Nodes /\ replicas = TRUE
    /\ stop = [n \in Nodes |-> None] /\ unready = {}
    /\ gen = NoPods
    /\ progress = [r \in Requests |-> None]
    /\ cli = [c \in Clis |-> IdleCli]
    /\ faults = 0

Fault(kind) == kind \in Faults /\ faults < MaxFaults /\ faults' = faults + 1

-----------------------------------------------------------------------------
\* The driver in service.

Admitted == ctl.phase = "serving" /\ ctl.gate = None

\* The volume has a record, a PersistentVolume and perhaps a claim.
Exists(v) == vol[v] # None
\* It has a VolumeAttachment for a workload Pod.
Attached(v) == vol[v] \in Nodes

CreateVolume(v) ==
    /\ Admitted /\ vol[v] = None /\ ParentOf[v] \notin Draining
    /\ vol' = [vol EXCEPT ![v] = Ready]
    /\ UNCHANGED <<staged, mounted, cmounted, att, detaching, kube, lease, ctl,
                   progress, cli, faults>>

\* ControllerPublish attaches the parent before it records the node.
Publish(v, n) ==
    /\ Admitted /\ vol[v] = Ready /\ n \in pods
    /\ <<ParentOf[v], n>> \notin detaching
    /\ vol' = [vol EXCEPT ![v] = n]
    /\ att' = att \cup {<<ParentOf[v], n>>}
    /\ UNCHANGED <<staged, mounted, cmounted, detaching, kube, lease, ctl,
                   progress, cli, faults>>

\* Kubernetes unpublishes a volume once the node has unstaged it.
Unpublish(v) ==
    /\ Admitted /\ Attached(v) /\ <<v, vol[v]>> \notin staged
    /\ vol' = [vol EXCEPT ![v] = Ready]
    /\ UNCHANGED <<staged, mounted, cmounted, att, detaching, kube, lease, ctl,
                   progress, cli, faults>>

DeleteVolume(v) ==
    /\ Admitted /\ vol[v] = Ready
    /\ vol' = [vol EXCEPT ![v] = None]
    /\ UNCHANGED <<staged, mounted, cmounted, att, detaching, kube, lease, ctl,
                   progress, cli, faults>>

Stage(v, n) ==
    /\ n \in pods /\ stop[n] = None
    /\ vol[v] = n /\ <<ParentOf[v], n>> \in att /\ <<v, n>> \notin staged
    /\ staged' = staged \cup {<<v, n>>}
    /\ mounted' = mounted \cup {<<ParentOf[v], n>>}
    /\ UNCHANGED <<vol, cmounted, att, detaching, kube, lease, ctl, progress, cli, faults>>

\* Unstage leaves the parent mounted: the warm mount.
Unstage(v, n) ==
    /\ n \in pods /\ stop[n] = None /\ <<v, n>> \in staged
    /\ staged' = staged \ {<<v, n>>}
    /\ UNCHANGED <<vol, mounted, cmounted, att, detaching, kube, lease, ctl,
                   progress, cli, faults>>

\* A controller process becomes the leader and attaches and mounts every
\* parent on its own node.  A released Lease is taken automatically, one that
\* is still held only with the operator's approved takeover.
Lead ==
    /\ ctl.phase = "standby"
    /\ IF lease = Held THEN Fault("controller") ELSE UNCHANGED faults
    /\ (Parents \X {Host}) \cap detaching = {}
    /\ lease' = Held
    /\ ctl' = Controller("serving")
    /\ cmounted' = Parents
    /\ att' = att \cup (Parents \X {Host})
    /\ UNCHANGED <<vol, staged, mounted, detaching, kube, progress, cli>>

\* The controller's container restarts (same Pod), or its Pod is replaced.
\* An orderly stop releases the Lease only when no request owns the gate.
ControllerRestarts(replaced) ==
    /\ ctl.phase # "gone" /\ replicas /\ Fault("controller")
    /\ gen' = [gen EXCEPT ![Ctl] = IF replaced THEN @ + 1 ELSE @]
    /\ lease' = IF replaced /\ Admitted THEN Other ELSE lease
    /\ ctl' = Controller("standby")
    /\ cmounted' = {}
    /\ UNCHANGED <<vol, staged, mounted, att, detaching, daemonset, pods, stop,
                   unready, replicas, progress, cli>>

\* A node plugin's container restarts, or its Pod is replaced: the stop
\* request it held is gone, the mounts of the kernel are not.
NodeRestarts(n, replaced) ==
    /\ n \in pods /\ daemonset /\ Fault("node")
    /\ stop' = [stop EXCEPT ![n] = None]
    /\ gen' = [gen EXCEPT ![n] = IF replaced THEN @ + 1 ELSE @]
    /\ UNCHANGED <<data, daemonset, pods, unready, replicas, lease, ctl, progress, cli>>

\* The kubelet's readiness probe: a plugin that was told to stop is not Ready.
Probe(n) ==
    /\ n \in pods
    /\ unready' = IF stop[n] = None THEN unready \ {n} ELSE unready \cup {n}
    /\ unready' # unready
    /\ UNCHANGED <<data, daemonset, pods, stop, replicas, gen, lease, ctl, progress,
                   cli, faults>>

PodStops(n) ==
    /\ ~daemonset /\ n \in pods
    /\ pods' = pods \ {n}
    /\ stop' = [stop EXCEPT ![n] = None]
    /\ unready' = unready \ {n}
    /\ UNCHANGED <<data, daemonset, replicas, gen, lease, ctl, progress, cli, faults>>

ControllerStops ==
    /\ ~replicas /\ ctl.phase # "gone"
    /\ lease' = IF Admitted THEN Other ELSE lease
    /\ ctl' = Controller("gone")
    /\ cmounted' = {}
    /\ UNCHANGED <<vol, staged, mounted, att, detaching, kube, progress, cli, faults>>

-----------------------------------------------------------------------------
\* The provider and the controller's cleanup.

DetachLands(a) ==
    /\ a \in detaching
    /\ detaching' = detaching \ {a}
    /\ att' = att \ {a}
    /\ UNCHANGED <<vol, staged, mounted, cmounted, kube, lease, ctl, progress, cli, faults>>

\* requireActiveRequest of both workflows.
ActiveRequest(r) ==
    ctl.phase = "serving" /\ ctl.req = r /\ ctl.gate = r

\* Fault seeded for a mutant: the attachments of every parent are cleaned up.
RequestAnyDetach(a) ==
    /\ ctl.work # None /\ a \in att \ detaching
    /\ detaching' = detaching \cup {a}
    /\ UNCHANGED <<vol, staged, mounted, cmounted, att, kube, lease, ctl, progress,
                   cli, faults>>

\* EnsureDetached asks for each attachment it saw, once.
RequestDetach(a) ==
    /\ ctl.work # None /\ a \in att \ detaching /\ a[1] \in ParentsOf[ctl.work]
    /\ detaching' = detaching \cup {a}
    /\ UNCHANGED <<vol, staged, mounted, cmounted, att, kube, lease, ctl, progress,
                   cli, faults>>

\* Fault seeded for a mutant: a detach that was accepted counts as done.
EvidenceOfRequests ==
    /\ ctl.work # None
    /\ \A a \in att \ detaching : a[1] \notin ParentsOf[ctl.work]
    /\ ctl' = [ctl EXCEPT !.work = None, !.cleaned = TRUE]
    /\ UNCHANGED <<data, kube, lease, progress, cli, faults>>

\* finalEvidence: fresh regional and Instance inventories hold no cleaned parent.
FinalEvidence ==
    /\ ctl.work # None
    /\ \A a \in att : a[1] \notin ParentsOf[ctl.work]
    /\ ctl' = [ctl EXCEPT !.work = None, !.cleaned = TRUE]
    /\ UNCHANGED <<data, kube, lease, progress, cli, faults>>

\* The cleanup fails: a deadline, a provider error, a cancelled call.
CleanupFails ==
    /\ ctl.work # None /\ Fault("provider")
    /\ ctl' = [ctl EXCEPT !.work = None]
    /\ UNCHANGED <<data, kube, lease, progress, cli>>

-----------------------------------------------------------------------------
\* The operator's process: reading the release.

Req(c) == RequestOf[c]
At(c, pc) == cli[c].pc = pc /\ cli[c].did = None
Goto(c, pc) == cli' = [cli EXCEPT ![c].pc = pc]
Did(c, fact) == cli' = [cli EXCEPT ![c].did = fact]
Abort(c) == cli' = [cli EXCEPT ![c] = IdleCli]

\* A request is executed, or executed again after an interruption.
Start(c) ==
    /\ cli[c].pc \in {"idle", "audited"}
    /\ cli' = [cli EXCEPT ![c] = [IdleCli EXCEPT !.pc = "read"]]
    /\ UNCHANGED <<data, kube, lease, ctl, progress, faults>>

Interrupt(c) ==
    /\ cli[c].pc \notin {"idle", "audited"} /\ Fault("interrupt")
    /\ Abort(c)
    /\ UNCHANGED <<data, kube, lease, ctl, progress>>

Recorded(r) == IF progress[r] = None THEN {} ELSE progress[r].facts
SameUID(r, x) == progress[r] # None => gen[x] = progress[r].gen[x]

\* validateProgress: a phase is on record after the phases before it only.
InOrder(facts) ==
    /\ "deleted" \in facts => Nodes \subseteq facts
    /\ "stopped" \in facts => "deleted" \in facts
    /\ "cleaned" \in facts => "stopped" \in facts
    /\ "released" \in facts => "cleaned" \in facts
    /\ "scaled" \in facts => "released" \in facts
    /\ "done" \in facts => "scaled" \in facts
\* The one of a decommission: no node is touched before the validation.
DecommissionInOrder(facts) ==
    InOrder(facts) /\ (facts \cap Nodes # {} => "validated" \in facts)
ValidProgress(r, facts) ==
    IF r \in Decommissions THEN DecommissionInOrder(facts) ELSE InOrder(facts)

\* What the shared discovery is given: syntheticUninstallProgress hands a
\* decommission's progress over without its node evidence and its cleanup.
Handed(r) ==
    IF r \in Decommissions THEN Recorded(r) \ (Nodes \cup {"validated", "cleaned"})
    ELSE Recorded(r)

\* An absent DaemonSet is accepted with this request's deletion on record, or
\* with every node's evidence.
DaemonSetExplained(r) ==
    daemonset \/ "deleted" \in Handed(r) \/ Nodes \subseteq Handed(r)

ControllerExplained(r) ==
    IF "scaled" \notin Handed(r) /\ ("released" \in Handed(r) => replicas)
    THEN replicas /\ ctl.phase # "gone" /\ SameUID(r, Ctl)
    ELSE ~replicas

Touches(v, r) == ParentOf[v] \in ParentsOf[r]

\* discoverNodeTargets: one Ready Pod of the DaemonSet on every node.
NodeTargetsFound == daemonset /\ pods = Nodes /\ unready = {}

\* Every node plugin answers an inspection that finds no child mount, unless
\* the node plugins are known or seen to be gone.
NodesExplained(r) ==
    IF "stopped" \in Handed(r) \/ (progress[r] # None /\ ~daemonset /\ pods = {})
    THEN pods = {}
    ELSE /\ NodeTargetsFound
         /\ \A n \in Nodes : SameUID(r, n)
         /\ \A s \in staged : ~Touches(s[1], r)

\* Whether this read goes on to the records: a decommission whose inventory
\* was validated under the closed gate does not collect it again.
ReadsRecords(r) == r \in Decommissions => "validated" \notin Recorded(r)

Discover(c) ==
    /\ cli[c].pc \in {"read", "reread"}
    /\ LET r == Req(c)
           next == CASE ReadsRecords(r) /\ cli[c].pc = "read" -> "records"
                     [] ReadsRecords(r) /\ cli[c].pc = "reread" -> "rerecords"
                     [] ~ReadsRecords(r) /\ cli[c].pc = "read" -> "reread"
                     [] OTHER -> "nodes"
       IN  IF /\ ValidProgress(r, Recorded(r))
              /\ DaemonSetExplained(r) /\ ControllerExplained(r) /\ NodesExplained(r)
           THEN cli' = [cli EXCEPT ![c] =
                   [pc |-> next, seen |-> Recorded(r), known |-> progress[r] # None,
                    gen |-> IF progress[r] = None THEN gen ELSE progress[r].gen,
                    did |-> None]]
           ELSE Abort(c)
    /\ UNCHANGED <<data, kube, lease, ctl, progress, faults>>

\* UninstallPreflightBlockers, over what readPreflight lists.
NoReleaseBlocker == \A v \in Volumes : ~Exists(v) /\ ~Attached(v)
\* targetKubernetesBlockers: the objects of the volumes on the parent.
NoParentObjects(r) == \A v \in Volumes : Touches(v, r) => ~Exists(v) /\ ~Attached(v)
\* DecommissionRecordBlockers: allocation and ownership records on the parent.
NoParentRecords(r) == \A v \in Volumes : Touches(v, r) => ~Exists(v)

\* InspectParent of the controller, which a decommission reads through.
InspectParent(r) ==
    /\ ctl.phase = "serving" /\ (ctl.req = None \/ ActiveRequest(r))
    /\ NoParentRecords(r)
\* The inventory of a request is read and has no blocker.
NoBlocker(r) ==
    IF r \in Decommissions THEN NoParentObjects(r) /\ InspectParent(r)
    ELSE NoReleaseBlocker

\* Fault seeded for a mutant: what was read before the gate closed is trusted.
ReadRecordsOnce(c) ==
    /\ At(c, "records") \/ At(c, "rerecords")
    /\ IF cli[c].known \/ NoBlocker(Req(c))
       THEN Goto(c, CASE cli[c].pc = "rerecords" -> "nodes"
                      [] cli[c].known -> "reread"
                      [] OTHER -> "quiesce")
       ELSE Abort(c)
    /\ UNCHANGED <<data, kube, lease, ctl, progress, faults>>

ReadRecords(c) ==
    /\ At(c, "records") \/ At(c, "rerecords")
    /\ LET r == Req(c) IN
       CASE ~NoBlocker(r) -> Abort(c)
         [] NoBlocker(r) /\ r \in Decommissions /\ cli[c].known -> Did(c, "validated")
         [] OTHER -> Goto(c, CASE cli[c].pc = "rerecords" -> "nodes"
                               [] cli[c].known -> "reread"
                               [] OTHER -> "quiesce")
    /\ UNCHANGED <<data, kube, lease, ctl, progress, faults>>

-----------------------------------------------------------------------------
\* The operator's process: phases.

\* requirePod: the very Pod of the plan, running and not being deleted.
PodIs(c, x) ==
    /\ gen[x] = cli[c].gen[x]
    /\ IF x = Ctl THEN replicas /\ ctl.phase # "gone" ELSE daemonset /\ x \in pods

\* BeginQuiesce admits the request: its own barrier, or none yet.
BarrierIsFree(r) ==
    \/ ctl.req = r /\ ctl.gate = r
    \/ ctl.req = None /\ ctl.phase = "serving" /\ ctl.gate \in {None, r}
MayQuiesce(c) == PodIs(c, Ctl) /\ BarrierIsFree(Req(c))
Refuse(c) == Abort(c) /\ UNCHANGED <<ctl, faults>>

\* Quiesce: the gate closes first. When the journals or the inventory cannot
\* be read it stays closed, and the workflow does not know the request.
Quiesce(c) ==
    /\ At(c, "quiesce") /\ Req(c) \notin Decommissions
    /\ \/ /\ MayQuiesce(c) /\ Goto(c, "create") /\ UNCHANGED faults
          /\ ctl' = [ctl EXCEPT !.gate = Req(c), !.req = Req(c), !.valid = TRUE]
       \/ /\ MayQuiesce(c) /\ ~ctl.valid /\ Fault("provider") /\ Abort(c)
          /\ ctl' = [ctl EXCEPT !.gate = Req(c)]
       \/ ~MayQuiesce(c) /\ Refuse(c)
    /\ UNCHANGED <<data, kube, lease, progress>>

\* QuiesceParent: validateQuiescedParent reads the records behind the gate, and
\* the workflow knows the request also where it refuses.
QuiesceParent(c) ==
    /\ At(c, "quiesce") /\ Req(c) \in Decommissions
    /\ \/ /\ MayQuiesce(c) /\ (ctl.valid \/ NoParentRecords(Req(c)))
          /\ Goto(c, "create") /\ UNCHANGED faults
          /\ ctl' = [ctl EXCEPT !.gate = Req(c), !.req = Req(c), !.valid = TRUE]
       \/ /\ MayQuiesce(c) /\ ~ctl.valid /\ Abort(c)
          /\ IF NoParentRecords(Req(c)) THEN Fault("provider") ELSE UNCHANGED faults
          /\ ctl' = [ctl EXCEPT !.gate = Req(c), !.req = Req(c)]
       \/ ~MayQuiesce(c) /\ Refuse(c)
    /\ UNCHANGED <<data, kube, lease, progress>>

\* The progress object is created once; the same content counts as created.
StartProgress(c) ==
    /\ At(c, "create")
    /\ LET new == [facts |-> {}, gen |-> cli[c].gen]
       IN  IF progress[Req(c)] \in {None, new}
           THEN progress' = [progress EXCEPT ![Req(c)] = new] /\ Goto(c, "reread")
           ELSE Abort(c) /\ UNCHANGED progress
    /\ UNCHANGED <<data, kube, lease, ctl, faults>>
CreateProgress(c) == Req(c) \notin Decommissions /\ StartProgress(c)
DecommissionCreateProgress(c) == Req(c) \in Decommissions /\ StartProgress(c)

After(pc) ==
    CASE pc = "records" -> "reread" [] pc = "rerecords" -> "nodes" [] pc = "nodes" -> "nodes"
      [] pc = "delete" -> "stop" [] pc = "stop" -> "cleanup" [] pc = "cleanup" -> "release"
      [] pc = "release" -> "scale" [] pc = "scale" -> "end" [] pc = "end" -> "audit"

FactOf(pc) ==
    CASE pc = "delete" -> "deleted" [] pc = "stop" -> "stopped" [] pc = "cleanup" -> "cleaned"
      [] pc = "release" -> "released" [] pc = "scale" -> "scaled" [] pc = "end" -> "done"

\* updateProgress: a compare-and-swap; after an error the object is read back
\* and the same bytes count as success.  The completion time never compares equal.
Swap(c) ==
    /\ cli[c].did # None
    /\ LET r == Req(c)
           new == cli[c].seen \cup {cli[c].did}
       IN  IF /\ ValidProgress(r, new)
              /\ Recorded(r) = cli[c].seen \/ (Recorded(r) = new /\ cli[c].did # "done")
           THEN /\ progress' = [progress EXCEPT ![r].facts = new]
                /\ cli' = [cli EXCEPT ![c].seen = new, ![c].did = None, ![c].pc = After(@)]
           ELSE Abort(c) /\ UNCHANGED progress
    /\ UNCHANGED <<data, kube, lease, ctl, faults>>
Record(c) == Req(c) \notin Decommissions /\ Swap(c)
DecommissionRecord(c) == Req(c) \in Decommissions /\ Swap(c)

\* A phase already on record is not executed again.
Skip(c) ==
    /\ cli[c].did = None
    /\ \/ At(c, "nodes") /\ Nodes \subseteq cli[c].seen /\ Goto(c, "delete")
       \/ /\ cli[c].pc \in {"delete", "stop", "cleanup", "release", "scale", "end"}
          /\ FactOf(cli[c].pc) \in cli[c].seen
          /\ Goto(c, After(cli[c].pc))
    /\ UNCHANGED <<data, kube, lease, ctl, progress, faults>>

Todo(c, pc) == At(c, pc) /\ FactOf(pc) \notin cli[c].seen

\* The node's prepare: readiness is dropped and the node's gate closes before
\* the mounts are looked at; a child mount refuses.
PrepareNode(c, n) ==
    LET r == Req(c)
        children == \E s \in staged : s[2] = n /\ Touches(s[1], r)
    IN  /\ stop' = [stop EXCEPT ![n] = r]
        /\ IF children THEN Abort(c) /\ UNCHANGED mounted
           ELSE Did(c, n) /\ mounted' = mounted \ (ParentsOf[r] \X {n})
Unmount(c, n) ==
    /\ At(c, "nodes") /\ n \notin cli[c].seen
    /\ IF PodIs(c, n) /\ stop[n] \in {None, Req(c)} THEN PrepareNode(c, n)
       ELSE Abort(c) /\ UNCHANGED <<stop, mounted>>
    /\ UNCHANGED <<vol, staged, cmounted, att, detaching, daemonset, pods, unready,
                   replicas, gen, lease, ctl, progress, faults>>

UnmountNodeParents(c, n) == Req(c) \notin Decommissions /\ Unmount(c, n)
\* A decommission has the validation on record before it touches a node.
UnmountNodeParent(c, n) ==
    Req(c) \in Decommissions /\ "validated" \in cli[c].seen /\ Unmount(c, n)

\* The DaemonSet, by its UID and with foreground propagation.
DeleteDaemonSet(c) ==
    /\ Todo(c, "delete")
    /\ daemonset' = FALSE
    /\ Did(c, "deleted")
    /\ UNCHANGED <<data, pods, stop, unready, replicas, gen, lease, ctl, progress, faults>>
DeleteNodePlugin(c) == Req(c) \notin Decommissions /\ DeleteDaemonSet(c)
DecommissionDeleteNodePlugin(c) == Req(c) \in Decommissions /\ DeleteDaemonSet(c)

\* No Pod of the node plugin is listed any more, not even a deleting one.
AwaitNodePlugin(c) ==
    /\ Todo(c, "stop") /\ pods = {}
    /\ Did(c, "stopped")
    /\ UNCHANGED <<data, kube, lease, ctl, progress, faults>>
WaitNodePluginStopped(c) == Req(c) \notin Decommissions /\ AwaitNodePlugin(c)
DecommissionWaitNodePlugin(c) == Req(c) \in Decommissions /\ AwaitNodePlugin(c)

\* The controller's cleanup: unmountParents of its own mounts, then the
\* detaches; the evidence of a finished cleanup is kept by the process.
UnmountParents(r) == cmounted' = cmounted \ ParentsOf[r]
\* Cleanup, and CleanupParent, which also needs the quiesced validation.
MayCleanUp(r) == ActiveRequest(r)
MayCleanUpParent(r) == ActiveRequest(r) /\ ctl.valid
CleanUp(c, may) ==
    /\ Todo(c, "cleanup")
    /\ LET r == Req(c) IN
       CASE ~may -> Abort(c) /\ UNCHANGED <<ctl, cmounted>>
         [] may /\ ctl.cleaned -> Did(c, "cleaned") /\ UNCHANGED <<ctl, cmounted>>
         [] OTHER -> /\ ctl.work = None /\ UnmountParents(r)
                     /\ ctl' = [ctl EXCEPT !.work = r]
                     /\ UNCHANGED cli
    /\ UNCHANGED <<vol, staged, mounted, att, detaching, kube, lease, progress, faults>>
CleanupControllerParents(c) ==
    Req(c) \notin Decommissions /\ CleanUp(c, PodIs(c, Ctl) /\ MayCleanUp(Req(c)))
CleanupControllerParent(c) ==
    Req(c) \in Decommissions /\ CleanUp(c, PodIs(c, Ctl) /\ MayCleanUpParent(Req(c)))

\* Release and ReleaseAfterParentCleanup: only after the cleanup; a repeated
\* call gets the same answer.
MayRelease(r) ==
    \/ ctl.phase = "released" /\ ctl.req = r
    \/ ActiveRequest(r) /\ ctl.cleaned
ReleaseLease(c) ==
    /\ Todo(c, "release")
    /\ IF PodIs(c, Ctl) /\ MayRelease(Req(c))
       THEN /\ lease' = Req(c) /\ ctl' = [ctl EXCEPT !.phase = "released"]
            /\ Did(c, "released")
       ELSE Abort(c) /\ UNCHANGED <<lease, ctl>>
    /\ UNCHANGED <<data, kube, progress, faults>>
ReleaseController(c) == Req(c) \notin Decommissions /\ ReleaseLease(c)
ReleaseControllerAfterDecommission(c) == Req(c) \in Decommissions /\ ReleaseLease(c)

\* ValidateUninstallCompletion, over the evidence on record.
CompletionProven(facts) == Nodes \cup {"cleaned", "released"} \subseteq facts

Scale(c) ==
    /\ replicas' = FALSE /\ Did(c, "scaled")
    /\ UNCHANGED <<data, daemonset, pods, stop, unready, gen, lease, ctl, progress, faults>>
ScaleControllerToZero(c) == Todo(c, "scale") /\ Req(c) \notin Decommissions /\ Scale(c)
\* A decommission proves its completion before it scales the controller down.
DecommissionScaleToZero(c) ==
    /\ Todo(c, "scale") /\ Req(c) \in Decommissions
    /\ IF CompletionProven(cli[c].seen) THEN Scale(c)
       ELSE Abort(c) /\ UNCHANGED <<data, kube, lease, ctl, progress, faults>>

\* No controller Pod is listed any more.
AwaitController(c) ==
    /\ Todo(c, "end") /\ ctl.phase = "gone"
    /\ Did(c, "done")
    /\ UNCHANGED <<data, kube, lease, ctl, progress, faults>>
WaitControllerStopped(c) == Req(c) \notin Decommissions /\ AwaitController(c)
DecommissionWaitController(c) == Req(c) \in Decommissions /\ AwaitController(c)

\* An audit has the evidence of every node and of the controller, and the time
\* of completion.  An uninstall proves its completion last.
UninstallAuditValid(facts) == Nodes \cup {"cleaned", "released", "done"} \subseteq facts
DecommissionAuditValid(facts) == Nodes \cup {"cleaned", "released", "done"} \subseteq facts
Emit(c, valid) ==
    /\ At(c, "audit")
    /\ IF valid THEN Goto(c, "audited") ELSE Abort(c)
    /\ UNCHANGED <<data, kube, lease, ctl, progress, faults>>
Audit(c) ==
    /\ Req(c) \notin Decommissions
    /\ Emit(c, CompletionProven(cli[c].seen) /\ UninstallAuditValid(cli[c].seen))
DecommissionAudit(c) ==
    Req(c) \in Decommissions /\ Emit(c, DecommissionAuditValid(cli[c].seen))

-----------------------------------------------------------------------------
Execute(c) ==
    \/ Start(c) \/ Discover(c) \/ ReadRecords(c) \/ Quiesce(c) \/ QuiesceParent(c)
    \/ CreateProgress(c) \/ DecommissionCreateProgress(c) \/ Record(c)
    \/ DecommissionRecord(c) \/ Skip(c) \/ Audit(c) \/ DecommissionAudit(c)
    \/ \E n \in Nodes : UnmountNodeParents(c, n) \/ UnmountNodeParent(c, n)
    \/ DeleteNodePlugin(c) \/ DecommissionDeleteNodePlugin(c)
    \/ WaitNodePluginStopped(c) \/ DecommissionWaitNodePlugin(c)
    \/ CleanupControllerParents(c) \/ CleanupControllerParent(c)
    \/ ReleaseController(c) \/ ReleaseControllerAfterDecommission(c)
    \/ ScaleControllerToZero(c) \/ DecommissionScaleToZero(c)
    \/ WaitControllerStopped(c) \/ DecommissionWaitController(c)

Service ==
    \/ \E v \in Volumes : CreateVolume(v) \/ Unpublish(v) \/ DeleteVolume(v)
    \/ \E v \in Volumes, n \in Nodes : Publish(v, n) \/ Stage(v, n) \/ Unstage(v, n)

Platform ==
    \/ Lead \/ ControllerStops \/ FinalEvidence
    \/ \E n \in Nodes : Probe(n) \/ PodStops(n)
    \/ \E a \in Parents \X Nodes : DetachLands(a) \/ RequestDetach(a)

Disturbance ==
    \/ CleanupFails
    \/ \E replaced \in BOOLEAN :
          ControllerRestarts(replaced) \/ \E n \in Nodes : NodeRestarts(n, replaced)
    \/ \E c \in Clis : Interrupt(c)

Next == Service \/ Platform \/ Disturbance \/ \E c \in Clis : Execute(c)

Spec == Init /\ [][Next]_vars

\* The operator executes again after every interruption; the platform stops
\* Pods it was told to stop, and the provider answers.
FairSpec ==
    /\ Spec
    /\ \A c \in Clis : WF_vars(Execute(c))
    /\ WF_vars(ControllerStops) /\ WF_vars(FinalEvidence)
    /\ \A n \in Nodes : WF_vars(Probe(n)) /\ WF_vars(PodStops(n))
    /\ \A a \in Parents \X Nodes : WF_vars(DetachLands(a)) /\ WF_vars(RequestDetach(a))

-----------------------------------------------------------------------------
\* Properties.

TypeOK ==
    /\ vol \in [Volumes -> {None, Ready} \cup Nodes]
    /\ staged \subseteq Volumes \X Nodes
    /\ mounted \subseteq Parents \X Nodes /\ cmounted \subseteq Parents
    /\ detaching \subseteq att /\ att \subseteq Parents \X Nodes
    /\ lease \in Requests \cup {Held, Other}
    /\ ctl \in [phase: {"standby", "serving", "released", "gone"},
                gate: Requests \cup {None}, req: Requests \cup {None}, valid: BOOLEAN,
                work: Requests \cup {None}, cleaned: BOOLEAN]
    /\ daemonset \in BOOLEAN /\ pods \subseteq Nodes /\ unready \subseteq pods
    /\ stop \in [Nodes -> Requests \cup {None}] /\ replicas \in BOOLEAN
    /\ gen \in [Pods -> 0 .. MaxFaults]
    /\ progress \in [Requests -> Progress \cup {None}]
    /\ cli \in [Clis -> Cli] /\ faults \in 0 .. MaxFaults

\* The provider never takes a parent away from a node whose kernel, or whose
\* controller process, still has it mounted (EnsureDetached relies on evidence
\* collected earlier, by other processes).
DetachedUnmounted ==
    [][\A a \in att \ att' : a \notin mounted /\ (a[2] = Host => a[1] \notin cmounted)]_vars

\* Only what a request asked for is detached: a parent leaves a node when a
\* request for that parent has durable progress (CleanupParent leaves the other
\* parents of the release alone).
OnlyRequestedDetached ==
    [][\A a \in att \ att' : \E r \in Requests : progress[r] # None /\ a[1] \in ParentsOf[r]]_vars

\* A finished request left nothing behind: no live volume, mount or attachment
\* of its parents, as long as the Lease still carries its release marker.
FinishedIsClean ==
    \A r \in Requests :
        "done" \in Recorded(r) /\ lease = r =>
            /\ NoParentObjects(r) /\ pods = {} /\ ctl.phase = "gone"
            /\ \A p \in ParentsOf[r] : /\ \A n \in Nodes : <<p, n>> \notin att \cup mounted
                                       /\ p \notin cmounted
            /\ \A s \in staged : ~Touches(s[1], r)

\* The state is well formed and a finished request is clean.
UninstallSafety == TypeOK /\ FinishedIsClean

\* What the audit is read as: a finished request left nothing attached.
AuditIsClean ==
    \A r \in Requests :
        "done" \in Recorded(r) => \A a \in att : a[1] \notin ParentsOf[r]

\* A request that has begun to stop node plugins is finished by executing it
\* again, as the operations guide promises of an interrupted execution.
InterruptedResumes ==
    \A r \in Requests : (\E n \in Nodes : stop[n] = r) ~> "done" \in Recorded(r)
=============================================================================
