----------------------------- MODULE Installation -----------------------------
(***************************************************************************)
(* Controller startup over the leadership protocol: fresh installation,     *)
(* missing-Lease recovery and the claim of every parent filesystem          *)
(* (internal/driverapp/parent_bootstrap.go, fresh_discovery.go and the      *)
(* startup of controller_runtime.go), with the durable metadata writer      *)
(* (pkg/safety/durable.go) step by step.                                    *)
(*                                                                          *)
(* A parent root is seen in its current state and in the state that a stop  *)
(* of the Instance may fall back to. Provider attachments land some time    *)
(* after they are requested, also after the requesting process has died.    *)
(***************************************************************************)
EXTENDS Leadership

CONSTANT Foreign  \* the claim of another installation

ASSUME InstallationAssumption == Foreign # None /\ Foreign \notin Nat

VARIABLES
  att,       \* Instances that a parent is attached to
  pend,      \* attachments requested and not yet made
  root,      \* the parent's root directory
  disk,      \* the part of it that is on stable storage
  dirty,     \* the Instance that caches the difference
  refs,      \* parents that allocations or PersistentVolumes refer to
  restored,  \* is the checkpoint Secret of a restore present
  boot       \* how far the startup of each process is

bvars == <<att, pend, root, disk, dirty, refs, restored>>
ivars == <<lvars, bvars, boot>>

-----------------------------------------------------------------------------
\* The root: the immutable claim (the attempt ID in it, or another installation's),
\* the temporary files of attempts and whether they are whole, and any other entry.
Temp == [id : Nat, whole : BOOLEAN]
Root == [claim : Nat \cup {None, Foreign}, temps : SUBSET Temp, layout : BOOLEAN]
EmptyRoot == [claim |-> None, temps |-> {}, layout |-> FALSE]
Ours(f) == root[f].claim \in Nat
TempsOf(r, id) == {t \in r.temps : t.id = id}

Steps == {"start", "planned", "mount", "mounted", "discover", "discovering",
          "discovered", "read", "temp", "write", "link", "unlink", "clear",
          "layout", "existing", "validate", "ready"}
Boot == [pc : Steps, f : Parents \cup {None}, done : SUBSET Parents]
Start == [pc |-> "start", f |-> None, done |-> {}]

\* A parent is given new, or it holds another installation's claim, or files.
Given == {EmptyRoot, [EmptyRoot EXCEPT !.claim = Foreign], [EmptyRoot EXCEPT !.layout = TRUE]}

IInit ==
  /\ Init
  /\ att = [f \in Parents |-> {}] /\ pend = {}
  /\ root \in [Parents -> Given] /\ disk = root
  /\ dirty = [f \in Parents |-> None]
  /\ refs = {} /\ restored = FALSE
  /\ boot = [p \in Pods |-> Start]

\* p is at step pc of its startup and waits for no update of the Lease.
At(p, pc) == boot[p].pc = pc /\ call[p].kind # "cas"
Goto(p, pc, f) == boot' = [boot EXCEPT ![p].pc = pc, ![p].f = f]
Finish(p, pc) == boot' = [boot EXCEPT ![p].pc = pc, ![p].f = None,
                                      ![p].done = @ \cup {boot[p].f}]

\* Startup of a process that ended, or of a new session, begins again.
Restart == boot' = [p \in Pods |-> IF phase'[p] # phase[p] THEN Start ELSE boot[p]]
Fail(p) == Exit(p) /\ Restart /\ UNCHANGED <<lease, leaseAge, environment, bvars>>

-----------------------------------------------------------------------------
\* EnsureMounted: attach the parent to the own Instance, then mount it

RequestAttach(p) ==
  /\ At(p, "mount") \/ At(p, "existing") \/ At(p, "discovering")
  /\ HostOf[p] \notin att[boot[p].f] /\ <<boot[p].f, HostOf[p]>> \notin pend
  /\ pend' = pend \cup {<<boot[p].f, HostOf[p]>>}
  /\ UNCHANGED <<lvars, att, root, disk, dirty, refs, restored, boot>>

AttachLands(a) ==
  /\ a \in pend /\ pend' = pend \ {a}
  /\ att' = [att EXCEPT ![a[1]] = @ \cup {a[2]}]
  /\ UNCHANGED <<lvars, root, disk, dirty, refs, restored, boot>>

EnsureMounted(p) ==
  /\ boot[p].f # None /\ HostOf[p] \in att[boot[p].f]
  /\ \/ At(p, "mount") /\ Goto(p, "mounted", boot[p].f)
     \/ At(p, "existing") /\ Goto(p, "validate", boot[p].f)
     \/ At(p, "discovering") /\ Goto(p, "discovered", boot[p].f)
  /\ UNCHANGED <<lvars, bvars>>

\* ListRegionalInventory: every page of the attachments of a parent, which must
\* be as many as its metadata reports.
RegionalInventory(f) == att[f]

\* requireCurrentAttemptOnly: nobody but this Instance has the parent.
CurrentAttemptOnly(p, f) == RegionalInventory(f) \subseteq {HostOf[p]}

-----------------------------------------------------------------------------
\* Fresh installation (VerifyFreshInstallation), under a provisional session

\* Kubernetes holds nothing; every parent is detached when the plan is new.
PreparePlan(p) ==
  /\ phase[p] = "provisional" /\ At(p, "start") /\ ~restored
  /\ IF refs = {} /\ (snap[p].plan = None => \A f \in Parents : RegionalInventory(f) = {})
     THEN SetFreshBootstrapPlan(p) /\ Goto(p, "planned", None) /\ UNCHANGED bvars
     ELSE Fail(p)

\* The plan is replayed in the Lease between the observation and the attachment.
InspectParent(p, f) ==
  /\ phase[p] = "provisional" /\ At(p, "planned") /\ f \notin boot[p].done
  /\ IF CurrentAttemptOnly(p, f)
     THEN SetFreshBootstrapPlan(p) /\ Goto(p, "mount", f) /\ UNCHANGED bvars
     ELSE Fail(p)

InspectFreshRoot(p) ==
  /\ phase[p] = "provisional" /\ At(p, "mounted")
  /\ IF RegionalInventory(boot[p].f) = {HostOf[p]} /\ root[boot[p].f] = EmptyRoot
     THEN Finish(p, "planned") /\ UNCHANGED <<lvars, bvars>>
     ELSE Fail(p)

VerifyFreshInstallation(p) ==
  /\ At(p, "planned") /\ boot[p].done = Parents
  /\ IF refs = {} THEN FreshVerified(p) /\ Restart /\ UNCHANGED bvars ELSE Fail(p)

-----------------------------------------------------------------------------
\* Missing-Lease recovery (DiscoverExistingReadOnly), also provisional

\* The capability to attach a parent before any approval: the live provisional
\* session with its discovery marker, for its own Instance only.
ProvisionalRecoveryTarget(p) ==
  phase[p] = "provisional" /\ snap[p].marker /\ host[HostOf[p]] = "running"

DiscoverExisting(p, f) ==
  /\ ProvisionalRecoveryTarget(p) /\ f \notin boot[p].done
  /\ (At(p, "start") /\ restored) \/ At(p, "discover")
  /\ Goto(p, "discovering", f) /\ UNCHANGED <<lvars, bvars>>

ValidateReadOnlyClaim(p) ==
  /\ At(p, "discovered")
  /\ IF Ours(boot[p].f) THEN Finish(p, "discover") /\ UNCHANGED <<lvars, bvars>> ELSE Fail(p)

AwaitRecoveryApproval(p) ==
  /\ At(p, "discover") /\ boot[p].done = Parents
  /\ RecoveryApproval(p) /\ Restart /\ UNCHANGED bvars

\* ProveFenced also finds the previous Instance detached from every parent;
\* ProveClean finds every parent attached to this Instance alone.
FenceVerified(p) ==
  /\ ProveFenced(p)
  /\ \A f \in Parents :
       IF grant[p].mode = "abnormal-takeover" THEN HostOf[grant[p].prev] \notin RegionalInventory(f)
       ELSE RegionalInventory(f) = {HostOf[p]}

-----------------------------------------------------------------------------
\* EnsureAll, under a mutation session

\* ensureClaimed up to the journal update that precedes the attachment.
ResumeAttempt(p) ==
  LET a == snap[p].attempt
  IN IF a.host = HostOf[p] /\ a.parent \notin refs /\ CurrentAttemptOnly(p, a.parent)
     THEN SetBootstrapAttempt(p, a.parent) /\ Goto(p, "mount", a.parent) /\ UNCHANGED bvars
     ELSE Fail(p)
ClaimPlanned(p, f) ==
  IF f \notin refs /\ CurrentAttemptOnly(p, f)
  THEN PromoteFreshBootstrapParent(p, f) /\ Goto(p, "mount", f) /\ UNCHANGED bvars
  ELSE Fail(p)
ClaimOrValidate(p, f) ==
  IF RegionalInventory(f) = {} /\ f \notin refs
  THEN SetBootstrapAttempt(p, f) /\ Goto(p, "mount", f) /\ UNCHANGED bvars
  ELSE Goto(p, "existing", f) /\ UNCHANGED <<lvars, bvars>>

EnsureClaimed(p) ==
  /\ phase[p] = "lead" /\ At(p, "start")
  /\ IF snap[p].attempt # None THEN ResumeAttempt(p)
     ELSE \E f \in Parents \ boot[p].done :
            IF snap[p].plan # None THEN ClaimPlanned(p, f) ELSE ClaimOrValidate(p, f)

\* completeBootstrap reads the claim and inspects the root: only the claim and
\* the temporary file of this attempt may be there.
ReadParentClaim(p) ==
  LET r == root[boot[p].f] id == snap[p].attempt.id
      bare == ~r.layout /\ r.temps = TempsOf(r, id)
  IN /\ phase[p] = "lead" /\ At(p, "mounted")
     /\ IF r.claim \in Nat \ {id}
        THEN Goto(p, "unlink", boot[p].f) /\ UNCHANGED <<lvars, bvars>>
        ELSE IF r.claim # Foreign /\ bare
        THEN Goto(p, "temp", boot[p].f) /\ UNCHANGED <<lvars, bvars>>
        ELSE Fail(p)

\* A write that only the Instance's cache holds, and one that is synced.
Cached(p) ==
  /\ dirty' = [dirty EXCEPT ![boot[p].f] = HostOf[p]]
  /\ UNCHANGED <<lvars, att, pend, disk, refs, restored>>
Synced(p, r) ==
  /\ root' = [root EXCEPT ![boot[p].f] = r] /\ disk' = [disk EXCEPT ![boot[p].f] = r]
  /\ dirty' = [dirty EXCEPT ![boot[p].f] = None]
  /\ UNCHANGED <<lvars, att, pend, refs, restored>>

\* Fault seeded for a mutant: a temporary file that is there already is refused.
CreateRefusesLeftover(p) ==
  LET f == boot[p].f id == snap[p].attempt.id
  IN /\ At(p, "temp")
     /\ IF TempsOf(root[f], id) = {}
        THEN /\ root' = [root EXCEPT ![f].temps = @ \cup {[id |-> id, whole |-> FALSE]}]
             /\ Cached(p) /\ Goto(p, "write", f)
        ELSE Fail(p)

\* prepareTemporary: created exclusively, or an exact leftover is reused.
CreateExclusive(p) ==
  LET f == boot[p].f id == snap[p].attempt.id
  IN /\ At(p, "temp")
     /\ IF TempsOf(root[f], id) = {}
        THEN /\ root' = [root EXCEPT ![f].temps = @ \cup {[id |-> id, whole |-> FALSE]}]
             /\ Cached(p) /\ Goto(p, "write", f)
        ELSE IF [id |-> id, whole |-> TRUE] \in root[f].temps
        THEN Goto(p, "write", f) /\ UNCHANGED <<lvars, bvars>>
        ELSE Fail(p)

\* Fault seeded for a mutant: the bytes are not on disk when the file is linked.
WriteUnsynced(p) ==
  /\ At(p, "write") /\ Goto(p, "link", boot[p].f) /\ UNCHANGED <<lvars, bvars>>

\* Its bytes are written and synced, then its directory.
SyncTemporary(p) ==
  LET f == boot[p].f id == snap[p].attempt.id
      written == (root[f].temps \ TempsOf(root[f], id)) \cup {[id |-> id, whole |-> TRUE]}
  IN /\ At(p, "write")
     /\ Synced(p, [root[f] EXCEPT !.temps = written]) /\ Goto(p, "link", f)

\* RenameNoReplace links the claim unless there is one; that one must be equal.
InstallNoReplace(p) ==
  LET r == root[boot[p].f] id == snap[p].attempt.id
  IN /\ At(p, "link")
     /\ IF r.claim = None
        THEN /\ root' = [root EXCEPT ![boot[p].f].claim = id]
             /\ Cached(p) /\ Goto(p, "unlink", boot[p].f)
        ELSE IF r.claim = id THEN Goto(p, "unlink", boot[p].f) /\ UNCHANGED <<lvars, bvars>>
        ELSE Fail(p)

\* The attempt's temporary is removed and the directory synced (SyncDir).
RemoveTemporary(p) ==
  LET r == root[boot[p].f]
  IN /\ At(p, "unlink")
     /\ Synced(p, [r EXCEPT !.temps = @ \ TempsOf(r, snap[p].attempt.id)])
     /\ Goto(p, "clear", boot[p].f)

CompleteBootstrap(p) ==
  /\ At(p, "clear") /\ ClearBootstrapAttempt(p)
  /\ Goto(p, "layout", boot[p].f) /\ UNCHANGED bvars

\* validateExistingClaim of a parent that is in use already.
ValidateExistingClaim(p) ==
  /\ At(p, "validate")
  /\ IF Ours(boot[p].f) THEN Goto(p, "layout", boot[p].f) /\ UNCHANGED <<lvars, bvars>> ELSE Fail(p)

\* Fault seeded for a mutant: the directories are made and not synced.
LayoutUnsynced(p) ==
  /\ At(p, "layout")
  /\ root' = [root EXCEPT ![boot[p].f].layout = TRUE]
  /\ Cached(p) /\ Finish(p, "start")

EnsureParentLayout(p) ==
  LET laid == [root[boot[p].f] EXCEPT !.layout = TRUE]
  IN /\ At(p, "layout")
     /\ Synced(p, laid) /\ Finish(p, "start")

\* All parents are done: the plan is cleared, then the CSI sockets open.
EnsureAllDone(p) ==
  /\ phase[p] = "lead" /\ At(p, "start") /\ boot[p].done = Parents /\ snap[p].attempt = None
  /\ IF snap[p].plan # None THEN ClearFreshBootstrapPlan(p) /\ UNCHANGED boot
                            ELSE Goto(p, "ready", None) /\ UNCHANGED lvars
  /\ UNCHANGED bvars

-----------------------------------------------------------------------------
\* Serving, the provider, and faults

Ready(p) == phase[p] = "lead" /\ boot[p].pc = "ready"

\* The first volume on f: from now on Kubernetes refers to the parent.
ServeMutation(p, f) ==
  /\ Ready(p) /\ StartMutation(p) /\ refs' = refs \cup {f}
  /\ UNCHANGED <<att, pend, root, disk, dirty, restored, boot>>

\* ControllerPublish attaches a parent to the Instance of a workload.
AttachForWorkload(f, h) ==
  /\ \E p \in Pods : Ready(p)
  /\ host[h] = "running" /\ att' = [att EXCEPT ![f] = @ \cup {h}]
  /\ h \notin att[f] /\ UNCHANGED <<lvars, pend, root, disk, dirty, refs, restored, boot>>

DetachStopped(f, h) ==
  /\ host[h] = "stopped" /\ h \in att[f] /\ att' = [att EXCEPT ![f] = @ \ {h}]
  /\ UNCHANGED <<lvars, pend, root, disk, dirty, refs, restored, boot>>

\* What the stopped Instance had not synced may be lost.
StopInstance(h) ==
  /\ StopHost(h) /\ Restart
  /\ root' \in {[f \in Parents |-> IF dirty[f] = h /\ f \in S THEN disk[f] ELSE root[f]] :
                  S \in SUBSET Parents}
  /\ disk' = [f \in Parents |-> IF dirty[f] = h THEN root'[f] ELSE disk[f]]
  /\ dirty' = [f \in Parents |-> IF dirty[f] = h THEN None ELSE dirty[f]]
  /\ UNCHANGED <<att, pend, refs, restored>>

\* The Lease is lost alone, or with every object of the cluster.
LoseCluster ==
  /\ LoseLease /\ refs' \in {refs, {}}
  /\ UNCHANGED <<att, pend, root, disk, dirty, restored, boot>>

\* After the loss the operator restores the allocations from a checkpoint.
RestoreCheckpoint ==
  /\ ~restored /\ lease.marker /\ leases > 1
  /\ restored' = TRUE /\ refs' = {f \in Parents : Ours(f)}
  /\ UNCHANGED <<lvars, att, pend, root, disk, dirty, boot>>

\* A recovery approval attests that no other Instance of the installation runs.
ApproveRecovery ==
  /\ lease.holder # None /\ lease.marker /\ restored
  /\ \A h \in Hosts \ {HostOf[lease.holder]} : host[h] = "stopped"
  /\ OperatorApproves("missing-lease-recovery") /\ UNCHANGED <<bvars, boot>>
ApproveTakeover == OperatorApproves("abnormal-takeover") /\ UNCHANGED <<bvars, boot>>

Lift(A) == A /\ Restart /\ UNCHANGED bvars
LeaderStep(p) ==
  \/ Lift(Land(p)) \/ Lift(Refused(p))
  \/ Lift(Acquire(p)) \/ Lift(Acquired(p))
  \/ Lift(TakeoverApproval(p)) \/ Lift(AcquireApproved(p))
  \/ Lift(VerifyFence(p, FenceVerified(p))) \/ Lift(ApprovedAcquired(p))
  \/ Lift(UpdateRecorded(p))
  \/ Lift(PromoteFreshInstallation(p)) \/ Lift(Promoted(p))
  \/ Lift(EndMutation(p))
  \/ Lift(StopForRelease(p)) \/ Lift(ReleaseGracefully(p)) \/ Lift(Released(p))

StartupStep(p) ==
  \/ RequestAttach(p) \/ EnsureMounted(p)
  \/ PreparePlan(p) \/ (\E f \in Parents : InspectParent(p, f))
  \/ InspectFreshRoot(p) \/ VerifyFreshInstallation(p)
  \/ (\E f \in Parents : DiscoverExisting(p, f)) \/ ValidateReadOnlyClaim(p)
  \/ AwaitRecoveryApproval(p)
  \/ EnsureClaimed(p) \/ ReadParentClaim(p) \/ CreateExclusive(p) \/ SyncTemporary(p)
  \/ InstallNoReplace(p) \/ RemoveTemporary(p) \/ CompleteBootstrap(p)
  \/ ValidateExistingClaim(p) \/ EnsureParentLayout(p) \/ EnsureAllDone(p)

INext ==
  \/ \E p \in Pods : LeaderStep(p) \/ StartupStep(p)
  \/ \E p \in Pods : Lift(AnswerLost(p)) \/ Lift(Crash(p)) \/ Lift(Ready(p) /\ BeginQuiesce(p))
  \/ \E p \in Pods, f \in Parents : ServeMutation(p, f)
  \/ \E w \in late : Lift(LandLate(w))
  \/ \E a \in pend : AttachLands(a)
  \/ \E f \in Parents, h \in Hosts : AttachForWorkload(f, h) \/ DetachStopped(f, h)
  \/ \E h \in Hosts : StopInstance(h) \/ Lift(StartHost(h))
  \/ ApproveTakeover \/ ApproveRecovery \/ Lift(OperatorWithdraws)
  \/ LoseCluster \/ RestoreCheckpoint

ISpec == IInit /\ [][INext]_ivars

\* A running process goes on, the API server and the provider answer, a stopped
\* Instance is started again.
IFairSpec ==
  /\ ISpec
  /\ \A p \in Pods : WF_ivars(LeaderStep(p) \/ StartupStep(p))
  /\ WF_ivars(\E a \in pend : AttachLands(a))
  /\ \A h \in Hosts : WF_ivars(Lift(StartHost(h)))

-----------------------------------------------------------------------------
\* Properties

ITypeOK ==
  /\ TypeOK
  /\ att \in [Parents -> SUBSET Hosts] /\ pend \subseteq Parents \X Hosts
  /\ root \in [Parents -> Root] /\ disk \in [Parents -> Root]
  /\ dirty \in [Parents -> Hosts \cup {None}]
  /\ refs \subseteq Parents /\ restored \in BOOLEAN /\ boot \in [Pods -> Boot]

\* A claim is written once, on a root that held nothing but the temporary file
\* of that very attempt; no later step, of any process, changes it
\* (InstallParentOwner, RenameNoReplace). Only a stop before SyncDir undoes it.
ClaimsImmutable ==
  [][\A f \in Parents : root'[f].claim # root[f].claim =>
       \/ /\ root[f].claim = None /\ ~root[f].layout
          /\ [id |-> root'[f].claim, whole |-> TRUE] \in root[f].temps
       \/ root'[f] = disk[f] /\ host' # host]_ivars

\* A process that serves has every parent claimed by this installation and laid
\* out on stable storage, so no stop of an Instance can take it back.
ReadyIsDurable ==
  \A p \in Pods : Ready(p) =>
    \A f \in Parents : disk[f].claim \in Nat /\ disk[f].layout /\ HostOf[p] \in att[f]

\* Two processes never serve together, not even under two incarnations of the
\* Lease: whoever follows a lost Lease must find every parent unused, or must
\* find it attached to its own Instance alone and all others stopped.
OneServer == \A p, q \in Pods : Ready(p) /\ Ready(q) => p = q

\* The state is well formed and at most one process serves.
InstallationSafety == ITypeOK /\ OneServer

\* An attachment to a parent without a claim of ours is covered by a journal in
\* the Lease (SetFreshBootstrapPlan, SetBootstrapAttempt before EnsureMounted),
\* whatever was interrupted, unless a recovery looked for existing claims.
AttachmentsExplained ==
  lease.uid = 1 /\ ~restored =>
    \A f \in Parents : (att[f] # {} \/ \E h \in Hosts : <<f, h>> \in pend) =>
      \/ Ours(f) \/ lease.plan # None
      \/ lease.attempt # None /\ lease.attempt.parent = f

\* States in which startup refuses on purpose: a parent holds something that is
\* not ours, or a temporary file that a crash left incomplete.
Refuses ==
  \E f \in Parents :
    \/ root[f].claim = Foreign \/ (root[f].claim = None /\ root[f].layout)
    \/ \E t \in root[f].temps : ~t.whole

\* The plan is still journaled although a parent of it is laid out already.
ReplaysLaidOut ==
  lease.plan # None /\ \E f \in Parents : root[f].claim = lease.plan.id /\ root[f].layout

\* After finitely many crashes, stops and lost answers the only controller Pod
\* serves, or startup refuses for ever for one of the reasons above (EnsureAll,
\* with PromoteFreshInstallation and the resumed journals before it).
InstallationCompletes ==
  <>(\E p \in Pods : Ready(p)) \/ <>[](Refuses \/ ReplaysLaidOut)

\* What the comment on ClearFreshBootstrapPlan says of a crash before it: the
\* plan is retained and the next start of the Pod merely replays the claims.
PlanIsReplayed ==
  (lease.plan # None /\ ~lease.marker /\ ~Refuses) ~> (lease.plan = None \/ Refuses)
=============================================================================
