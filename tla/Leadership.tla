------------------------------ MODULE Leadership ------------------------------
(***************************************************************************)
(* Who may mutate: the Lease object and its annotations, the acquisition    *)
(* plans, the leadership session with its renewals and its watchdog, the    *)
(* operator approvals and the graceful release (pkg/coordination/runtime.go,*)
(* lease_protocol.go, approval.go, discovery.go, bootstrap.go and           *)
(* fresh_bootstrap.go, pkg/k8s/lease_store.go).                             *)
(*                                                                          *)
(* An update of the Lease is one compare-and-swap on its resourceVersion.   *)
(* The model keeps no version number: fresh[p] says that no update has      *)
(* landed since p's snapshot, and late holds the abandoned requests that    *)
(* still name the current version. One update that lands defeats all others.*)
(***************************************************************************)
EXTENDS Integers, FiniteSets

CONSTANTS
  Pods,           \* Pod UIDs of controller Pods; a restarted container keeps its
  HostOf,         \* the Instance every Pod runs on
  Hosts,          \* Instances
  Parents,        \* parent filesystems
  None,           \* absent
  RenewDeadline, LeaseDuration,  \* LeaseTiming, in ticks of RetryPeriod
  MaxIds,         \* bootstrap attempt IDs
  MaxLeases,      \* incarnations of the Lease object
  MaxApprovals,   \* approval Secrets the operator writes
  MaxFaults       \* crashes, stops, lost answers and lost Leases, together

ASSUME LeadershipAssumption ==
  /\ HostOf \in [Pods -> Hosts] /\ None \notin Pods \cup Hosts
  /\ RenewDeadline \in Nat \ {0, 1} /\ LeaseDuration \in Nat
  /\ RenewDeadline < LeaseDuration
  /\ MaxIds \in Nat /\ MaxLeases \in Nat /\ MaxApprovals \in Nat /\ MaxFaults \in Nat

VARIABLES
  lease,     \* the Lease object; uid 0 while there is none
  leaseAge,  \* ticks since its renewTime
  late,      \* updates on the current version that nobody waits for any more
  phase,     \* where each Pod's process is
  snap,      \* LeaseSnapshot that the process works from
  fresh,     \* is it still the current version
  call,      \* the update the process waits for
  age,       \* ticks since lastSuccess of its session, or since AcquireApproved
  grant,     \* the approval it holds
  busy,      \* is a mutation admitted by its gate in flight
  host,      \* is the Instance running
  approval,  \* the approval Secret
  nextId, leases, faults

lvars == <<lease, leaseAge, late, phase, snap, fresh, call, age, grant, busy,
           host, approval, nextId, leases, faults>>
leaseState == <<lease, leaseAge, late>>
counters == <<nextId, leases, faults>>
environment == <<host, approval, counters>>
process == <<phase, snap, fresh, call, age, grant, busy>>

-----------------------------------------------------------------------------
\* The Lease and its annotation sets. Every set is absent or complete.

Attempt == [parent : Parents, id : Nat, host : Hosts]
Plan == [pod : Pods, id : Nat]
HolderEvidence == Pods
GracefulRelease == BOOLEAN
DiscoveryMarker == BOOLEAN
ApprovalConsumption == Nat
Snapshot == [uid : Nat, holder : Pods \cup {None}, evidence : HolderEvidence \cup {None},
             release : GracefulRelease, marker : DiscoveryMarker,
             attempt : Attempt \cup {None}, plan : Plan \cup {None},
             used : ApprovalConsumption]
EmptyLease(n) ==
  [uid |-> n, holder |-> None, evidence |-> None, release |-> FALSE,
   marker |-> FALSE, attempt |-> None, plan |-> None, used |-> 0]
Absent(l) == l.uid = 0

Ages == 0..LeaseDuration
NoCall == [kind |-> "none", sent |-> FALSE, next |-> EmptyLease(0), age |-> 0]
Calls == [kind : {"none", "cas", "renew"}, sent : BOOLEAN, next : Snapshot, age : Ages]

NoGrant == [uid |-> 0, mode |-> "none", prev |-> None, seen |-> {}, marker |-> 0]
Modes == {"none", "abnormal-takeover", "missing-lease-recovery"}
Approval == [uid : Nat, mode : Modes, prev : Pods \cup {None},
             seen : SUBSET Pods, marker : Nat]

Phases == {"down", "acquiring", "blocked", "approved", "fencing",
           "fenced", "provisional", "verified", "promoting", "lead",
           "quiescing", "releasing"}
\* The session renews, and the phases in which it permits mutations.
Running(p) == phase[p] \in {"provisional", "lead", "quiescing"}
Leading(p) == phase[p] \in {"lead", "quiescing"}

Init ==
  /\ lease = EmptyLease(0) /\ leaseAge = 0 /\ late = {}
  /\ phase = [p \in Pods |-> "down"]
  /\ snap = [p \in Pods |-> EmptyLease(0)] /\ fresh = [p \in Pods |-> FALSE]
  /\ call = [p \in Pods |-> NoCall] /\ age = [p \in Pods |-> 0]
  /\ grant = [p \in Pods |-> NoGrant] /\ busy = [p \in Pods |-> FALSE]
  /\ host = [h \in Hosts |-> "running"] /\ approval = NoGrant
  /\ nextId = 1 /\ leases = 0 /\ faults = 0

-----------------------------------------------------------------------------
\* The store: one update, its landing, and its answer

\* Update is called with the snapshot's version and a renewTime since ticks old.
Send(p, kind, next, since) ==
  /\ call[p] = NoCall
  /\ call' = [call EXCEPT ![p] = [kind |-> kind, sent |-> TRUE, next |-> next, age |-> since]]

\* The API server applies the update of p: its snapshot was the current version.
Land(p) ==
  /\ call[p].sent /\ fresh[p]
  /\ lease' = call[p].next /\ leaseAge' = call[p].age /\ late' = {}
  /\ call' = [call EXCEPT ![p].sent = FALSE]
  /\ fresh' = [q \in Pods |-> q = p]
  /\ UNCHANGED <<phase, snap, age, grant, busy, environment>>

\* An update lands after its author stopped waiting for it.
LandLate(w) ==
  /\ w \in late
  /\ lease' = w.next /\ leaseAge' = w.age /\ late' = {}
  /\ fresh' = [q \in Pods |-> FALSE]
  /\ UNCHANGED <<phase, snap, call, age, grant, busy, environment>>

Fault == faults < MaxFaults /\ faults' = faults + 1

Abandoned(p) == IF call[p].sent /\ fresh[p]
                THEN {[next |-> call[p].next, age |-> call[p].age]} ELSE {}

\* The processes of P end; the updates they wait for may still be under way.
ExitAll(P) ==
  /\ phase' = [p \in Pods |-> IF p \in P THEN "down" ELSE phase[p]]
  /\ call' = [p \in Pods |-> IF p \in P THEN NoCall ELSE call[p]]
  /\ late' = late \cup UNION {Abandoned(p) : p \in P}
  /\ snap' = [p \in Pods |-> IF p \in P THEN EmptyLease(0) ELSE snap[p]]
  /\ fresh' = [p \in Pods |-> p \notin P /\ fresh[p]]
  /\ age' = [p \in Pods |-> IF p \in P THEN 0 ELSE age[p]]
  /\ grant' = [p \in Pods |-> IF p \in P THEN NoGrant ELSE grant[p]]
  /\ busy' = [p \in Pods |-> p \notin P /\ busy[p]]
Exit(p) == ExitAll({p})

\* Update answers ErrLeaseLost (Conflict or NotFound): acquisitions fail, and a
\* session reports the loss, cancels its context and terminates the process.
Refused(p) ==
  /\ call[p].sent /\ ~fresh[p] /\ Exit(p)
  /\ UNCHANGED <<lease, leaseAge, environment>>

\* The answer is lost and the reread shows nothing new, or fails too. A renewal
\* is tried again; every other caller returns the error and the process exits.
AnswerLost(p) ==
  /\ call[p] # NoCall /\ Fault
  /\ IF call[p].kind = "renew"
     THEN /\ call' = [call EXCEPT ![p] = NoCall] /\ late' = late \cup Abandoned(p)
          /\ fresh' = [fresh EXCEPT ![p] = @ /\ call[p].sent]
          /\ UNCHANGED <<phase, snap, age, grant, busy>>
     ELSE Exit(p)
  /\ UNCHANGED <<lease, leaseAge, host, approval, nextId, leases>>

\* The update of p is known to be stored, by its answer or by an exact reread.
Answered(p) ==
  /\ call[p] # NoCall /\ ~call[p].sent
  /\ call' = [call EXCEPT ![p] = NoCall]
  /\ snap' = [snap EXCEPT ![p] = call[p].next]

\* Load reads the Lease, and creates an empty one if there is none.
Loaded == IF Absent(lease) THEN EmptyLease(leases + 1) ELSE lease
CreateInitial ==
  IF Absent(lease)
  THEN /\ leases < MaxLeases /\ leases' = leases + 1
       /\ lease' = Loaded /\ leaseAge' = 0
  ELSE UNCHANGED <<lease, leaseAge, leases>>
Load(p) ==
  /\ CreateInitial /\ snap' = [snap EXCEPT ![p] = Loaded]
  /\ fresh' = [fresh EXCEPT ![p] = TRUE] /\ UNCHANGED late

-----------------------------------------------------------------------------
\* Acquisition

\* Fault seeded for a mutant: an empty Lease grants mutation.
PlanTrustsEmpty(l, p) ==
  IF l.holder \notin {None, p} THEN [mode |-> "takeover", next |-> l]
  ELSE [mode |-> "lead", next |-> [l EXCEPT !.holder = p, !.evidence = p,
                                            !.release = FALSE]]

\* PlanAutomaticAcquisition: a holder is followed only by itself, or after its
\* one-time release marker. Neither the age of the Lease nor its emptiness
\* grants mutation.
PlanAutomaticAcquisition(l, p) ==
  IF l.holder # None
  THEN IF l.holder # l.evidence \/ (l.plan # None /\ l.plan.pod # l.holder)
       THEN [mode |-> "error", next |-> l]
       ELSE IF l.holder # p THEN [mode |-> "takeover", next |-> l]
       ELSE IF l.release THEN [mode |-> "error", next |-> l]
       ELSE [mode |-> IF l.marker THEN "provisional" ELSE "lead", next |-> l]
  ELSE IF l.release
       THEN IF l.attempt # None \/ l.plan # None \/ l.evidence = None
            THEN [mode |-> "error", next |-> l]
            ELSE [mode |-> "lead", next |-> [l EXCEPT !.holder = p, !.evidence = p,
                                                      !.release = FALSE]]
       ELSE IF l.marker \/ l.attempt # None \/ l.plan # None
            THEN [mode |-> "error", next |-> l]
            ELSE [mode |-> "provisional",
                  next |-> [l EXCEPT !.holder = p, !.evidence = p, !.marker = TRUE]]

\* The process starts; LeaseRuntime.Acquire up to its update.
Acquire(p) ==
  LET plan == PlanAutomaticAcquisition(Loaded, p)
  IN /\ phase[p] = "down" /\ host[HostOf[p]] = "running"
     /\ IF plan.mode = "error"
        THEN Exit(p) /\ CreateInitial
        ELSE /\ Load(p) /\ UNCHANGED <<age, grant, busy>>
             /\ IF plan.mode = "takeover"
                THEN phase' = [phase EXCEPT ![p] = "blocked"] /\ UNCHANGED call
                ELSE /\ phase' = [phase EXCEPT ![p] = "acquiring"]
                     /\ Send(p, "cas", plan.next, 0)
     /\ UNCHANGED <<host, approval, nextId, faults>>

\* A new session starts from the instant before its update. Run fails it when
\* that instant is past the deadline already.
NewSession(p, ph) ==
  IF call[p].age < RenewDeadline
  THEN /\ Answered(p) /\ phase' = [phase EXCEPT ![p] = ph]
       /\ age' = [age EXCEPT ![p] = call[p].age] /\ grant' = [grant EXCEPT ![p] = NoGrant]
       /\ UNCHANGED <<late, fresh, busy>>
  ELSE Exit(p)

Acquired(p) ==
  /\ phase[p] = "acquiring" /\ call[p] # NoCall /\ ~call[p].sent
  /\ NewSession(p, IF call[p].next.marker THEN "provisional" ELSE "lead")
  /\ UNCHANGED <<lease, leaseAge, environment>>

\* Stop joins the renewal loop; a renewal under way is abandoned.
StopSession(p, ph) ==
  /\ phase' = [phase EXCEPT ![p] = ph] /\ call' = [call EXCEPT ![p] = NoCall]
  /\ late' = late \cup Abandoned(p) /\ age' = [age EXCEPT ![p] = 0]

-----------------------------------------------------------------------------
\* Approved acquisition

\* The approval Secret is there; an expired or foreign one is not waited for.
ReadOperatorApproval == approval.mode # "none"

\* waitForOperatorApproval, of a process that another holder blocks.
TakeoverApproval(p) ==
  /\ phase[p] = "blocked" /\ ReadOperatorApproval
  /\ IF approval.mode = "abnormal-takeover" /\ p \in approval.seen
     THEN /\ phase' = [phase EXCEPT ![p] = "approved"]
          /\ grant' = [grant EXCEPT ![p] = approval]
          /\ UNCHANGED <<late, snap, fresh, call, age, busy>>
     ELSE Exit(p)
  /\ UNCHANGED <<lease, leaseAge, environment>>

\* The same for a provisional holder that found a checkpoint; its session ends.
RecoveryApproval(p) ==
  /\ phase[p] = "provisional" /\ call[p].kind # "cas" /\ ReadOperatorApproval
  /\ IF approval.mode = "missing-lease-recovery" /\ approval.marker = snap[p].uid
     THEN /\ StopSession(p, "approved") /\ grant' = [grant EXCEPT ![p] = approval]
          /\ UNCHANGED <<snap, fresh, busy>>
     ELSE Exit(p)
  /\ UNCHANGED <<lease, leaseAge, environment>>

\* What AcquireApproved requires of the Lease it loads.
Approves(g, l, p) ==
  /\ l.used # g.uid /\ ~l.release /\ l.plan = None
  /\ CASE g.mode = "abnormal-takeover" ->
            l.holder \notin {None, p} /\ l.evidence = l.holder /\ g.prev = l.holder /\ ~l.marker
       [] g.mode = "missing-lease-recovery" ->
            l.holder = p /\ l.evidence = p /\ l.marker /\ g.marker = l.uid /\ l.attempt = None
       [] OTHER -> FALSE

AcquireApproved(p) ==
  /\ phase[p] = "approved"
  /\ IF Approves(grant[p], Loaded, p)
     THEN /\ Load(p) /\ phase' = [phase EXCEPT ![p] = "fencing"]
          /\ UNCHANGED <<call, age, grant, busy>>
     ELSE Exit(p) /\ CreateInitial
  /\ UNCHANGED <<host, approval, nextId, faults>>

\* ApprovalFenceVerifier reads the provider: ok is its verdict. The update then
\* installs the holder and consumes the approval at once.
VerifyFence(p, ok) ==
  /\ phase[p] = "fencing"
  /\ IF ok
     THEN /\ phase' = [phase EXCEPT ![p] = "fenced"]
          /\ Send(p, "cas", [snap[p] EXCEPT !.holder = p, !.evidence = p,
                               !.marker = FALSE, !.used = grant[p].uid], age[p])
          /\ UNCHANGED <<late, snap, fresh, age, grant, busy>>
     ELSE Exit(p)
  /\ UNCHANGED <<lease, leaseAge, environment>>

\* Fault seeded for a mutant: the approval itself counts as the proof.
ProveNothing(p) == TRUE

\* The exact previous holder's Instance is stopped (FenceChecker.ProveFenced).
ProveFenced(p) ==
  grant[p].mode = "abnormal-takeover" => host[HostOf[grant[p].prev]] = "stopped"

ApprovedAcquired(p) ==
  /\ phase[p] = "fenced" /\ call[p] # NoCall /\ ~call[p].sent
  /\ NewSession(p, "lead")
  /\ UNCHANGED <<lease, leaseAge, environment>>

-----------------------------------------------------------------------------
\* The session: renewal, watchdog, and the journals it keeps in the Lease

\* One turn of renewLoop, RetryPeriod after the last, sends a new renewTime.
Renew(p) ==
  /\ Running(p) /\ age[p] > 0 /\ Send(p, "renew", snap[p], 0)
  /\ UNCHANGED <<leaseState, phase, snap, fresh, age, grant, busy, environment>>

\* Fault seeded for a mutant: lastSuccess is the instant of the answer.
UpdateRecordedNow(p) ==
  /\ Running(p) /\ Answered(p) /\ age' = [age EXCEPT ![p] = 0]
  /\ UNCHANGED <<leaseState, phase, fresh, grant, busy, environment>>

\* recordLeaseUpdate: lastSuccess is the instant before the update.
UpdateRecorded(p) ==
  /\ Running(p) /\ Answered(p)
  /\ age' = [age EXCEPT ![p] = IF call[p].age < @ THEN call[p].age ELSE @]
  /\ UNCHANGED <<leaseState, phase, fresh, grant, busy, environment>>

\* The deadline since lastSuccess is over: the context ends, then the process.
Watchdog(p) ==
  /\ Running(p) /\ age[p] = RenewDeadline /\ Exit(p)
  /\ UNCHANGED <<lease, leaseAge, environment>>

\* An update of the journal annotations, serialised with the renewals.
Journal(p, next) ==
  /\ Send(p, "cas", next, 0)
  /\ UNCHANGED <<leaseState, phase, snap, fresh, age, grant, busy, host, approval,
                 leases, faults>>

\* The whole plan is journaled, or replayed, before the first attachment.
SetFreshBootstrapPlan(p) ==
  /\ phase[p] = "provisional" /\ snap[p].marker /\ snap[p].attempt = None
  /\ IF snap[p].plan = None
     THEN /\ nextId <= MaxIds /\ nextId' = nextId + 1
          /\ Journal(p, [snap[p] EXCEPT !.plan = [pod |-> p, id |-> nextId]])
     ELSE Journal(p, snap[p]) /\ UNCHANGED nextId

\* VerifyFreshInstallation succeeded; then the provisional session is stopped.
FreshVerified(p) ==
  /\ phase[p] = "provisional" /\ call[p].kind # "cas" /\ snap[p].plan # None
  /\ StopSession(p, "verified")
  /\ UNCHANGED <<lease, leaseAge, snap, fresh, grant, busy, environment>>

\* Fault seeded for a mutant: the plan is cleared together with the marker.
PromoteDropsPlan(p) ==
  /\ phase[p] = "verified"
  /\ IF lease.holder = p /\ lease.evidence = p /\ lease.marker
     THEN /\ Load(p) /\ phase' = [phase EXCEPT ![p] = "promoting"]
          /\ Send(p, "cas", [lease EXCEPT !.marker = FALSE, !.plan = None], 0)
          /\ UNCHANGED <<age, grant, busy>>
     ELSE Exit(p) /\ CreateInitial
  /\ UNCHANGED <<host, approval, nextId, faults>>

\* PromoteFreshInstallation reloads the Lease and clears the discovery marker.
PromoteFreshInstallation(p) ==
  /\ phase[p] = "verified"
  /\ IF /\ lease.holder = p /\ lease.evidence = p /\ lease.marker
        /\ lease.attempt = None /\ lease.plan # None
     THEN /\ Load(p) /\ phase' = [phase EXCEPT ![p] = "promoting"]
          /\ Send(p, "cas", [lease EXCEPT !.marker = FALSE], 0)
          /\ UNCHANGED <<age, grant, busy>>
     ELSE Exit(p) /\ CreateInitial
  /\ UNCHANGED <<host, approval, nextId, faults>>

Promoted(p) ==
  /\ phase[p] = "promoting" /\ call[p] # NoCall /\ ~call[p].sent
  /\ NewSession(p, "lead")
  /\ UNCHANGED <<lease, leaseAge, environment>>

\* The attempt of one parent: new, or the exact replay of the active one.
SetBootstrapAttempt(p, f) ==
  /\ phase[p] = "lead"
  /\ \/ /\ snap[p].attempt = None /\ snap[p].plan = None
        /\ nextId <= MaxIds /\ nextId' = nextId + 1
        /\ Journal(p, [snap[p] EXCEPT
                         !.attempt = [parent |-> f, id |-> nextId, host |-> HostOf[p]]])
     \/ /\ snap[p].attempt # None
        /\ snap[p].attempt.parent = f /\ snap[p].attempt.host = HostOf[p]
        /\ Journal(p, snap[p]) /\ UNCHANGED nextId

\* The attempt of a parent of the plan; the plan stays until all are claimed.
PromoteFreshBootstrapParent(p, f) ==
  /\ phase[p] = "lead" /\ ~snap[p].marker /\ snap[p].attempt = None
  /\ snap[p].plan # None /\ snap[p].plan.pod = p
  /\ Journal(p, [snap[p] EXCEPT
                   !.attempt = [parent |-> f, id |-> snap[p].plan.id, host |-> HostOf[p]]])
  /\ UNCHANGED nextId

ClearBootstrapAttempt(p) ==
  /\ phase[p] = "lead" /\ snap[p].attempt # None
  /\ Journal(p, [snap[p] EXCEPT !.attempt = None]) /\ UNCHANGED nextId

ClearFreshBootstrapPlan(p) ==
  /\ phase[p] = "lead" /\ ~snap[p].marker /\ snap[p].attempt = None
  /\ snap[p].plan # None /\ snap[p].plan.pod = p
  /\ Journal(p, [snap[p] EXCEPT !.plan = None]) /\ UNCHANGED nextId

-----------------------------------------------------------------------------
\* Serving, and the graceful release

\* The gate admits a mutation once the startup journals are gone.
Serving(p) == phase[p] = "lead" /\ snap[p].attempt = None /\ snap[p].plan = None
StartMutation(p) ==
  /\ Serving(p) /\ ~busy[p] /\ busy' = [busy EXCEPT ![p] = TRUE]
  /\ UNCHANGED <<leaseState, phase, snap, fresh, call, age, grant, environment>>
EndMutation(p) ==
  /\ busy[p] /\ busy' = [busy EXCEPT ![p] = FALSE]
  /\ UNCHANGED <<leaseState, phase, snap, fresh, call, age, grant, environment>>

BeginQuiesce(p) ==
  /\ phase[p] = "lead" /\ phase' = [phase EXCEPT ![p] = "quiescing"]
  /\ UNCHANGED <<leaseState, snap, fresh, call, age, grant, busy, environment>>

\* ReleaseGracefully requires the drained barrier, and joins the renewals.
StopForRelease(p) ==
  /\ phase[p] = "quiescing" /\ ~busy[p] /\ call[p].kind # "cas"
  /\ StopSession(p, "releasing")
  /\ UNCHANGED <<lease, leaseAge, snap, fresh, grant, busy, environment>>

\* Fault seeded for a mutant: a journal that is still open is not looked at.
ReleaseUnchecked(p) ==
  /\ phase[p] = "releasing" /\ call[p] = NoCall
  /\ IF lease.uid = snap[p].uid /\ lease.holder = p /\ lease.evidence = p
     THEN /\ Load(p) /\ Send(p, "cas", [lease EXCEPT !.holder = None, !.release = TRUE], 0)
          /\ UNCHANGED <<phase, age, grant, busy>>
     ELSE Exit(p) /\ CreateInitial
  /\ UNCHANGED <<host, approval, nextId, faults>>

\* The exact holder releases a Lease that has no journal open.
PlanGracefulRelease(p) ==
  /\ lease.holder = p /\ lease.evidence = p
  /\ lease.attempt = None /\ lease.plan = None /\ ~lease.marker

\* On the reloaded Lease of the same incarnation.
ReleaseGracefully(p) ==
  /\ phase[p] = "releasing" /\ call[p] = NoCall
  /\ IF lease.uid = snap[p].uid /\ PlanGracefulRelease(p)
     THEN /\ Load(p) /\ Send(p, "cas", [lease EXCEPT !.holder = None, !.release = TRUE], 0)
          /\ UNCHANGED <<phase, age, grant, busy>>
     ELSE Exit(p) /\ CreateInitial
  /\ UNCHANGED <<host, approval, nextId, faults>>

Released(p) ==
  /\ phase[p] = "releasing" /\ call[p] # NoCall /\ ~call[p].sent
  /\ Exit(p) /\ UNCHANGED <<lease, leaseAge, environment>>

-----------------------------------------------------------------------------
\* Time, faults and the operator

Older(a) == IF a < LeaseDuration THEN a + 1 ELSE a

\* One tick. The watchdog of a running session acts at its deadline.
Tick ==
  /\ \A p \in Pods : Running(p) => age[p] < RenewDeadline
  /\ leaseAge' = Older(leaseAge)
  /\ late' = {[w EXCEPT !.age = Older(@)] : w \in late}
  /\ call' = [p \in Pods |-> IF call[p] = NoCall THEN NoCall
                             ELSE [call[p] EXCEPT !.age = Older(@)]]
  /\ age' = [p \in Pods |-> IF Running(p) \/ phase[p] = "fencing"
                            THEN Older(age[p]) ELSE age[p]]
  /\ UNCHANGED <<lease, phase, snap, fresh, grant, busy, environment>>

Crash(p) ==
  /\ phase[p] # "down" /\ Fault
  /\ Exit(p)
  /\ UNCHANGED <<lease, leaseAge, host, approval, nextId, leases>>

StopHost(h) ==
  /\ host[h] = "running" /\ Fault
  /\ host' = [host EXCEPT ![h] = "stopped"]
  /\ ExitAll({p \in Pods : HostOf[p] = h})
  /\ UNCHANGED <<lease, leaseAge, approval, nextId, leases>>
StartHost(h) ==
  /\ host[h] = "stopped" /\ host' = [host EXCEPT ![h] = "running"]
  /\ UNCHANGED <<leaseState, process, approval, counters>>

\* The operator writes an approval Secret: it names the holder that it found, is
\* younger than the conditions observed so far, and carries a new UID.
OperatorApproves(mode) ==
  /\ approval.mode = "none" /\ approval.uid < MaxApprovals /\ ~Absent(lease)
  /\ approval' = [uid |-> approval.uid + 1, mode |-> mode, prev |-> lease.holder,
                  seen |-> {p \in Pods : phase[p] = "blocked"},
                  marker |-> IF lease.marker THEN lease.uid ELSE 0]
  /\ UNCHANGED <<leaseState, process, host, counters>>
OperatorWithdraws ==
  /\ approval.mode # "none"
  /\ approval' = [NoGrant EXCEPT !.uid = approval.uid]
  /\ UNCHANGED <<leaseState, process, host, counters>>

\* The Lease object is lost. Updates of the lost one are refused for ever.
LoseLease ==
  /\ ~Absent(lease) /\ leases < MaxLeases /\ Fault
  /\ lease' = EmptyLease(0) /\ leaseAge' = 0 /\ late' = {}
  /\ fresh' = [p \in Pods |-> FALSE]
  /\ UNCHANGED <<phase, snap, call, age, grant, busy, host, approval, nextId, leases>>

-----------------------------------------------------------------------------
Step(p) ==
  \/ Land(p) \/ Refused(p) \/ AnswerLost(p)
  \/ Acquire(p) \/ Acquired(p)
  \/ TakeoverApproval(p) \/ RecoveryApproval(p) \/ AcquireApproved(p)
  \/ VerifyFence(p, ProveFenced(p)) \/ ApprovedAcquired(p)
  \/ Renew(p) \/ UpdateRecorded(p) \/ Watchdog(p)
  \/ SetFreshBootstrapPlan(p) \/ FreshVerified(p)
  \/ PromoteFreshInstallation(p) \/ Promoted(p)
  \/ \E f \in Parents : SetBootstrapAttempt(p, f) \/ PromoteFreshBootstrapParent(p, f)
  \/ ClearBootstrapAttempt(p) \/ ClearFreshBootstrapPlan(p)
  \/ StartMutation(p) \/ EndMutation(p)
  \/ BeginQuiesce(p) \/ StopForRelease(p) \/ ReleaseGracefully(p) \/ Released(p)
  \/ Crash(p)

Next ==
  \/ \E p \in Pods : Step(p)
  \/ \E w \in late : LandLate(w)
  \/ \E h \in Hosts : StopHost(h) \/ StartHost(h)
  \/ \E mode \in Modes \ {"none"} : OperatorApproves(mode)
  \/ OperatorWithdraws \/ LoseLease \/ Tick

Spec == Init /\ [][Next]_lvars

-----------------------------------------------------------------------------
\* Properties

TypeOK ==
  /\ lease \in Snapshot /\ leaseAge \in Ages
  /\ late \subseteq [next : Snapshot, age : Ages]
  /\ phase \in [Pods -> Phases] /\ snap \in [Pods -> Snapshot]
  /\ fresh \in [Pods -> BOOLEAN] /\ call \in [Pods -> Calls]
  /\ age \in [Pods -> Ages] /\ grant \in [Pods -> Approval]
  /\ busy \in [Pods -> BOOLEAN] /\ host \in [Hosts -> {"running", "stopped"}]
  /\ approval \in Approval /\ nextId \in Nat /\ leases \in Nat /\ faults \in Nat

\* A session is of the incarnation of the Lease that is stored now.
Current(p) == Running(p) /\ snap[p].uid = lease.uid

\* An update that still can land.
CanLand(p) == call[p].sent /\ fresh[p]

\* At most one process of one Lease incarnation has a mutation session: the
\* holder is followed only after its own release or after its Instance stopped
\* (LeaseRuntime.Acquire, AcquireApproved and ReleaseGracefully).
OneLeader ==
  \A p, q \in Pods :
    Leading(p) /\ Leading(q) /\ snap[p].uid = snap[q].uid => p = q

\* While a mutation runs, the stored Lease names its process as the holder and
\* carries no release marker, whatever updates land late.
WriterHoldsLease ==
  \A p \in Pods :
    busy[p] /\ snap[p].uid = lease.uid => lease.holder = p /\ ~lease.release

\* One process at a time may change the installation, and the Lease says which.
LeaderIsExclusive == TypeOK /\ OneLeader /\ WriterHoldsLease

\* A session never believes in a younger renewal than the one that is stored:
\* the Lease outlives every leader of it by LeaseDuration - RenewDeadline
\* (recordLeaseUpdate takes the instant before the update).
LeaseCoversLeader ==
  \A p \in Pods : Current(p) => leaseAge <= age[p] /\ leaseAge < LeaseDuration

\* No sequence of crashes, lost answers, takeovers and releases leaves a Lease
\* that PlanAutomaticAcquisition rejects as malformed.
NoStuckLease ==
  Absent(lease) \/ \A p \in Pods : PlanAutomaticAcquisition(lease, p).mode # "error"
=============================================================================
