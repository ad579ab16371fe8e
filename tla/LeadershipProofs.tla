-------------------------- MODULE LeadershipProofs --------------------------
(***************************************************************************)
(* One leader for every set of Pods, every timing and every number of       *)
(* faults: the inductive invariant relates the stored Lease, the updates    *)
(* that can still land, and what each process read, sent and believes.      *)
(***************************************************************************)
EXTENDS Leadership, TLAPS

Landed(p) == call[p] # NoCall /\ ~call[p].sent

\* The process has a session, or the update that starts one has landed.
Starting == {"acquiring", "fenced", "promoting"}
Holding(p) == Running(p) \/ (Landed(p) /\ phase[p] \in Starting)

\* What every written Lease is: a holder with its own evidence, release and
\* plan, or no holder and no journal.
WellFormed(l) ==
  IF l.holder # None
  THEN /\ l.evidence = l.holder /\ ~l.release
       /\ l.plan # None => l.plan.pod = l.holder
  ELSE /\ l.attempt = None /\ l.plan = None
       /\ IF l.release THEN l.evidence # None ELSE ~l.marker

\* The stored Lease and the abandoned updates that can replace it.
StoreInv ==
  /\ WellFormed(lease) /\ lease.uid <= leases
  /\ Absent(lease) => lease.holder = None
  /\ \A w \in late :
       WellFormed(w.next) /\ w.next.uid = lease.uid /\ ~Absent(lease)

\* A snapshot that no update has overtaken is the stored Lease.
FreshOK(p) ==
  fresh[p] => /\ ~Absent(lease)
              /\ Landed(p) => lease = call[p].next
              /\ ~Landed(p) => lease = snap[p]

\* What a process asks for: a Lease that it holds, or its release.
CallOK(p) ==
  call[p] # NoCall =>
    /\ WellFormed(call[p].next) /\ call[p].next.uid = snap[p].uid
    /\ phase[p] # "releasing" => call[p].next.holder = p
    /\ call[p].kind # "none"
    /\ call[p].kind = "renew" => call[p].next = snap[p]
    /\ Running(p) \/ phase[p] \in Starting \cup {"releasing"}

\* What a process has read, and where it runs.
ReadOK(p) ==
  /\ WellFormed(snap[p]) /\ snap[p].uid <= leases
  /\ phase[p] = "down" => call[p] = NoCall /\ ~fresh[p] /\ ~busy[p]
  /\ phase[p] # "down" => ~Absent(snap[p]) /\ host[HostOf[p]] = "running"
  /\ Running(p) => snap[p].holder = p
  /\ phase[p] = "fencing" =>
       /\ snap[p].holder # None /\ snap[p].plan = None
       /\ \/ snap[p].holder = p
          \/ /\ grant[p].mode = "abnormal-takeover"
             /\ grant[p].prev = snap[p].holder
  /\ busy[p] => Leading(p)

\* Whoever holds is the stored holder, and nobody else's update can land.
Exclusive(p) ==
  Holding(p) =>
    /\ snap[p].uid = lease.uid =>
         /\ lease.holder = p
         /\ \A w \in late : w.next.holder = p
         /\ \A q \in Pods \ {p} : ~CanLand(q)
    /\ \A q \in Pods : Holding(q) /\ snap[q].uid = snap[p].uid => q = p

\* No session believes in a younger renewal than the stored one.
AgeOK(p) ==
  /\ Running(p) =>
       /\ age[p] <= RenewDeadline
       /\ call[p] # NoCall => call[p].age <= age[p]
       /\ snap[p].uid = lease.uid =>
            leaseAge <= age[p] /\ \A w \in late : w.age <= age[p]
  /\ Holding(p) /\ Landed(p) /\ snap[p].uid = lease.uid =>
       leaseAge <= call[p].age /\ late = {}

ProcessOK(p) == FreshOK(p) /\ CallOK(p) /\ ReadOK(p) /\ Exclusive(p) /\ AgeOK(p)

\* The inductive invariant.
LeadershipInv == TypeOK /\ StoreInv /\ \A p \in Pods : ProcessOK(p)

-----------------------------------------------------------------------------
(* Types.                                                                  *)

LEMMA Constants ==
  /\ HostOf \in [Pods -> Hosts] /\ None \notin Pods /\ None \notin Hosts
  /\ RenewDeadline \in Nat /\ LeaseDuration \in Nat
  /\ 1 < RenewDeadline /\ RenewDeadline < LeaseDuration
  /\ 0 \in Ages
BY LeadershipAssumption DEF Ages

LEMMA AgesAreNat == Ages \subseteq Nat
BY Constants DEF Ages

LEMMA EmptyLeaseFacts ==
  ASSUME NEW n \in Nat
  PROVE  /\ EmptyLease(n) \in Snapshot /\ EmptyLease(n).uid = n
         /\ EmptyLease(n).holder = None /\ WellFormed(EmptyLease(n))
BY DEF EmptyLease, Snapshot, GracefulRelease, DiscoveryMarker,
       ApprovalConsumption, WellFormed

LEMMA NoneTypes == NoCall \in Calls /\ NoGrant \in Approval
<1>1. NoCall \in Calls
  BY EmptyLeaseFacts, Constants DEF NoCall, Calls
<1>2. NoGrant \in Approval
  BY DEF NoGrant, Approval, Modes
<1>. QED  BY <1>1, <1>2

LEMMA NoCallFields == NoCall.sent = FALSE /\ NoCall.kind = "none"
BY DEF NoCall

LEMMA OlderAges ==
  ASSUME NEW a \in Ages
  PROVE  /\ Older(a) \in Ages /\ a <= Older(a)
         /\ \A b \in Ages : b <= a => Older(b) <= Older(a)
         /\ \A b \in Ages : b <= a /\ a < LeaseDuration => Older(b) <= a + 1
BY Constants DEF Ages, Older

\* The types of what a process keeps.
ProcessTypes ==
  /\ phase \in [Pods -> Phases] /\ snap \in [Pods -> Snapshot]
  /\ fresh \in [Pods -> BOOLEAN] /\ call \in [Pods -> Calls]
  /\ age \in [Pods -> Ages] /\ grant \in [Pods -> Approval]
  /\ busy \in [Pods -> BOOLEAN]

LateType == late \subseteq [next : Snapshot, age : Ages]

LEMMA AbandonedType ==
  ASSUME TypeOK, NEW p \in Pods
  PROVE  Abandoned(p) \subseteq [next : Snapshot, age : Ages]
<1>1. call[p].next \in Snapshot /\ call[p].age \in Ages
  BY DEF TypeOK, Calls
<1>. QED  BY <1>1 DEF Abandoned

LEMMA ExitType ==
  ASSUME TypeOK, NEW P \in SUBSET Pods, ExitAll(P)
  PROVE  ProcessTypes' /\ LateType'
<1>1. /\ NoCall \in Calls /\ NoGrant \in Approval /\ EmptyLease(0) \in Snapshot
      /\ 0 \in Ages /\ "down" \in Phases
  BY NoneTypes, EmptyLeaseFacts, Constants DEF Phases
<1>2. phase' \in [Pods -> Phases] /\ snap' \in [Pods -> Snapshot]
  BY <1>1 DEF TypeOK, ExitAll
<1>3. call' \in [Pods -> Calls] /\ grant' \in [Pods -> Approval]
  BY <1>1 DEF TypeOK, ExitAll
<1>4. /\ fresh' \in [Pods -> BOOLEAN] /\ age' \in [Pods -> Ages]
      /\ busy' \in [Pods -> BOOLEAN]
  BY <1>1 DEF TypeOK, ExitAll
<1>5. late' \subseteq [next : Snapshot, age : Ages]
  BY AbandonedType DEF TypeOK, ExitAll
<1>. QED  BY <1>2, <1>3, <1>4, <1>5 DEF ProcessTypes, LateType

LEMMA OneExitType ==
  ASSUME TypeOK, NEW p \in Pods, Exit(p)
  PROVE  ProcessTypes' /\ LateType'
BY ExitType DEF Exit

LEMMA SendType ==
  ASSUME TypeOK, NEW p \in Pods, NEW kind \in {"cas", "renew"},
         NEW next \in Snapshot, NEW since \in Ages, Send(p, kind, next, since)
  PROVE  /\ call' \in [Pods -> Calls] /\ call[p] = NoCall
         /\ call'[p] # NoCall /\ call'[p].sent /\ call'[p].kind = kind
         /\ call'[p].next = next /\ call'[p].age = since
         /\ \A q \in Pods \ {p} : call'[q] = call[q]
<1>. DEFINE c == [kind |-> kind, sent |-> TRUE, next |-> next, age |-> since]
<1>1. /\ c \in Calls /\ c.sent /\ c.kind = kind /\ c.next = next
      /\ c.age = since /\ c # NoCall
  BY NoCallFields DEF Calls
<1>2. call[p] = NoCall /\ call' = [call EXCEPT ![p] = c]
  BY DEF Send
<1>. HIDE DEF c
<1>. QED  BY <1>1, <1>2 DEF TypeOK

LEMMA LoadedType ==
  ASSUME TypeOK
  PROVE  Loaded \in Snapshot /\ (~Absent(lease) => Loaded = lease)
BY EmptyLeaseFacts DEF Loaded, TypeOK

\* A new incarnation, or the one that is stored.
Incarnation ==
  \/ UNCHANGED <<lease, leaseAge, leases>>
  \/ /\ Absent(lease) /\ lease' = EmptyLease(leases + 1)
     /\ leaseAge' = 0 /\ leases' = leases + 1

LEMMA CreateInitialShape ==
  ASSUME CreateInitial
  PROVE  Incarnation /\ lease' = Loaded
BY DEF CreateInitial, Incarnation, Loaded

LEMMA IncarnationType ==
  ASSUME TypeOK, Incarnation
  PROVE  lease' \in Snapshot /\ leaseAge' \in Ages /\ leases' \in Nat
BY EmptyLeaseFacts, Constants DEF Incarnation, TypeOK

-----------------------------------------------------------------------------
(* The shapes of a step.                                                   *)

Same(q) ==
  /\ phase'[q] = phase[q] /\ snap'[q] = snap[q] /\ fresh'[q] = fresh[q]
  /\ call'[q] = call[q] /\ age'[q] = age[q] /\ grant'[q] = grant[q]
  /\ busy'[q] = busy[q]

\* The processes outside P stay as they are, those of P may abandon updates.
StepOf(P) ==
  /\ Incarnation
  /\ late' \subseteq late \cup UNION {Abandoned(r) : r \in P}
  /\ \A q \in Pods \ P : Same(q) /\ host'[HostOf[q]] = host[HostOf[q]]

\* A process comes to hold by landing an update only, and sends one only when
\* nobody else holds.
Modest(p) ==
  /\ Holding(p)' => Holding(p) /\ snap'[p].uid = snap[p].uid
  /\ CanLand(p)' => \/ CanLand(p)
                    \/ \A q \in Pods \ {p} :
                         ~(Holding(q) /\ snap[q].uid = lease.uid)

LEMMA InvFacts ==
  ASSUME LeadershipInv
  PROVE  /\ TypeOK /\ StoreInv
         /\ \A p \in Pods : /\ FreshOK(p) /\ CallOK(p) /\ ReadOK(p)
                            /\ Exclusive(p) /\ AgeOK(p)
BY DEF LeadershipInv, ProcessOK

\* An update that can land replaces what its author read.
LEMMA CanLandFacts ==
  ASSUME LeadershipInv, NEW p \in Pods, CanLand(p)
  PROVE  /\ call[p] # NoCall /\ lease = snap[p] /\ ~Absent(lease)
         /\ WellFormed(call[p].next) /\ call[p].next.uid = lease.uid
         /\ phase[p] # "releasing" => call[p].next.holder = p
<1>1. call[p] # NoCall /\ ~Landed(p)
  BY NoCallFields DEF CanLand, Landed
<1>. QED  BY <1>1, InvFacts DEF CanLand, FreshOK, CallOK

LEMMA AbandonedFacts ==
  ASSUME LeadershipInv, NEW p \in Pods, NEW w \in Abandoned(p)
  PROVE  CanLand(p) /\ w.next = call[p].next /\ w.age = call[p].age
BY DEF Abandoned, CanLand

\* Nothing can land on a Lease that does not exist.
LEMMA AbsentFacts ==
  ASSUME LeadershipInv, Absent(lease)
  PROVE  late = {} /\ \A p \in Pods : ~fresh[p] /\ Abandoned(p) = {}
<1>1. late = {} /\ \A p \in Pods : ~fresh[p]
  BY InvFacts DEF StoreInv, FreshOK
<1>. QED  BY <1>1 DEF Abandoned

\* A new incarnation has a UID that nobody has seen.
LEMMA NewIncarnation ==
  ASSUME LeadershipInv, Incarnation, lease' # lease
  PROVE  /\ Absent(lease) /\ lease'.uid = leases + 1 /\ leases' = leases + 1
         /\ leases \in Nat /\ WellFormed(lease') /\ ~Absent(lease')
         /\ \A p \in Pods : snap[p].uid \in Nat /\ snap[p].uid # lease'.uid
<1>1. Absent(lease) /\ lease' = EmptyLease(leases + 1) /\ leases' = leases + 1
  BY DEF Incarnation
<1>2. leases \in Nat /\ \A p \in Pods : snap[p].uid \in Nat
  BY InvFacts DEF TypeOK, Snapshot
<1>3. \A p \in Pods : snap[p].uid <= leases
  BY InvFacts DEF ReadOK
<1>4. EmptyLease(leases + 1).uid = leases + 1 /\ WellFormed(EmptyLease(leases + 1))
  BY <1>2, EmptyLeaseFacts
<1>. QED  BY <1>1, <1>2, <1>3, <1>4 DEF Absent

LEMMA StepStore ==
  ASSUME LeadershipInv, NEW P \in SUBSET Pods, StepOf(P)
  PROVE  StoreInv' /\ (lease' # lease => late' = {})
<1>1. CASE lease' # lease
  <2>1. late' = {}
    BY <1>1, NewIncarnation, AbsentFacts DEF StepOf
  <2>. QED  BY <1>1, <2>1, NewIncarnation DEF StepOf, StoreInv
<1>2. CASE lease' = lease
  <2>1. /\ leases \in Nat /\ lease.uid \in Nat
        /\ leases' = leases \/ leases' = leases + 1
    BY InvFacts DEF TypeOK, Snapshot, StepOf, Incarnation
  <2>2. /\ WellFormed(lease') /\ lease'.uid <= leases'
        /\ Absent(lease) => lease.holder = None
    BY <1>2, <2>1, InvFacts DEF StoreInv
  <2>3. ASSUME NEW w \in late'
        PROVE  WellFormed(w.next) /\ w.next.uid = lease.uid /\ ~Absent(lease)
    <3>1. CASE w \in late
      BY <3>1, InvFacts DEF StoreInv
    <3>2. ASSUME NEW r \in P, w \in Abandoned(r)
          PROVE  WellFormed(w.next) /\ w.next.uid = lease.uid /\ ~Absent(lease)
      BY <3>2, AbandonedFacts, CanLandFacts
    <3>. QED  BY <3>1, <3>2 DEF StepOf
  <2>. QED  BY <1>2, <2>2, <2>3 DEF StoreInv, Absent
<1>. QED  BY <1>1, <1>2

\* The others, while every process of P is modest.
LEMMA OthersKeep ==
  ASSUME LeadershipInv, NEW P \in SUBSET Pods, StepOf(P),
         \A r \in P : Modest(r), NEW q \in Pods \ P
  PROVE  ProcessOK(q)'
<1>0. /\ Same(q) /\ host'[HostOf[q]] = host[HostOf[q]]
      /\ FreshOK(q) /\ CallOK(q) /\ ReadOK(q) /\ Exclusive(q) /\ AgeOK(q)
  BY InvFacts DEF StepOf
<1>1. /\ Landed(q)' = Landed(q) /\ Running(q)' = Running(q)
      /\ Holding(q)' = Holding(q) /\ Leading(q)' = Leading(q)
  BY <1>0 DEF Same, Landed, Running, Holding, Leading
<1>2. /\ lease' # lease => ~fresh[q] /\ late' = {} /\ snap[q].uid # lease'.uid
      /\ lease' = lease \/ Absent(lease)
  BY NewIncarnation, AbsentFacts, StepStore DEF StepOf
<1>3. FreshOK(q)'
  BY Zenon, <1>0, <1>1, <1>2 DEF FreshOK, Same
<1>4. CallOK(q)'
  BY <1>0, <1>1 DEF CallOK, Same
<1>5. ReadOK(q)'
  <2>1. snap[q].uid \in Nat /\ leases \in Nat
        /\ (leases' = leases \/ leases' = leases + 1)
    BY Zenon, InvFacts DEF TypeOK, Snapshot, StepOf, Incarnation
  <2>2. snap[q].uid <= leases'
    BY <1>0, <2>1 DEF ReadOK
  <2>. QED  BY Zenon, <1>0, <1>1, <2>2 DEF ReadOK, Same
<1>6. ASSUME Holding(q), snap[q].uid = lease'.uid
      PROVE  /\ lease' = lease /\ late' \subseteq late /\ lease.holder = q
             /\ \A w \in late : w.next.holder = q
             /\ \A r \in Pods \ {q} : ~CanLand(r) /\ ~CanLand(r)'
  <2>1. lease' = lease
    BY Zenon, <1>2, <1>6
  <2>2. /\ lease.holder = q /\ \A w \in late : w.next.holder = q
        /\ \A r \in Pods \ {q} : ~CanLand(r)
    BY <1>0, <1>6, <2>1 DEF Exclusive
  <2>3. \A r \in P : Abandoned(r) = {}
    BY <2>2, AbandonedFacts
  <2>4. late' \subseteq late
    BY <2>3 DEF StepOf
  <2>5. ASSUME NEW r \in Pods \ {q} PROVE ~CanLand(r)'
    <3>1. CASE r \in P
      BY <1>6, <2>1, <2>2, <3>1 DEF Modest
    <3>2. CASE r \notin P
      BY <2>2, <3>2 DEF CanLand, StepOf, Same
    <3>. QED  BY <3>1, <3>2
  <2>. QED  BY <2>1, <2>2, <2>4, <2>5
<1>7. Exclusive(q)'
  <2>1. ASSUME NEW r \in Pods, Holding(r)'
        PROVE  Holding(r) /\ snap'[r].uid = snap[r].uid
    <3>1. CASE r \in P
      BY <2>1, <3>1 DEF Modest
    <3>2. CASE r \notin P
      <4>1. Same(r)
        BY <3>2 DEF StepOf
      <4>. QED  BY <2>1, <4>1 DEF Same, Holding, Landed, Running
    <3>. QED  BY <3>1, <3>2
  <2>2. snap'[q] = snap[q]
    BY <1>0 DEF Same
  <2>3. ASSUME Holding(q), NEW r \in Pods, Holding(r)',
               snap'[r].uid = snap'[q].uid
        PROVE  r = q
    BY <1>0, <2>1, <2>2, <2>3 DEF Exclusive
  <2>. QED  BY Zenon, <1>1, <1>6, <2>2, <2>3 DEF Exclusive
<1>8. AgeOK(q)'
  <2>1. /\ lease' = lease => leaseAge' = leaseAge \/ Absent(lease)
    BY Zenon DEF StepOf, Incarnation
  <2>2. Running(q) => Holding(q) /\ ~Absent(snap[q])
    BY Zenon, <1>0 DEF Holding, ReadOK, Running
  <2>3. Holding(q) => ~Absent(snap[q])
    BY Zenon, <1>0 DEF Holding, ReadOK, Running, Starting
  <2>4. Holding(q) /\ snap[q].uid = lease'.uid => leaseAge' = leaseAge
    BY Zenon, <1>6, <2>1, <2>3 DEF Absent
  <2>. QED  BY Zenon, <1>0, <1>1, <1>6, <2>2, <2>4 DEF AgeOK, Same
<1>. QED  BY <1>3, <1>4, <1>5, <1>7, <1>8 DEF ProcessOK

\* The process that steps stays exclusive.
LEMMA SelfExclusive ==
  ASSUME LeadershipInv, NEW p \in Pods, StepOf({p}), Modest(p)
  PROVE  Exclusive(p)'
<1>. SUFFICES ASSUME Holding(p)' PROVE Exclusive(p)'
  BY DEF Exclusive
<1>1. Holding(p) /\ snap'[p].uid = snap[p].uid
  BY DEF Modest
<1>2. ASSUME snap[p].uid = lease'.uid
      PROVE  /\ lease'.holder = p /\ \A w \in late' : w.next.holder = p
             /\ \A q \in Pods \ {p} : ~CanLand(q)'
  <2>1. lease' = lease
    BY <1>2, NewIncarnation DEF StepOf
  <2>2. /\ lease.holder = p /\ \A w \in late : w.next.holder = p
        /\ \A q \in Pods \ {p} : ~CanLand(q)
    BY Zenon, <1>1, <1>2, <2>1, InvFacts DEF Exclusive
  <2>3. phase[p] # "releasing"
    BY <1>1 DEF Holding, Running, Starting
  <2>4. \A w \in Abandoned(p) : w.next.holder = p
    BY <2>3, AbandonedFacts, CanLandFacts
  <2>5. \A q \in Pods \ {p} : ~CanLand(q)'
    BY <2>2 DEF StepOf, Same, CanLand
  <2>. QED  BY <2>1, <2>2, <2>4, <2>5 DEF StepOf
<1>3. ASSUME NEW q \in Pods, Holding(q)', snap'[q].uid = snap'[p].uid
      PROVE  q = p
  <2>. SUFFICES ASSUME q # p PROVE q = p
    OBVIOUS
  <2>1. Same(q)
    BY DEF StepOf
  <2>2. Holding(q) /\ snap[q].uid = snap[p].uid
    BY Zenon, <1>1, <1>3, <2>1 DEF Same, Holding, Landed, Running
  <2>. QED  BY <1>1, <2>2, InvFacts DEF Exclusive
<1>. QED  BY Zenon, <1>1, <1>2, <1>3 DEF Exclusive

Kept == StoreInv' /\ \A q \in Pods : ProcessOK(q)'

\* A step of one process.
LEMMA SelfKeeps ==
  ASSUME LeadershipInv, NEW p \in Pods, StepOf({p}), Modest(p),
         FreshOK(p)', CallOK(p)', ReadOK(p)', AgeOK(p)'
  PROVE  Kept
<1>1. ProcessOK(p)'
  BY SelfExclusive DEF ProcessOK
<1>2. \A q \in Pods \ {p} : ProcessOK(q)'
  BY OthersKeep
<1>. QED  BY <1>1, <1>2, StepStore DEF Kept

\* Processes that end.
LEMMA ExitKeeps ==
  ASSUME LeadershipInv, NEW P \in SUBSET Pods, ExitAll(P), Incarnation,
         \A q \in Pods \ P : host'[HostOf[q]] = host[HostOf[q]]
  PROVE  Kept
<1>1. StepOf(P)
  BY Zenon, InvFacts DEF StepOf, ExitAll, Same, TypeOK
<1>2. ASSUME NEW r \in P
      PROVE  /\ phase'[r] = "down" /\ call'[r] = NoCall /\ ~fresh'[r]
             /\ ~busy'[r] /\ snap'[r] = EmptyLease(0)
  BY Zenon DEF ExitAll
<1>3. ASSUME NEW r \in P PROVE ~Holding(r)' /\ ~CanLand(r)' /\ ~Running(r)'
  BY Zenon, <1>2 DEF Holding, Running, Landed, Starting, CanLand
<1>4. \A r \in P : Modest(r)
  BY Zenon, <1>3 DEF Modest
<1>5. ASSUME NEW r \in P PROVE ProcessOK(r)'
  <2>1. FreshOK(r)' /\ CallOK(r)' /\ Exclusive(r)' /\ AgeOK(r)'
    BY Zenon, <1>2, <1>3 DEF FreshOK, CallOK, Exclusive, AgeOK
  <2>2. leases' \in Nat
    BY IncarnationType, InvFacts
  <2>3. ReadOK(r)'
    BY <1>2, <1>3, <2>2, EmptyLeaseFacts DEF ReadOK
  <2>. QED  BY Zenon, <2>1, <2>3 DEF ProcessOK
<1>. QED  BY <1>1, <1>4, <1>5, OthersKeep, StepStore DEF Kept

\* A session that sends an update of the Lease it holds.
LEMMA SendKeeps ==
  ASSUME LeadershipInv, NEW p \in Pods, Running(p),
         NEW kind \in {"cas", "renew"}, NEW next \in Snapshot,
         WellFormed(next), next.uid = snap[p].uid, next.holder = p,
         kind = "renew" => next = snap[p], Send(p, kind, next, 0),
         UNCHANGED <<leaseState, phase, snap, fresh, age, grant, busy, host,
                     leases>>
  PROVE  Kept /\ ProcessTypes' /\ LateType'
<1>0. /\ TypeOK /\ FreshOK(p) /\ CallOK(p) /\ ReadOK(p) /\ AgeOK(p)
      /\ 0 \in Ages /\ age[p] \in Ages /\ 0 <= age[p]
  BY InvFacts, Constants DEF TypeOK, Ages
<1>1. /\ call' \in [Pods -> Calls] /\ call[p] = NoCall
      /\ call'[p] # NoCall /\ call'[p].sent /\ call'[p].kind = kind
      /\ call'[p].next = next /\ call'[p].age = 0
      /\ \A q \in Pods \ {p} : call'[q] = call[q]
  BY Zenon, <1>0, SendType
<1>2. UNCHANGED <<lease, leaseAge, late>>
  BY Zenon DEF leaseState
<1>3. ProcessTypes' /\ LateType'
  BY <1>0, <1>1, <1>2 DEF TypeOK, ProcessTypes, LateType
<1>4. StepOf({p})
  BY Zenon, <1>1, <1>2 DEF StepOf, Incarnation, Same
<1>5. ~Landed(p) /\ ~Landed(p)' /\ Running(p)' /\ Holding(p)
  BY Zenon, <1>1, NoCallFields DEF Landed, Running, Holding
<1>6. fresh[p] => lease.holder = p
  BY Zenon, <1>0, <1>5 DEF FreshOK, ReadOK
<1>7. Modest(p)
  <2>1. fresh[p] => \A q \in Pods \ {p} :
                      ~(Holding(q) /\ snap[q].uid = lease.uid)
    BY Zenon, <1>6, InvFacts DEF Exclusive
  <2>. QED  BY Zenon, <1>5, <2>1 DEF Modest, CanLand
<1>8. FreshOK(p)'
  BY Zenon, <1>0, <1>2, <1>5 DEF FreshOK
<1>9. CallOK(p)'
  BY Zenon, <1>1, <1>5 DEF CallOK
<1>10. ReadOK(p)'
  <2>1. Leading(p)' = Leading(p)
    BY Zenon DEF Leading
  <2>2. phase[p] \notin {"down", "fencing"}
    BY DEF Running
  <2>. QED  BY Zenon, <1>0, <1>5, <2>1, <2>2 DEF ReadOK
<1>11. AgeOK(p)'
  BY Zenon, <1>0, <1>1, <1>2, <1>5 DEF AgeOK
<1>. QED  BY Zenon, <1>3, <1>4, <1>7, <1>8, <1>9, <1>10, <1>11, SelfKeeps

\* A session that moves on without touching the Lease.
LEMMA MoveKeeps ==
  ASSUME LeadershipInv, NEW p \in Pods, Leading(p),
         UNCHANGED <<leaseState, snap, fresh, call, age, grant, host, leases>>,
         NEW ph \in {"lead", "quiescing"}, phase' = [phase EXCEPT ![p] = ph],
         NEW b \in BOOLEAN, busy' = [busy EXCEPT ![p] = b]
  PROVE  Kept /\ ProcessTypes' /\ LateType'
<1>0. /\ TypeOK /\ FreshOK(p) /\ CallOK(p) /\ ReadOK(p) /\ AgeOK(p)
  BY Zenon, InvFacts
<1>1. /\ UNCHANGED <<lease, leaseAge, late>> /\ phase'[p] = ph /\ busy'[p] = b
      /\ \A q \in Pods \ {p} : phase'[q] = phase[q] /\ busy'[q] = busy[q]
  BY <1>0 DEF leaseState, TypeOK
<1>2. ProcessTypes' /\ LateType'
  BY Zenon, <1>0, <1>1 DEF TypeOK, ProcessTypes, LateType, Phases
<1>3. StepOf({p})
  BY Zenon, <1>1 DEF StepOf, Incarnation, Same
<1>4. /\ Landed(p)' = Landed(p) /\ Running(p) /\ Running(p)' /\ Holding(p)
      /\ Leading(p)'
  BY Zenon, <1>1 DEF Landed, Running, Leading, Holding
<1>5. Modest(p)
  BY Zenon, <1>4 DEF Modest, CanLand
<1>6. FreshOK(p)'
  BY Zenon, <1>0, <1>1, <1>4 DEF FreshOK
<1>7. CallOK(p)'
  <2>1. phase[p] # "releasing" /\ phase'[p] # "releasing"
    BY <1>1 DEF Leading
  <2>. QED  BY Zenon, <1>0, <1>4, <2>1 DEF CallOK
<1>8. ReadOK(p)'
  <2>1. /\ phase[p] \notin {"down", "fencing"}
        /\ phase'[p] \notin {"down", "fencing"}
    BY <1>1 DEF Leading
  <2>. QED  BY Zenon, <1>0, <1>4, <2>1 DEF ReadOK
<1>9. AgeOK(p)'
  BY Zenon, <1>0, <1>1, <1>4 DEF AgeOK, Holding
<1>. QED  BY <1>2, <1>3, <1>5, <1>6, <1>7, <1>8, <1>9, SelfKeeps

\* Stop: the session ends, a renewal under way may still land.
LEMMA StopKeeps ==
  ASSUME LeadershipInv, NEW p \in Pods, Running(p), call[p].kind # "cas",
         ~busy[p], NEW ph \in {"approved", "verified", "releasing"},
         StopSession(p, ph), UNCHANGED <<lease, leaseAge, snap, fresh, busy,
                                         host, leases>>,
         NEW g \in Approval, grant' = [grant EXCEPT ![p] = g]
  PROVE  Kept /\ ProcessTypes' /\ LateType'
<1>0. /\ TypeOK /\ FreshOK(p) /\ CallOK(p) /\ ReadOK(p)
  BY Zenon, InvFacts
<1>1. /\ phase'[p] = ph /\ call'[p] = NoCall /\ grant'[p] = g
      /\ late' = late \cup Abandoned(p)
      /\ \A q \in Pods \ {p} : /\ phase'[q] = phase[q] /\ call'[q] = call[q]
                               /\ age'[q] = age[q] /\ grant'[q] = grant[q]
  BY <1>0 DEF StopSession, TypeOK
<1>2. ProcessTypes' /\ LateType'
  BY Zenon, <1>0, NoneTypes, AbandonedType, Constants
     DEF StopSession, TypeOK, ProcessTypes, LateType, Phases
<1>3. StepOf({p})
  BY Zenon, <1>1 DEF StepOf, Incarnation, Same
<1>4. /\ ~Landed(p)' /\ ~Running(p)' /\ ~Holding(p)' /\ ~CanLand(p)'
      /\ ~Leading(p)' /\ phase'[p] \notin {"down", "fencing"}
      /\ phase[p] # "down"
  BY Zenon, <1>1, NoCallFields DEF Landed, Running, Leading, Holding, CanLand, Starting
<1>5. Modest(p)
  BY Zenon, <1>4 DEF Modest
<1>6. FreshOK(p)'
  <2>1. Landed(p) => call[p].kind = "renew"
    BY Zenon, <1>0 DEF Landed, CallOK, TypeOK, Calls
  <2>2. Landed(p) => call[p].next = snap[p]
    BY Zenon, <1>0, <2>1 DEF CallOK, Landed
  <2>. QED  BY Zenon, <1>0, <1>4, <2>2 DEF FreshOK
<1>7. CallOK(p)' /\ AgeOK(p)'
  BY Zenon, <1>1, <1>4 DEF CallOK, AgeOK
<1>8. ReadOK(p)'
  BY Zenon, <1>0, <1>4 DEF ReadOK
<1>. QED  BY Zenon, <1>2, <1>3, <1>5, <1>6, <1>7, <1>8, SelfKeeps

\* A session starts once its update has landed.
LEMMA SessionKeeps ==
  ASSUME LeadershipInv, NEW p \in Pods, Landed(p), phase[p] \in Starting,
         NEW ph \in {"provisional", "lead"}, NewSession(p, ph),
         UNCHANGED <<lease, leaseAge, environment>>
  PROVE  Kept /\ ProcessTypes' /\ LateType'
<1>0. /\ TypeOK /\ FreshOK(p) /\ CallOK(p) /\ ReadOK(p) /\ AgeOK(p)
      /\ UNCHANGED <<host, leases>>
  BY InvFacts DEF environment, counters
<1>1. CASE Exit(p)
  BY Zenon, <1>0, <1>1, OneExitType, ExitKeeps DEF Exit, Incarnation
<1>2. CASE ~Exit(p)
  <2>1. /\ call[p].age < RenewDeadline /\ Answered(p)
        /\ phase' = [phase EXCEPT ![p] = ph]
        /\ age' = [age EXCEPT ![p] = call[p].age]
        /\ grant' = [grant EXCEPT ![p] = NoGrant]
        /\ UNCHANGED <<late, fresh, busy>>
    BY Zenon, <1>2 DEF NewSession
  <2>2. /\ phase'[p] = ph /\ call'[p] = NoCall /\ snap'[p] = call[p].next
        /\ age'[p] = call[p].age /\ call[p].next \in Snapshot
        /\ call[p].age \in Ages
        /\ \A q \in Pods \ {p} :
             /\ phase'[q] = phase[q] /\ call'[q] = call[q]
             /\ snap'[q] = snap[q] /\ age'[q] = age[q] /\ grant'[q] = grant[q]
    BY Zenon, <1>0, <2>1 DEF Answered, TypeOK, Calls
  <2>3. ProcessTypes' /\ LateType'
    BY Zenon, <1>0, <2>1, <2>2, NoneTypes
       DEF Answered, TypeOK, ProcessTypes, LateType, Phases
  <2>4. StepOf({p})
    BY Zenon, <1>0, <2>1, <2>2 DEF StepOf, Incarnation, Same
  <2>5. /\ call[p].next.uid = snap[p].uid /\ call[p].next.holder = p
        /\ WellFormed(call[p].next)
    BY Zenon, <1>0 DEF CallOK, Landed, Starting
  <2>6. /\ ~Landed(p)' /\ Holding(p) /\ ~CanLand(p)' /\ ~Leading(p)
        /\ phase'[p] \notin {"down", "fencing"} /\ phase[p] # "down"
    BY Zenon, <2>2, NoCallFields DEF Landed, Holding, CanLand, Starting, Leading
  <2>7. Modest(p)
    BY Zenon, <2>2, <2>5, <2>6 DEF Modest
  <2>8. FreshOK(p)'
    BY Zenon, <1>0, <2>1, <2>2, <2>6 DEF FreshOK
  <2>9. CallOK(p)'
    BY Zenon, <2>2 DEF CallOK
  <2>10. ReadOK(p)'
    BY Zenon, <1>0, <2>1, <2>2, <2>5, <2>6 DEF ReadOK, Absent
  <2>11. AgeOK(p)'
    <3>1. snap[p].uid = lease.uid => leaseAge <= call[p].age /\ late = {}
      BY Zenon, <1>0, <2>6 DEF AgeOK
    <3>2. call[p].age <= RenewDeadline
      <4>1. call[p].age \in Nat
        BY Zenon, <2>2, AgesAreNat
      <4>. QED  BY <2>1, <4>1, Constants
    <3>. QED  BY Zenon, <2>1, <2>2, <2>5, <2>6, <3>1, <3>2 DEF AgeOK
  <2>. QED  BY <2>3, <2>4, <2>7, <2>8, <2>9, <2>10, <2>11, SelfKeeps
<1>. QED  BY <1>1, <1>2

\* Where a Load leads: the Lease is read, and an update may be sent.
Asking(p, ph) ==
  \/ UNCHANGED call /\ ph \in {"blocked", "fencing"}
  \/ /\ ph \in {"acquiring", "promoting", "releasing"}
     /\ Loaded.holder \in {None, p}
     /\ \E next \in Snapshot :
          /\ WellFormed(next) /\ next.uid = Loaded.uid
          /\ ph # "releasing" => next.holder = p
          /\ Send(p, "cas", next, 0)

LEMMA LoadKeeps ==
  ASSUME LeadershipInv, NEW p \in Pods, Load(p), call[p] = NoCall, ~busy[p],
         host[HostOf[p]] = "running", UNCHANGED <<age, grant, busy, host>>,
         NEW ph, phase' = [phase EXCEPT ![p] = ph], Asking(p, ph),
         ph = "fencing" =>
           /\ Loaded.holder # None /\ Loaded.plan = None
           /\ \/ Loaded.holder = p
              \/ /\ grant[p].mode = "abnormal-takeover"
                 /\ grant[p].prev = Loaded.holder
  PROVE  Kept /\ ProcessTypes' /\ LateType'
<1>0. TypeOK /\ StoreInv /\ Loaded \in Snapshot
  BY Zenon, InvFacts, LoadedType
<1>1. /\ Incarnation /\ lease' = Loaded /\ late' = late
      /\ snap' = [snap EXCEPT ![p] = Loaded]
      /\ fresh' = [fresh EXCEPT ![p] = TRUE]
  BY CreateInitialShape DEF Load
<1>2. ph \in Phases
  BY DEF Asking, Phases
<1>3. \/ /\ UNCHANGED call /\ ph \in {"blocked", "fencing"}
      \/ /\ ph \in {"acquiring", "promoting", "releasing"}
         /\ Loaded.holder \in {None, p}
         /\ call' \in [Pods -> Calls] /\ call'[p] # NoCall /\ call'[p].sent
         /\ call'[p].kind = "cas" /\ WellFormed(call'[p].next)
         /\ call'[p].next.uid = Loaded.uid
         /\ ph # "releasing" => call'[p].next.holder = p
         /\ \A q \in Pods \ {p} : call'[q] = call[q]
  <2>1. CASE UNCHANGED call /\ ph \in {"blocked", "fencing"}
    BY Zenon, <2>1
  <2>2. ASSUME NEW next \in Snapshot, WellFormed(next), next.uid = Loaded.uid,
               ph # "releasing" => next.holder = p, Send(p, "cas", next, 0),
               ph \in {"acquiring", "promoting", "releasing"},
               Loaded.holder \in {None, p}
        PROVE  <1>3!2
    <3>1. /\ call' \in [Pods -> Calls] /\ call'[p] # NoCall /\ call'[p].sent
          /\ call'[p].kind = "cas" /\ call'[p].next = next
          /\ \A q \in Pods \ {p} : call'[q] = call[q]
      BY <1>0, <2>2, SendType, Constants
    <3>. QED  BY Zenon, <2>2, <3>1
  <2>. QED  BY Zenon, <2>1, <2>2 DEF Asking
<1>4. ProcessTypes' /\ LateType'
  BY Zenon, <1>0, <1>1, <1>2, <1>3 DEF TypeOK, ProcessTypes, LateType
<1>5. StepOf({p})
  BY Zenon, <1>0, <1>1, <1>3 DEF StepOf, Same, TypeOK
<1>6. /\ phase'[p] = ph /\ snap'[p] = Loaded /\ fresh'[p]
      /\ ph \notin {"down", "provisional", "lead", "quiescing"}
  BY Zenon, <1>0, <1>1 DEF TypeOK, Asking
<1>7. ~Landed(p)' /\ ~Running(p)' /\ ~Holding(p)' /\ ~Leading(p)'
  BY Zenon, <1>3, <1>6, NoCallFields DEF Landed, Running, Leading, Holding
<1>8. WellFormed(Loaded) /\ ~Absent(Loaded) /\ Loaded.uid <= leases'
  <2>1. CASE Absent(lease)
    <3>1. /\ leases \in Nat /\ Loaded = EmptyLease(leases + 1)
          /\ leases' = leases + 1
      BY Zenon, <1>0, <2>1 DEF Loaded, Load, CreateInitial, TypeOK
    <3>. QED  BY <3>1, EmptyLeaseFacts DEF Absent
  <2>2. CASE ~Absent(lease)
    <3>1. Loaded = lease /\ leases' = leases
      BY Zenon, <2>2 DEF Loaded, Load, CreateInitial
    <3>. QED  BY Zenon, <1>0, <2>2, <3>1 DEF StoreInv
  <2>. QED  BY Zenon, <2>1, <2>2
<1>9. ASSUME Loaded.holder \in {None, p}, NEW q \in Pods \ {p}, Holding(q),
             snap[q].uid = lease.uid
      PROVE  FALSE
  <2>1. ~Absent(lease)
    BY Zenon, <1>9, InvFacts DEF ReadOK, Holding, Running, Starting, Absent
  <2>2. lease.holder = q
    BY Zenon, <1>9, InvFacts DEF Exclusive
  <2>. QED  BY Zenon, <1>9, <2>1, <2>2, Constants DEF Loaded
<1>10. Modest(p)
  BY Zenon, <1>3, <1>7, <1>9, NoCallFields DEF Modest, CanLand
<1>11. FreshOK(p)'
  BY Zenon, <1>1, <1>6, <1>7, <1>8 DEF FreshOK
<1>12. CallOK(p)'
  BY Zenon, <1>3, <1>6 DEF CallOK, Starting
<1>13. ReadOK(p)'
  BY Zenon, <1>6, <1>7, <1>8 DEF ReadOK
<1>14. AgeOK(p)'
  BY Zenon, <1>7 DEF AgeOK
<1>. QED  BY Zenon, <1>4, <1>5, <1>10, <1>11, <1>12, <1>13, <1>14, SelfKeeps

\* An update lands: whoever held this incarnation could not have let it.
LEMMA LandKeeps ==
  ASSUME LeadershipInv, NEW p \in Pods, Land(p)
  PROVE  LeadershipInv'
<1>0. /\ TypeOK /\ CanLand(p) /\ FreshOK(p) /\ CallOK(p) /\ ReadOK(p) /\ AgeOK(p)
      /\ call[p] \in Calls
  BY InvFacts DEF Land, CanLand, TypeOK
<1>1. /\ call[p] # NoCall /\ lease = snap[p] /\ ~Absent(lease)
      /\ WellFormed(call[p].next) /\ call[p].next.uid = lease.uid
      /\ phase[p] # "releasing" => call[p].next.holder = p
      /\ call[p].kind # "none"
  BY Zenon, <1>0, CanLandFacts DEF CallOK
<1>2. /\ lease' = call[p].next /\ leaseAge' = call[p].age /\ late' = {}
      /\ fresh' = [q \in Pods |-> q = p]
      /\ UNCHANGED <<phase, snap, age, grant, busy, host, approval, nextId,
                     leases, faults>>
  BY DEF Land, environment, counters
<1>3. /\ call'[p] # NoCall /\ ~call'[p].sent /\ call'[p].next = call[p].next
      /\ call'[p].age = call[p].age /\ call'[p].kind = call[p].kind
      /\ call' \in [Pods -> Calls]
      /\ \A q \in Pods \ {p} : call'[q] = call[q]
  <2>. DEFINE c == [call[p] EXCEPT !.sent = FALSE]
  <2>1. /\ c \in Calls /\ ~c.sent /\ c.next = call[p].next
        /\ c.age = call[p].age /\ c.kind = call[p].kind
    BY Zenon, <1>0 DEF Calls
  <2>2. call' = [call EXCEPT ![p] = c]
    BY DEF Land
  <2>. HIDE DEF c
  <2>3. c # NoCall
    BY Zenon, <1>1, <2>1, NoCallFields
  <2>. QED  BY Zenon, <1>0, <2>1, <2>2, <2>3 DEF TypeOK
<1>4. TypeOK'
  BY Zenon, <1>0, <1>2, <1>3 DEF TypeOK, Calls
<1>5. StoreInv'
  BY Zenon, <1>1, <1>2, InvFacts DEF StoreInv, Absent
<1>6. ASSUME NEW q \in Pods \ {p}, Holding(q)
      PROVE  snap[q].uid # lease.uid
  BY Zenon, <1>0, <1>6, InvFacts DEF Exclusive
<1>7. /\ Landed(p)' /\ ~Landed(p) /\ Running(p)' = Running(p)
      /\ \A q \in Pods \ {p} : /\ Landed(q)' = Landed(q)
                               /\ Holding(q)' = Holding(q)
      /\ \A q \in Pods : /\ Leading(q)' = Leading(q)
                         /\ Running(q)' = Running(q)
  BY Zenon, <1>0, <1>2, <1>3 DEF Landed, Running, Leading, Holding, CanLand
<1>8. ProcessOK(p)'
  <2>1. FreshOK(p)'
    BY Zenon, <1>1, <1>2, <1>3, <1>7 DEF FreshOK, Absent
  <2>2. CallOK(p)'
    BY Zenon, <1>0, <1>1, <1>2, <1>3, <1>7 DEF CallOK
  <2>3. ReadOK(p)'
    BY Zenon, <1>0, <1>1, <1>2, <1>7 DEF ReadOK
  <2>4. Exclusive(p)'
    <3>1. Holding(p)' => phase[p] # "releasing"
      BY Zenon, <1>2 DEF Holding, Running, Starting
    <3>2. ASSUME NEW q \in Pods, Holding(q)', snap'[q].uid = snap'[p].uid
          PROVE  q = p
      BY Zenon, <1>1, <1>2, <1>6, <1>7, <3>2
    <3>3. \A q \in Pods \ {p} : ~CanLand(q)'
      BY Zenon, <1>2 DEF CanLand
    <3>. QED  BY Zenon, <1>1, <1>2, <3>1, <3>2, <3>3 DEF Exclusive
  <2>5. AgeOK(p)'
    <3>1. call[p].age \in Nat
      BY <1>0, Constants DEF Calls, Ages
    <3>2. leaseAge' <= call'[p].age
      BY <1>2, <1>3, <3>1
    <3>3. Running(p)' =>
            /\ age'[p] <= RenewDeadline /\ call'[p].age <= age'[p]
            /\ leaseAge' <= age'[p]
      BY Zenon, <1>0, <1>1, <1>2, <1>3, <1>7 DEF AgeOK
    <3>. QED  BY Zenon, <1>2, <1>3, <1>7, <3>2, <3>3 DEF AgeOK
  <2>. QED  BY <2>1, <2>2, <2>3, <2>4, <2>5 DEF ProcessOK
<1>9. ASSUME NEW q \in Pods \ {p} PROVE ProcessOK(q)'
  <2>0. /\ CallOK(q) /\ ReadOK(q) /\ Exclusive(q) /\ AgeOK(q)
        /\ ~fresh'[q] /\ lease'.uid = lease.uid
    BY Zenon, <1>1, <1>2, InvFacts
  <2>1. FreshOK(q)' /\ CallOK(q)'
    BY Zenon, <1>2, <1>3, <1>7, <2>0 DEF FreshOK, CallOK
  <2>2. ReadOK(q)'
    BY Zenon, <1>2, <1>3, <1>7, <2>0 DEF ReadOK
  <2>3. Exclusive(q)'
    <3>1. ASSUME Holding(q), NEW r \in Pods, Holding(r)',
                 snap'[r].uid = snap'[q].uid
          PROVE  r = q
      BY Zenon, <1>1, <1>2, <1>6, <1>7, <2>0, <3>1 DEF Exclusive
    <3>. QED  BY Zenon, <1>2, <1>6, <1>7, <2>0, <3>1 DEF Exclusive
  <2>4. AgeOK(q)'
    <3>1. Running(q) => Holding(q)
      BY Zenon DEF Holding
    <3>. QED  BY Zenon, <1>2, <1>3, <1>6, <1>7, <2>0, <3>1 DEF AgeOK
  <2>. QED  BY <2>1, <2>2, <2>3, <2>4 DEF ProcessOK
<1>. QED  BY <1>4, <1>5, <1>8, <1>9 DEF LeadershipInv

LEMMA LandLateKeeps ==
  ASSUME LeadershipInv, NEW w \in late, LandLate(w)
  PROVE  LeadershipInv'
<1>0. /\ TypeOK /\ w.next \in Snapshot /\ w.age \in Ages /\ WellFormed(w.next)
      /\ w.next.uid = lease.uid /\ lease.uid <= leases /\ ~Absent(lease)
  BY Zenon, InvFacts DEF TypeOK, StoreInv
<1>1. /\ lease' = w.next /\ leaseAge' = w.age /\ late' = {}
      /\ fresh' = [q \in Pods |-> FALSE]
      /\ UNCHANGED <<phase, snap, call, age, grant, busy, host, approval,
                     nextId, leases, faults>>
  BY DEF LandLate, environment, counters
<1>2. TypeOK' /\ StoreInv'
  BY Zenon, <1>0, <1>1 DEF TypeOK, StoreInv, Absent
<1>3. ASSUME NEW p \in Pods PROVE ProcessOK(p)'
  <2>0. /\ CallOK(p) /\ ReadOK(p) /\ Exclusive(p) /\ AgeOK(p)
        /\ Landed(p)' = Landed(p) /\ Running(p)' = Running(p)
        /\ Leading(p)' = Leading(p) /\ ~fresh'[p]
        /\ \A q \in Pods : Holding(q)' = Holding(q)
    BY Zenon, <1>1, InvFacts DEF Landed, Running, Leading, Holding
  <2>1. FreshOK(p)' /\ CallOK(p)'
    BY Zenon, <1>1, <2>0 DEF FreshOK, CallOK
  <2>2. ReadOK(p)'
    BY Zenon, <1>1, <2>0 DEF ReadOK
  <2>3. \A q \in Pods : ~CanLand(q)'
    BY Zenon, <1>1 DEF CanLand
  <2>4. Exclusive(p)'
    BY Zenon, <1>0, <1>1, <2>0, <2>3 DEF Exclusive
  <2>5. AgeOK(p)'
    BY Zenon, <1>0, <1>1, <2>0 DEF AgeOK
  <2>. QED  BY <2>1, <2>2, <2>4, <2>5 DEF ProcessOK
<1>. QED  BY <1>2, <1>3 DEF LeadershipInv

LEMMA LoseLeaseKeeps ==
  ASSUME LeadershipInv, LoseLease
  PROVE  LeadershipInv'
<1>0. TypeOK /\ leases \in Nat /\ faults \in Nat
  BY Zenon, InvFacts DEF TypeOK
<1>1. /\ lease' = EmptyLease(0) /\ leaseAge' = 0 /\ late' = {}
      /\ fresh' = [q \in Pods |-> FALSE] /\ faults' = faults + 1
      /\ UNCHANGED <<phase, snap, call, age, grant, busy, host, approval,
                     nextId, leases>>
  BY Zenon DEF LoseLease, Fault
<1>2. /\ lease' \in Snapshot /\ lease'.uid = 0 /\ WellFormed(lease')
      /\ lease'.holder = None
  BY <1>1, EmptyLeaseFacts
<1>3. TypeOK' /\ StoreInv'
  BY <1>0, <1>1, <1>2, Constants DEF TypeOK, StoreInv
<1>4. ASSUME NEW p \in Pods PROVE ProcessOK(p)'
  <2>0. /\ CallOK(p) /\ ReadOK(p) /\ Exclusive(p) /\ AgeOK(p)
        /\ Landed(p)' = Landed(p) /\ Running(p)' = Running(p)
        /\ Leading(p)' = Leading(p) /\ ~fresh'[p]
        /\ \A q \in Pods : Holding(q)' = Holding(q)
    BY Zenon, <1>1, InvFacts DEF Landed, Running, Leading, Holding
  <2>1. FreshOK(p)' /\ CallOK(p)'
    BY Zenon, <1>1, <2>0 DEF FreshOK, CallOK
  <2>2. ReadOK(p)'
    BY Zenon, <1>1, <2>0 DEF ReadOK
  <2>3. Holding(p) => snap[p].uid # 0
    BY Zenon, <2>0 DEF ReadOK, Holding, Running, Starting, Absent
  <2>4. Exclusive(p)'
    BY Zenon, <1>1, <1>2, <2>0, <2>3 DEF Exclusive
  <2>5. AgeOK(p)'
    <3>1. Running(p) => Holding(p)
      BY DEF Holding
    <3>. QED  BY Zenon, <1>1, <1>2, <2>0, <2>3, <3>1 DEF AgeOK
  <2>. QED  BY Zenon, <2>1, <2>2, <2>4, <2>5 DEF ProcessOK
<1>. QED  BY <1>3, <1>4 DEF LeadershipInv

\* Time passes alike for the Lease, the sessions and what is under way.
LEMMA TickKeeps ==
  ASSUME LeadershipInv, Tick
  PROVE  LeadershipInv'
<1>0. TypeOK /\ leaseAge \in Ages
  BY Zenon, InvFacts DEF TypeOK
<1>1. /\ leaseAge' = Older(leaseAge)
      /\ late' = {[w EXCEPT !.age = Older(@)] : w \in late}
      /\ UNCHANGED <<lease, phase, snap, fresh, grant, busy, host, approval,
                     nextId, leases, faults>>
  BY DEF Tick, environment, counters
<1>2. ASSUME NEW p \in Pods
      PROVE  /\ call[p] = NoCall => call'[p] = NoCall
             /\ call[p] # NoCall =>
                  /\ call'[p] # NoCall \/ call[p].kind = "none"
                  /\ call'[p].kind = call[p].kind
                  /\ call'[p].sent = call[p].sent
                  /\ call'[p].next = call[p].next
                  /\ call'[p].age = Older(call[p].age)
             /\ call'[p] \in Calls /\ age'[p] \in Ages
             /\ Running(p) => age'[p] = Older(age[p]) /\ age[p] < RenewDeadline
  <2>1. call[p] \in Calls /\ age[p] \in Ages /\ call[p].age \in Ages
    BY Zenon, <1>0 DEF TypeOK, Calls
  <2>2. Older(call[p].age) \in Ages /\ Older(age[p]) \in Ages
    BY Zenon, <2>1, OlderAges
  <2>. DEFINE c == [call[p] EXCEPT !.age = Older(@)]
  <2>3. /\ c \in Calls /\ c.kind = call[p].kind /\ c.sent = call[p].sent
        /\ c.next = call[p].next /\ c.age = Older(call[p].age)
    BY <2>1, <2>2 DEF Calls
  <2>4. /\ call'[p] = IF call[p] = NoCall THEN NoCall ELSE c
        /\ age'[p] = IF Running(p) \/ phase[p] = "fencing"
                     THEN Older(age[p]) ELSE age[p]
        /\ Running(p) => age[p] < RenewDeadline
    BY DEF Tick
  <2>. HIDE DEF c
  <2>. QED  BY Zenon, <2>1, <2>2, <2>3, <2>4, NoneTypes, NoCallFields
<1>3. ASSUME NEW v \in late'
      PROVE  \E w \in late : /\ v.next = w.next /\ v.age = Older(w.age)
                             /\ v \in [next : Snapshot, age : Ages]
  <2>1. PICK w \in late : v = [w EXCEPT !.age = Older(@)]
    BY <1>1
  <2>2. w \in [next : Snapshot, age : Ages]
    BY Zenon, <1>0 DEF TypeOK
  <2>3. Older(w.age) \in Ages
    BY <2>2, OlderAges
  <2>. QED  BY <2>1, <2>2, <2>3
<1>4. TypeOK'
  <2>1. call' \in [Pods -> Calls] /\ age' \in [Pods -> Ages]
    BY Zenon, <1>2 DEF Tick
  <2>2. late' \subseteq [next : Snapshot, age : Ages]
    BY <1>3
  <2>3. leaseAge' \in Ages
    BY <1>0, <1>1, OlderAges
  <2>. QED  BY <1>0, <1>1, <2>1, <2>2, <2>3 DEF TypeOK
<1>5. StoreInv'
  BY <1>1, <1>3, InvFacts DEF StoreInv, Absent
<1>6. ASSUME NEW p \in Pods
      PROVE  /\ (call'[p] # NoCall) = (call[p] # NoCall)
             /\ Landed(p)' = Landed(p) /\ Running(p)' = Running(p)
             /\ Leading(p)' = Leading(p) /\ CanLand(p)' = CanLand(p)
             /\ Holding(p)' = Holding(p)
  <2>1. call[p] # NoCall => call[p].kind # "none"
    BY Zenon, InvFacts DEF CallOK
  <2>2. (call'[p] # NoCall) = (call[p] # NoCall) /\ call'[p].sent = call[p].sent
    BY Zenon, <1>2, <2>1
  <2>. QED  BY <1>1, <2>2 DEF Landed, Running, Leading, CanLand, Holding
<1>7. ASSUME NEW p \in Pods PROVE ProcessOK(p)'
  <2>0. /\ FreshOK(p) /\ CallOK(p) /\ ReadOK(p) /\ Exclusive(p) /\ AgeOK(p)
    BY Zenon, InvFacts
  <2>1. FreshOK(p)'
    BY <1>1, <1>2, <1>6, <2>0 DEF FreshOK, Landed
  <2>2. CallOK(p)'
    BY <1>1, <1>2, <1>6, <2>0 DEF CallOK
  <2>3. ReadOK(p)'
    BY Zenon, <1>1, <1>2, <1>6, <2>0 DEF ReadOK
  <2>4. Exclusive(p)'
    BY <1>1, <1>3, <1>6, <2>0 DEF Exclusive
  <2>5. AgeOK(p)'
    <3>1. age[p] \in Ages /\ call[p].age \in Ages
      BY Zenon, <1>0 DEF TypeOK, Calls
    <3>2. ASSUME Running(p)
          PROVE  /\ age'[p] <= RenewDeadline
                 /\ call[p] # NoCall => call'[p].age <= age'[p]
                 /\ snap[p].uid = lease.uid =>
                      leaseAge' <= age'[p] /\ \A v \in late' : v.age <= age'[p]
      <4>1. age'[p] = Older(age[p]) /\ age[p] < RenewDeadline
        BY Zenon, <1>2, <3>2
      <4>2. Older(age[p]) <= RenewDeadline
        BY <3>1, <4>1, Constants DEF Older, Ages
      <4>3. call[p] # NoCall => Older(call[p].age) <= Older(age[p])
        BY Zenon, <2>0, <3>1, <3>2, OlderAges DEF AgeOK
      <4>4. snap[p].uid = lease.uid => Older(leaseAge) <= Older(age[p])
        BY Zenon, <1>0, <2>0, <3>1, <3>2, OlderAges DEF AgeOK
      <4>5. ASSUME snap[p].uid = lease.uid, NEW v \in late'
            PROVE  v.age <= Older(age[p])
        <5>1. PICK w \in late : v.age = Older(w.age)
          BY <1>3
        <5>2. w.age \in Ages /\ w.age <= age[p]
          BY Zenon, <1>0, <2>0, <3>2, <4>5 DEF AgeOK, TypeOK
        <5>. QED  BY Zenon, <3>1, <5>1, <5>2, OlderAges
      <4>. QED  BY <1>1, <1>2, <4>1, <4>2, <4>3, <4>4, <4>5
    <3>3. ASSUME Holding(p), Landed(p), snap[p].uid = lease.uid
          PROVE  leaseAge' <= call'[p].age /\ late' = {}
      <4>1. leaseAge <= call[p].age /\ late = {} /\ call[p] # NoCall
        BY Zenon, <2>0, <3>3 DEF AgeOK, Landed
      <4>. QED  BY <1>0, <1>1, <1>2, <3>1, <4>1, OlderAges
    <3>. QED  BY <1>1, <1>6, <3>2, <3>3 DEF AgeOK
  <2>. QED  BY <2>1, <2>2, <2>3, <2>4, <2>5 DEF ProcessOK
<1>. QED  BY <1>4, <1>5, <1>7 DEF LeadershipInv

\* The operator and the provider leave the processes and the Lease alone.
LEMMA EnvironmentKeeps ==
  ASSUME LeadershipInv, UNCHANGED <<leaseState, process, leases>>,
         \A h \in Hosts : host[h] = "running" => host'[h] = "running"
  PROVE  Kept /\ ProcessTypes' /\ LateType'
<1>0. /\ UNCHANGED <<lease, leaseAge, late, phase, snap, fresh, call, age,
                     grant, busy, leases>>
      /\ \A p \in Pods : HostOf[p] \in Hosts
  BY Zenon, Constants DEF leaseState, process
<1>1. ProcessTypes' /\ LateType' /\ StoreInv'
  BY Zenon, <1>0, InvFacts DEF TypeOK, ProcessTypes, LateType, StoreInv
<1>2. ASSUME NEW p \in Pods PROVE ProcessOK(p)'
  <2>0. /\ FreshOK(p) /\ CallOK(p) /\ ReadOK(p) /\ Exclusive(p) /\ AgeOK(p)
        /\ Landed(p)' = Landed(p) /\ Running(p)' = Running(p)
        /\ Leading(p)' = Leading(p)
        /\ \A q \in Pods : Holding(q)' = Holding(q) /\ CanLand(q)' = CanLand(q)
    BY Zenon, <1>0, InvFacts DEF Landed, Running, Leading, Holding, CanLand
  <2>1. FreshOK(p)' /\ CallOK(p)'
    BY Zenon, <1>0, <2>0 DEF FreshOK, CallOK
  <2>2. ReadOK(p)'
    BY Zenon, <1>0, <2>0 DEF ReadOK
  <2>3. Exclusive(p)'
    BY Zenon, <1>0, <2>0 DEF Exclusive
  <2>4. AgeOK(p)'
    BY Zenon, <1>0, <2>0 DEF AgeOK
  <2>. QED  BY Zenon, <2>1, <2>2, <2>3, <2>4 DEF ProcessOK
<1>. QED  BY Zenon, <1>1, <1>2 DEF Kept

-----------------------------------------------------------------------------
(* What is written: every update of a well-formed Lease is well formed.     *)

\* A new holder with its own evidence.
LEMMA HolderFields ==
  ASSUME NEW l \in Snapshot, NEW p \in Pods, WellFormed(l), l.plan = None,
         NEW r \in Snapshot, r.holder = p, r.evidence = p, ~r.release,
         r.plan = l.plan
  PROVE  WellFormed(r)
BY Zenon, Constants DEF WellFormed

LEMMA PlanFacts ==
  ASSUME NEW l \in Snapshot, WellFormed(l), NEW p \in Pods,
         PlanAutomaticAcquisition(l, p).mode \notin {"error", "takeover"}
  PROVE  LET next == PlanAutomaticAcquisition(l, p).next
         IN  /\ next \in Snapshot /\ WellFormed(next) /\ next.uid = l.uid
             /\ next.holder = p /\ l.holder \in {None, p}
<1>1. CASE l.holder # None
  <2>1. PlanAutomaticAcquisition(l, p).next = l /\ l.holder = p
    BY <1>1 DEF PlanAutomaticAcquisition
  <2>. QED  BY Zenon, <2>1
<1>2. CASE l.holder = None /\ l.release
  <2>. DEFINE n == [l EXCEPT !.holder = p, !.evidence = p, !.release = FALSE]
  <2>1. PlanAutomaticAcquisition(l, p).next = n /\ l.plan = None
    BY <1>2 DEF PlanAutomaticAcquisition
  <2>2. /\ n \in Snapshot /\ n.holder = p /\ n.evidence = p /\ ~n.release
        /\ n.plan = l.plan /\ n.uid = l.uid
    BY Zenon DEF Snapshot, HolderEvidence, GracefulRelease
  <2>. HIDE DEF n
  <2>. QED  BY Zenon, <1>2, <2>1, <2>2, HolderFields
<1>3. CASE l.holder = None /\ ~l.release
  <2>. DEFINE n == [l EXCEPT !.holder = p, !.evidence = p, !.marker = TRUE]
  <2>1. PlanAutomaticAcquisition(l, p).next = n /\ l.plan = None
    BY <1>3 DEF PlanAutomaticAcquisition
  <2>2. /\ n \in Snapshot /\ n.holder = p /\ n.evidence = p
        /\ n.release = l.release /\ n.plan = l.plan /\ n.uid = l.uid
    BY Zenon DEF Snapshot, HolderEvidence, DiscoveryMarker
  <2>. HIDE DEF n
  <2>. QED  BY Zenon, <1>3, <2>1, <2>2, HolderFields
<1>. QED  BY Zenon, <1>1, <1>2, <1>3

\* The journal entries of a holder.
LEMMA PlanFields ==
  ASSUME NEW l \in Snapshot, WellFormed(l), NEW p \in Pods, l.holder = p,
         NEW x \in Plan \cup {None}, x # None => x.pod = p
  PROVE  LET next == [l EXCEPT !.plan = x]
         IN  /\ next \in Snapshot /\ WellFormed(next) /\ next.uid = l.uid
             /\ next.holder = p
BY Constants DEF Snapshot, WellFormed

LEMMA AttemptFields ==
  ASSUME NEW l \in Snapshot, WellFormed(l), NEW p \in Pods, l.holder = p,
         NEW x \in Attempt \cup {None}
  PROVE  LET next == [l EXCEPT !.attempt = x]
         IN  /\ next \in Snapshot /\ WellFormed(next) /\ next.uid = l.uid
             /\ next.holder = p
BY Constants DEF Snapshot, WellFormed

LEMMA MarkerFields ==
  ASSUME NEW l \in Snapshot, WellFormed(l), NEW p \in Pods, l.holder = p
  PROVE  LET next == [l EXCEPT !.marker = FALSE]
         IN  /\ next \in Snapshot /\ WellFormed(next) /\ next.uid = l.uid
             /\ next.holder = p
BY Zenon, Constants DEF Snapshot, WellFormed, DiscoveryMarker

\* The release, and the installation of an approved holder.
LEMMA ReleaseFields ==
  ASSUME NEW l \in Snapshot, NEW p \in Pods, l.evidence = p, l.attempt = None,
         l.plan = None
  PROVE  LET next == [l EXCEPT !.holder = None, !.release = TRUE]
         IN  /\ next \in Snapshot /\ WellFormed(next) /\ next.uid = l.uid
<1>. DEFINE n == [l EXCEPT !.holder = None, !.release = TRUE]
<1>1. /\ n \in Snapshot /\ n.holder = None /\ n.release /\ n.uid = l.uid
      /\ n.evidence = p /\ n.attempt = None /\ n.plan = None
  BY Zenon DEF Snapshot, GracefulRelease
<1>. HIDE DEF n
<1>2. WellFormed(n)
  BY Zenon, <1>1, Constants DEF WellFormed
<1>. QED  BY <1>1, <1>2 DEF n

-----------------------------------------------------------------------------
(* One step per action.                                                    *)

Whole ==
  /\ Kept /\ ProcessTypes' /\ LateType'
  /\ lease' \in Snapshot /\ leaseAge' \in Ages /\ leases' \in Nat
  /\ host' \in [Hosts -> {"running", "stopped"}] /\ approval' \in Approval
  /\ nextId' \in Nat /\ faults' \in Nat

LEMMA WholeKeeps == ASSUME Whole PROVE LeadershipInv'
BY Zenon DEF Whole, Kept, LeadershipInv, TypeOK, ProcessTypes, LateType

\* The parts of a step that leave the environment alone.
LEMMA QuietWhole ==
  ASSUME LeadershipInv, Kept, ProcessTypes', LateType', Incarnation,
         UNCHANGED <<host, approval>>, nextId' \in Nat, faults' \in Nat
  PROVE  LeadershipInv'
<1>1. TypeOK
  BY InvFacts
<1>2. lease' \in Snapshot /\ leaseAge' \in Ages /\ leases' \in Nat
  BY <1>1, IncarnationType
<1>. QED  BY Zenon, <1>1, <1>2, WholeKeeps DEF Whole, TypeOK

LEMMA ExitWhole ==
  ASSUME LeadershipInv, NEW p \in Pods, Exit(p), Incarnation,
         UNCHANGED <<host, approval, nextId>>, faults' \in Nat
  PROVE  LeadershipInv'
<1>1. TypeOK /\ nextId' \in Nat
  BY Zenon, InvFacts DEF TypeOK
<1>2. Kept
  BY ExitKeeps DEF Exit
<1>3. ProcessTypes' /\ LateType'
  BY <1>1, OneExitType
<1>. QED  BY <1>1, <1>2, <1>3, QuietWhole

\* A process that has no session and sends nothing.
LEMMA WaitingFacts ==
  ASSUME LeadershipInv, NEW p \in Pods,
         phase[p] \in {"blocked", "approved", "fencing", "verified"}
  PROVE  call[p] = NoCall /\ ~busy[p] /\ host[HostOf[p]] = "running"
BY Zenon, InvFacts DEF CallOK, ReadOK, Running, Leading, Starting

LEMMA LoadedFacts ==
  ASSUME LeadershipInv
  PROVE  /\ Loaded \in Snapshot /\ WellFormed(Loaded)
         /\ lease.holder # None => Loaded = lease
<1>1. TypeOK /\ StoreInv /\ leases \in Nat
  BY Zenon, InvFacts DEF TypeOK
<1>2. WellFormed(Loaded)
  BY <1>1, EmptyLeaseFacts DEF Loaded, StoreInv
<1>. QED  BY Zenon, <1>1, <1>2, LoadedType DEF StoreInv

LEMMA AcquireKeeps ==
  ASSUME LeadershipInv, NEW p \in Pods, Acquire(p)
  PROVE  LeadershipInv'
<1>0. /\ phase[p] = "down" /\ host[HostOf[p]] = "running" /\ call[p] = NoCall
      /\ ~busy[p] /\ UNCHANGED <<host, approval, nextId, faults>>
      /\ nextId \in Nat /\ faults \in Nat
  BY Zenon, InvFacts DEF Acquire, ReadOK, TypeOK
<1>. DEFINE plan == PlanAutomaticAcquisition(Loaded, p)
<1>1. CASE plan.mode = "error"
  <2>1. Exit(p) /\ CreateInitial
    BY Zenon, <1>1 DEF Acquire
  <2>. QED  BY Zenon, <1>0, <2>1, CreateInitialShape, ExitWhole
<1>2. CASE plan.mode # "error"
  <2>1. /\ Load(p) /\ UNCHANGED <<age, grant, busy>>
        /\ \/ phase' = [phase EXCEPT ![p] = "blocked"] /\ UNCHANGED call
           \/ /\ phase' = [phase EXCEPT ![p] = "acquiring"]
              /\ Send(p, "cas", plan.next, 0) /\ plan.mode # "takeover"
    BY Zenon, <1>2 DEF Acquire
  <2>2. Incarnation
    BY Zenon, <2>1, CreateInitialShape DEF Load
  <2>3. CASE phase' = [phase EXCEPT ![p] = "blocked"] /\ UNCHANGED call
    <3>1. Asking(p, "blocked")
      BY Zenon, <2>3 DEF Asking
    <3>2. Kept /\ ProcessTypes' /\ LateType'
      BY Zenon, <1>0, <2>1, <2>3, <3>1, LoadKeeps
    <3>. QED  BY Zenon, <1>0, <2>2, <3>2, QuietWhole
  <2>4. CASE /\ phase' = [phase EXCEPT ![p] = "acquiring"]
             /\ Send(p, "cas", plan.next, 0) /\ plan.mode # "takeover"
    <3>1. /\ plan.next \in Snapshot /\ WellFormed(plan.next)
          /\ plan.next.uid = Loaded.uid /\ plan.next.holder = p
          /\ Loaded.holder \in {None, p}
      BY Zenon, <1>2, <2>4, PlanFacts, LoadedFacts
    <3>. HIDE DEF plan
    <3>2. Asking(p, "acquiring")
      BY Zenon, <2>4, <3>1 DEF Asking
    <3>3. Kept /\ ProcessTypes' /\ LateType'
      BY Zenon, <1>0, <2>1, <2>4, <3>2, LoadKeeps
    <3>. QED  BY <1>0, <2>2, <3>3, QuietWhole
  <2>. QED  BY Zenon, <2>1, <2>3, <2>4
<1>. QED  BY <1>1, <1>2

LEMMA AcquireApprovedKeeps ==
  ASSUME LeadershipInv, NEW p \in Pods, AcquireApproved(p)
  PROVE  LeadershipInv'
<1>0. /\ host[HostOf[p]] = "running" /\ call[p] = NoCall
      /\ ~busy[p] /\ UNCHANGED <<host, approval, nextId, faults>>
      /\ nextId \in Nat /\ faults \in Nat
  BY Zenon, InvFacts, WaitingFacts DEF AcquireApproved, TypeOK
<1>1. CASE Exit(p) /\ CreateInitial
  BY Zenon, <1>0, <1>1, CreateInitialShape, ExitWhole
<1>2. CASE /\ Approves(grant[p], Loaded, p) /\ Load(p)
           /\ phase' = [phase EXCEPT ![p] = "fencing"]
           /\ UNCHANGED <<call, age, grant, busy>>
  <2>1. /\ Loaded.holder # None /\ Loaded.plan = None
        /\ \/ Loaded.holder = p
           \/ /\ grant[p].mode = "abnormal-takeover"
              /\ grant[p].prev = Loaded.holder
    <3>1. CASE grant[p].mode = "abnormal-takeover"
      BY <1>2, <3>1 DEF Approves
    <3>2. CASE grant[p].mode = "missing-lease-recovery"
      BY <1>2, <3>2, Constants DEF Approves
    <3>. QED  BY <1>2, <3>1, <3>2 DEF Approves
  <2>2. Asking(p, "fencing")
    BY Zenon, <1>2 DEF Asking
  <2>3. Kept /\ ProcessTypes' /\ LateType'
    BY Zenon, <1>0, <1>2, <2>1, <2>2, LoadKeeps
  <2>4. Incarnation
    BY Zenon, <1>2, CreateInitialShape DEF Load
  <2>. QED  BY Zenon, <1>0, <2>3, <2>4, QuietWhole
<1>. QED  BY Zenon, <1>1, <1>2 DEF AcquireApproved

LEMMA PromoteKeeps ==
  ASSUME LeadershipInv, NEW p \in Pods, PromoteFreshInstallation(p)
  PROVE  LeadershipInv'
<1>0. /\ host[HostOf[p]] = "running" /\ call[p] = NoCall
      /\ ~busy[p] /\ UNCHANGED <<host, approval, nextId, faults>>
      /\ nextId \in Nat /\ faults \in Nat
  BY InvFacts, WaitingFacts DEF PromoteFreshInstallation, TypeOK
<1>1. CASE Exit(p) /\ CreateInitial
  BY <1>0, <1>1, CreateInitialShape, ExitWhole
<1>2. CASE /\ lease.holder = p /\ Load(p)
           /\ phase' = [phase EXCEPT ![p] = "promoting"]
           /\ Send(p, "cas", [lease EXCEPT !.marker = FALSE], 0)
           /\ UNCHANGED <<age, grant, busy>>
  <2>. DEFINE n == [lease EXCEPT !.marker = FALSE]
  <2>0. Loaded = lease /\ lease \in Snapshot /\ WellFormed(lease)
    BY <1>2, LoadedFacts, Constants
  <2>1. /\ n \in Snapshot /\ WellFormed(n) /\ n.uid = Loaded.uid /\ n.holder = p
        /\ Loaded.holder = p
    BY <1>2, <2>0, MarkerFields
  <2>2. Send(p, "cas", n, 0)
    BY <1>2
  <2>. HIDE DEF n
  <2>3. Asking(p, "promoting")
    BY Zenon, <2>1, <2>2 DEF Asking
  <2>4. Kept /\ ProcessTypes' /\ LateType'
    BY Zenon, <1>0, <1>2, <2>3, LoadKeeps
  <2>5. Incarnation
    BY <1>2, CreateInitialShape DEF Load
  <2>. QED  BY <1>0, <2>4, <2>5, QuietWhole
<1>. QED  BY Zenon, <1>1, <1>2 DEF PromoteFreshInstallation

LEMMA ReleaseKeeps ==
  ASSUME LeadershipInv, NEW p \in Pods, ReleaseGracefully(p)
  PROVE  LeadershipInv'
<1>0. /\ host[HostOf[p]] = "running" /\ call[p] = NoCall
      /\ ~busy[p] /\ UNCHANGED <<host, approval, nextId, faults>>
      /\ nextId \in Nat /\ faults \in Nat /\ phase \in [Pods -> Phases]
      /\ phase[p] = "releasing"
  BY InvFacts DEF ReleaseGracefully, TypeOK, ReadOK, Leading
<1>1. CASE Exit(p) /\ CreateInitial
  BY Zenon, <1>0, <1>1, CreateInitialShape, ExitWhole
<1>2. CASE /\ PlanGracefulRelease(p) /\ Load(p)
           /\ Send(p, "cas", [lease EXCEPT !.holder = None, !.release = TRUE], 0)
           /\ UNCHANGED <<phase, age, grant, busy>>
  <2>. DEFINE n == [lease EXCEPT !.holder = None, !.release = TRUE]
  <2>0. /\ lease.holder = p /\ lease.evidence = p /\ lease.attempt = None
        /\ lease.plan = None
    BY <1>2 DEF PlanGracefulRelease
  <2>1. Loaded = lease /\ lease \in Snapshot
    BY Zenon, <2>0, LoadedFacts, Constants
  <2>2. n \in Snapshot /\ WellFormed(n) /\ n.uid = Loaded.uid
    BY Zenon, <2>0, <2>1, ReleaseFields
  <2>3. Send(p, "cas", n, 0)
    BY Zenon, <1>2
  <2>. HIDE DEF n
  <2>4. Asking(p, "releasing")
    BY Zenon, <2>0, <2>1, <2>2, <2>3 DEF Asking
  <2>5. phase' = [phase EXCEPT ![p] = "releasing"]
    BY <1>0, <1>2
  <2>6. Kept /\ ProcessTypes' /\ LateType'
    BY Zenon, <1>0, <1>2, <2>4, <2>5, LoadKeeps
  <2>7. Incarnation
    BY <1>2, CreateInitialShape DEF Load
  <2>. QED  BY Zenon, <1>0, <2>6, <2>7, QuietWhole
<1>. QED  BY Zenon, <1>1, <1>2 DEF ReleaseGracefully

LEMMA TakeoverApprovalKeeps ==
  ASSUME LeadershipInv, NEW p \in Pods, TakeoverApproval(p)
  PROVE  LeadershipInv'
<1>0. /\ phase[p] = "blocked" /\ call[p] = NoCall /\ TypeOK
      /\ UNCHANGED <<lease, leaseAge, leases, host, approval, nextId, faults>>
      /\ Incarnation
  BY Zenon, InvFacts, WaitingFacts
     DEF TakeoverApproval, environment, counters, Incarnation
<1>1. CASE Exit(p)
  BY Zenon, <1>0, <1>1, ExitWhole DEF TypeOK
<1>2. CASE /\ phase' = [phase EXCEPT ![p] = "approved"]
           /\ grant' = [grant EXCEPT ![p] = approval]
           /\ UNCHANGED <<late, snap, fresh, call, age, busy>>
  <2>1. /\ phase'[p] = "approved" /\ FreshOK(p) /\ CallOK(p) /\ ReadOK(p)
        /\ \A q \in Pods \ {p} : phase'[q] = phase[q] /\ grant'[q] = grant[q]
    BY Zenon, <1>0, <1>2, InvFacts DEF TypeOK
  <2>2. ProcessTypes' /\ LateType'
    BY Zenon, <1>0, <1>2 DEF TypeOK, ProcessTypes, LateType, Phases
  <2>3. StepOf({p})
    BY Zenon, <1>0, <1>2, <2>1 DEF StepOf, Same
  <2>4. /\ ~Landed(p)' /\ ~Landed(p) /\ ~Running(p)' /\ ~Holding(p)'
        /\ ~CanLand(p)' /\ ~Leading(p)' /\ ~Leading(p)
    BY Zenon, <1>0, <1>2, <2>1, NoCallFields
       DEF Landed, Running, Holding, CanLand, Leading
  <2>5. Modest(p)
    BY Zenon, <2>4 DEF Modest
  <2>6. FreshOK(p)' /\ CallOK(p)' /\ AgeOK(p)'
    BY Zenon, <1>0, <1>2, <2>1, <2>4 DEF FreshOK, CallOK, AgeOK
  <2>7. ReadOK(p)'
    BY Zenon, <1>0, <1>2, <2>1, <2>4 DEF ReadOK
  <2>8. Kept
    BY Zenon, <2>3, <2>5, <2>6, <2>7, SelfKeeps
  <2>. QED  BY Zenon, <1>0, <2>2, <2>8, QuietWhole DEF TypeOK
<1>. QED  BY Zenon, <1>1, <1>2 DEF TakeoverApproval

\* The takeover is sent only when the Instance of the holder is stopped, so
\* that no process of the holder runs.
LEMMA VerifyFenceKeeps ==
  ASSUME LeadershipInv, NEW p \in Pods, VerifyFence(p, ProveFenced(p))
  PROVE  LeadershipInv'
<1>0. /\ phase[p] = "fencing" /\ call[p] = NoCall /\ TypeOK
      /\ UNCHANGED <<lease, leaseAge, leases, host, approval, nextId, faults>>
      /\ Incarnation /\ FreshOK(p) /\ ReadOK(p)
  BY InvFacts, WaitingFacts
     DEF VerifyFence, environment, counters, Incarnation
<1>1. CASE Exit(p)
  BY Zenon, <1>0, <1>1, ExitWhole DEF TypeOK
<1>2. CASE /\ ProveFenced(p) /\ phase' = [phase EXCEPT ![p] = "fenced"]
           /\ Send(p, "cas", [snap[p] EXCEPT !.holder = p, !.evidence = p,
                                !.marker = FALSE, !.used = grant[p].uid], age[p])
           /\ UNCHANGED <<late, snap, fresh, age, grant, busy>>
  <2>. DEFINE n == [snap[p] EXCEPT !.holder = p, !.evidence = p,
                      !.marker = FALSE, !.used = grant[p].uid]
  <2>0. /\ snap[p] \in Snapshot /\ WellFormed(snap[p]) /\ snap[p].holder # None
        /\ snap[p].plan = None /\ grant[p].uid \in Nat /\ age[p] \in Ages
    BY Zenon, <1>0 DEF ReadOK, TypeOK, Approval
  <2>1a. /\ n \in Snapshot /\ n.holder = p /\ n.evidence = p
         /\ n.uid = snap[p].uid /\ n.release = snap[p].release
         /\ n.plan = snap[p].plan
    BY Zenon, <2>0 DEF Snapshot, HolderEvidence, DiscoveryMarker, ApprovalConsumption
  <2>2. Send(p, "cas", n, age[p])
    BY Zenon, <1>2
  <2>. HIDE DEF n
  <2>1. n \in Snapshot /\ WellFormed(n) /\ n.uid = snap[p].uid /\ n.holder = p
    <3>1. ~snap[p].release
      BY Zenon, <2>0 DEF WellFormed
    <3>. QED  BY Zenon, <2>0, <2>1a, <3>1, HolderFields
  <2>3. /\ call' \in [Pods -> Calls] /\ call'[p] # NoCall /\ call'[p].sent
        /\ call'[p].kind = "cas" /\ call'[p].next = n
        /\ \A q \in Pods \ {p} : call'[q] = call[q]
    <3>1. "cas" \in {"cas", "renew"} /\ TypeOK /\ n \in Snapshot /\ age[p] \in Ages
      BY Zenon, <1>0, <2>0, <2>1
    <3>. QED  BY Zenon, <2>2, <3>1, SendType
  <2>4. /\ phase'[p] = "fenced"
        /\ \A q \in Pods \ {p} : phase'[q] = phase[q]
    BY Zenon, <1>0, <1>2 DEF TypeOK
  <2>5. ProcessTypes' /\ LateType'
    BY Zenon, <1>0, <1>2, <2>3 DEF TypeOK, ProcessTypes, LateType, Phases
  <2>6. StepOf({p})
    BY <1>0, <1>2, <2>3, <2>4 DEF StepOf, Same
  <2>7. /\ ~Landed(p)' /\ ~Landed(p) /\ ~Running(p)' /\ ~Holding(p)'
        /\ ~Leading(p)' /\ ~Leading(p)
    BY Zenon, <1>0, <2>3, <2>4, NoCallFields DEF Landed, Running, Holding, Leading
  <2>8. ASSUME fresh[p], NEW q \in Pods \ {p}, Holding(q),
               snap[q].uid = lease.uid
        PROVE  FALSE
    <3>1. lease = snap[p] /\ lease.holder = q
      BY Zenon, <1>0, <2>7, <2>8, InvFacts DEF FreshOK, Exclusive
    <3>2. host[HostOf[q]] = "stopped"
      BY Zenon, <1>0, <1>2, <2>8, <3>1 DEF ReadOK, ProveFenced
    <3>3. host[HostOf[q]] = "running"
      BY Zenon, <2>8, InvFacts DEF ReadOK, Holding, Running, Starting
    <3>. QED  BY Zenon, <3>2, <3>3
  <2>9. Modest(p)
    BY <1>2, <2>7, <2>8 DEF Modest, CanLand
  <2>10. FreshOK(p)'
    BY <1>0, <1>2, <2>7 DEF FreshOK
  <2>11. CallOK(p)'
    BY <1>2, <2>1, <2>3, <2>4 DEF CallOK, Starting
  <2>12. ReadOK(p)' /\ AgeOK(p)'
    BY Zenon, <1>0, <1>2, <2>4, <2>7 DEF ReadOK, AgeOK
  <2>13. Kept
    BY Zenon, <2>6, <2>9, <2>10, <2>11, <2>12, SelfKeeps
  <2>. QED  BY Zenon, <1>0, <2>5, <2>13, QuietWhole DEF TypeOK
<1>. QED  BY Zenon, <1>1, <1>2 DEF VerifyFence

LEMMA StartKeeps ==
  ASSUME LeadershipInv, NEW p \in Pods,
         Acquired(p) \/ ApprovedAcquired(p) \/ Promoted(p)
  PROVE  LeadershipInv'
<1>1. /\ Landed(p) /\ phase[p] \in Starting /\ UNCHANGED <<lease, leaseAge, environment>>
      /\ \E ph \in {"provisional", "lead"} : NewSession(p, ph)
  BY Zenon DEF Acquired, ApprovedAcquired, Promoted, Landed, Starting
<1>2. Kept /\ ProcessTypes' /\ LateType'
  BY Zenon, <1>1, SessionKeeps
<1>3. Incarnation /\ UNCHANGED <<host, approval, nextId, faults>>
  BY Zenon, <1>1 DEF environment, counters, Incarnation
<1>. QED  BY Zenon, <1>2, <1>3, QuietWhole, InvFacts DEF TypeOK

LEMMA StopSessionKeeps ==
  ASSUME LeadershipInv, NEW p \in Pods,
         RecoveryApproval(p) \/ FreshVerified(p) \/ StopForRelease(p)
  PROVE  LeadershipInv'
<1>0. /\ TypeOK /\ ReadOK(p) /\ UNCHANGED <<lease, leaseAge, environment>>
      /\ Running(p) /\ call[p].kind # "cas" /\ ~busy[p] /\ approval \in Approval
      /\ grant \in [Pods -> Approval] /\ nextId \in Nat /\ faults \in Nat
  BY Zenon, InvFacts DEF RecoveryApproval, FreshVerified, StopForRelease, Running,
                  ReadOK, Leading, TypeOK
<1>1. Incarnation /\ UNCHANGED <<host, approval, nextId, leases, faults>>
  BY Zenon, <1>0 DEF environment, counters, Incarnation
<1>2. CASE Exit(p)
  BY Zenon, <1>0, <1>1, <1>2, ExitWhole
<1>3. CASE /\ StopSession(p, "approved") /\ UNCHANGED <<snap, fresh, busy>>
           /\ grant' = [grant EXCEPT ![p] = approval]
  <2>1. Kept /\ ProcessTypes' /\ LateType'
    BY Zenon, <1>0, <1>1, <1>3, StopKeeps
  <2>. QED  BY Zenon, <1>0, <1>1, <2>1, QuietWhole
<1>4. CASE /\ \E ph \in {"verified", "releasing"} : StopSession(p, ph)
           /\ UNCHANGED <<snap, fresh, busy, grant>>
  <2>1. grant' = [grant EXCEPT ![p] = grant[p]] /\ grant[p] \in Approval
    BY Zenon, <1>0, <1>4
  <2>2. Kept /\ ProcessTypes' /\ LateType'
    BY Zenon, <1>0, <1>1, <1>4, <2>1, StopKeeps
  <2>. QED  BY <1>0, <1>1, <2>2, QuietWhole
<1>. QED
  BY Zenon, <1>2, <1>3, <1>4 DEF RecoveryApproval, FreshVerified, StopForRelease

\* What a session may send: its own Lease, with another journal.
LEMMA JournalKeeps ==
  ASSUME LeadershipInv, NEW p \in Pods, Running(p), NEW next \in Snapshot,
         WellFormed(next), next.uid = snap[p].uid, next.holder = p,
         Journal(p, next), nextId' \in Nat
  PROVE  LeadershipInv'
<1>1. /\ Send(p, "cas", next, 0) /\ Incarnation /\ faults' \in Nat
      /\ UNCHANGED <<leaseState, phase, snap, fresh, age, grant, busy, host,
                     approval, leases>>
  BY Zenon, InvFacts DEF Journal, Incarnation, leaseState, TypeOK
<1>2. Kept /\ ProcessTypes' /\ LateType'
  BY Zenon, <1>1, SendKeeps
<1>. QED  BY Zenon, <1>1, <1>2, QuietWhole

LEMMA SessionFacts ==
  ASSUME LeadershipInv, NEW p \in Pods, Running(p)
  PROVE  /\ snap[p] \in Snapshot /\ WellFormed(snap[p]) /\ snap[p].holder = p
         /\ nextId \in Nat /\ HostOf[p] \in Hosts
         /\ snap[p].plan # None => snap[p].plan \in Plan
<1>1. TypeOK /\ ReadOK(p)
  BY Zenon, InvFacts
<1>2. snap[p] \in Snapshot /\ WellFormed(snap[p]) /\ snap[p].holder = p
  BY Zenon, <1>1 DEF TypeOK, ReadOK
<1>. QED  BY Zenon, <1>1, <1>2, Constants DEF TypeOK, Snapshot

LEMMA RenewKeeps ==
  ASSUME LeadershipInv, NEW p \in Pods, Renew(p)
  PROVE  LeadershipInv'
<1>1. /\ Running(p) /\ Send(p, "renew", snap[p], 0)
      /\ UNCHANGED <<leaseState, phase, snap, fresh, age, grant, busy, host,
                     approval, nextId, leases, faults>>
  BY Zenon DEF Renew, environment, counters
<1>2. Kept /\ ProcessTypes' /\ LateType'
  BY Zenon, <1>1, SessionFacts, SendKeeps
<1>3. Incarnation
  BY Zenon, <1>1 DEF Incarnation, leaseState
<1>. QED  BY Zenon, <1>1, <1>2, <1>3, QuietWhole, InvFacts DEF TypeOK

LEMMA SetPlanKeeps ==
  ASSUME LeadershipInv, NEW p \in Pods, SetFreshBootstrapPlan(p)
  PROVE  LeadershipInv'
<1>1. Running(p)
  BY DEF SetFreshBootstrapPlan, Running
<1>2. CASE Journal(p, snap[p]) /\ UNCHANGED nextId
  BY Zenon, <1>1, <1>2, SessionFacts, JournalKeeps
<1>3. CASE /\ nextId' = nextId + 1
           /\ Journal(p, [snap[p] EXCEPT !.plan = [pod |-> p, id |-> nextId]])
  <2>. DEFINE x == [pod |-> p, id |-> nextId]
              n == [snap[p] EXCEPT !.plan = x]
  <2>1. x \in Plan \cup {None} /\ x.pod = p /\ nextId' \in Nat
    BY <1>1, <1>3, SessionFacts DEF Plan
  <2>2. Journal(p, n)
    BY <1>3
  <2>. HIDE DEF x
  <2>3. n \in Snapshot /\ WellFormed(n) /\ n.uid = snap[p].uid /\ n.holder = p
    BY <1>1, <2>1, SessionFacts, PlanFields
  <2>. HIDE DEF n
  <2>. QED  BY Zenon, <1>1, <2>1, <2>2, <2>3, JournalKeeps
<1>. QED  BY Zenon, <1>2, <1>3 DEF SetFreshBootstrapPlan

LEMMA SetAttemptKeeps ==
  ASSUME LeadershipInv, NEW p \in Pods, NEW x \in Attempt \cup {None},
         Running(p), Journal(p, [snap[p] EXCEPT !.attempt = x]), nextId' \in Nat
  PROVE  LeadershipInv'
<1>. DEFINE n == [snap[p] EXCEPT !.attempt = x]
<1>1. n \in Snapshot /\ WellFormed(n) /\ n.uid = snap[p].uid /\ n.holder = p
  BY SessionFacts, AttemptFields
<1>2. Journal(p, n)
  OBVIOUS
<1>. HIDE DEF n
<1>. QED  BY <1>1, <1>2, JournalKeeps

LEMMA AttemptKeeps ==
  ASSUME LeadershipInv, NEW p \in Pods, NEW f \in Parents,
         SetBootstrapAttempt(p, f) \/ PromoteFreshBootstrapParent(p, f)
  PROVE  LeadershipInv'
<1>0. Running(p) /\ HostOf[p] \in Hosts /\ nextId \in Nat
  <2>1. phase[p] = "lead"
    BY DEF SetBootstrapAttempt, PromoteFreshBootstrapParent
  <2>2. Running(p)
    BY <2>1 DEF Running
  <2>. QED  BY Zenon, <2>2, SessionFacts
<1>1. CASE Journal(p, snap[p]) /\ UNCHANGED nextId
  BY Zenon, <1>0, <1>1, SessionFacts, JournalKeeps
<1>2. CASE /\ nextId' = nextId + 1
           /\ Journal(p, [snap[p] EXCEPT !.attempt =
                            [parent |-> f, id |-> nextId, host |-> HostOf[p]]])
  <2>1. [parent |-> f, id |-> nextId, host |-> HostOf[p]] \in Attempt
    BY Zenon, <1>0 DEF Attempt
  <2>2. nextId' \in Nat
    BY <1>0, <1>2
  <2>. QED  BY Zenon, <1>0, <1>2, <2>1, <2>2, SetAttemptKeeps
<1>3. CASE PromoteFreshBootstrapParent(p, f)
  <2>. DEFINE x == [parent |-> f, id |-> snap[p].plan.id, host |-> HostOf[p]]
  <2>1. snap[p].plan \in Plan /\ UNCHANGED nextId
    BY <1>0, <1>3, SessionFacts DEF PromoteFreshBootstrapParent
  <2>2. x \in Attempt /\ nextId' \in Nat
    BY Zenon, <1>0, <2>1 DEF Attempt, Plan
  <2>3. Journal(p, [snap[p] EXCEPT !.attempt = x])
    BY <1>3 DEF PromoteFreshBootstrapParent
  <2>. HIDE DEF x
  <2>. QED  BY <1>0, <2>2, <2>3, SetAttemptKeeps
<1>. QED  BY Zenon, <1>1, <1>2, <1>3 DEF SetBootstrapAttempt

LEMMA ClearAttemptKeeps ==
  ASSUME LeadershipInv, NEW p \in Pods, ClearBootstrapAttempt(p)
  PROVE  LeadershipInv'
<1>1. /\ Running(p) /\ Journal(p, [snap[p] EXCEPT !.attempt = None])
      /\ UNCHANGED nextId
  BY DEF ClearBootstrapAttempt, Running
<1>. QED  BY <1>1, SessionFacts, SetAttemptKeeps

LEMMA ClearPlanKeeps ==
  ASSUME LeadershipInv, NEW p \in Pods, ClearFreshBootstrapPlan(p)
  PROVE  LeadershipInv'
<1>. DEFINE n == [snap[p] EXCEPT !.plan = None]
<1>1. Running(p) /\ Journal(p, n) /\ UNCHANGED nextId
  BY DEF ClearFreshBootstrapPlan, Running
<1>2. n \in Snapshot /\ WellFormed(n) /\ n.uid = snap[p].uid /\ n.holder = p
  BY <1>1, SessionFacts, PlanFields
<1>. HIDE DEF n
<1>. QED  BY Zenon, <1>1, <1>2, SessionFacts, JournalKeeps

\* The renewal or the journal that was sent is known to be stored.
LEMMA RecordedKeeps ==
  ASSUME LeadershipInv, NEW p \in Pods, UpdateRecorded(p)
  PROVE  LeadershipInv'
<1>0. /\ TypeOK /\ FreshOK(p) /\ CallOK(p) /\ ReadOK(p) /\ AgeOK(p)
      /\ Running(p) /\ Answered(p) /\ Landed(p) /\ call[p] \in Calls
      /\ UNCHANGED <<lease, leaseAge, late, phase, fresh, grant, busy, host,
                     approval, nextId, leases, faults>>
  BY Zenon, InvFacts DEF UpdateRecorded, leaseState, environment, counters, TypeOK,
                  Answered, Landed
<1>0a. call[p].age \in Ages /\ age[p] \in Ages /\ leaseAge \in Ages
  BY Zenon, <1>0 DEF TypeOK, Calls
<1>0b. call[p].age \in Nat /\ age[p] \in Nat /\ leaseAge \in Nat
  BY Zenon, <1>0a, AgesAreNat
<1>. DEFINE a == IF call[p].age < age[p] THEN call[p].age ELSE age[p]
<1>1. /\ age' = [age EXCEPT ![p] = a] /\ a \in Ages /\ a <= call[p].age
      /\ a <= age[p] /\ (call[p].age <= age[p] => a = call[p].age)
      /\ call[p].age \in Nat /\ age[p] \in Nat /\ leaseAge \in Nat
  <2>1. age' = [age EXCEPT ![p] = a]
    BY Zenon DEF UpdateRecorded
  <2>2. a \in Ages /\ a <= call[p].age /\ a <= age[p]
        /\ (call[p].age <= age[p] => a = call[p].age)
    BY <1>0a, <1>0b
  <2>. QED  BY Zenon, <1>0b, <2>1, <2>2
<1>. HIDE DEF a
<1>2. /\ call'[p] = NoCall /\ snap'[p] = call[p].next /\ age'[p] = a
      /\ call[p].next \in Snapshot
      /\ \A q \in Pods \ {p} : /\ call'[q] = call[q] /\ snap'[q] = snap[q]
                               /\ age'[q] = age[q]
  BY Zenon, <1>0, <1>1 DEF Answered, TypeOK, Calls
<1>3. ProcessTypes' /\ LateType'
  BY Zenon, <1>0, <1>1, <1>2, NoneTypes DEF Answered, TypeOK, ProcessTypes, LateType
<1>4. StepOf({p}) /\ Incarnation
  BY Zenon, <1>0, <1>2 DEF StepOf, Incarnation, Same
<1>5. /\ call[p].next.uid = snap[p].uid /\ call[p].next.holder = p
      /\ WellFormed(call[p].next) /\ phase[p] \notin {"down", "fencing"}
  <2>1. phase[p] \notin {"down", "fencing", "releasing"}
    BY Zenon, <1>0 DEF Running
  <2>. QED  BY Zenon, <1>0, <2>1 DEF CallOK, Landed
<1>6. /\ ~Landed(p)' /\ Holding(p) /\ ~CanLand(p)' /\ Leading(p)' = Leading(p)
      /\ Running(p)'
  BY Zenon, <1>0, <1>2, NoCallFields DEF Landed, Holding, CanLand, Leading, Running
<1>7. Modest(p)
  BY Zenon, <1>2, <1>5, <1>6 DEF Modest
<1>8. FreshOK(p)' /\ CallOK(p)'
  BY Zenon, <1>0, <1>2, <1>6 DEF FreshOK, CallOK
<1>9. ReadOK(p)'
  BY Zenon, <1>0, <1>2, <1>5, <1>6 DEF ReadOK, Absent
<1>10. AgeOK(p)'
  <2>1. /\ snap[p].uid = lease.uid => leaseAge <= call[p].age /\ late = {}
        /\ age[p] <= RenewDeadline /\ call[p].age <= age[p]
    BY Zenon, <1>0, <1>6 DEF AgeOK, Landed
  <2>2. a <= RenewDeadline /\ a = call[p].age
    BY <1>1, <2>1, Constants
  <2>. QED  BY Zenon, <1>0, <1>2, <1>5, <1>6, <2>1, <2>2 DEF AgeOK
<1>11. Kept
  BY Zenon, <1>4, <1>7, <1>8, <1>9, <1>10, SelfKeeps
<1>. QED  BY Zenon, <1>0, <1>3, <1>4, <1>11, QuietWhole DEF TypeOK

LEMMA AnswerLostKeeps ==
  ASSUME LeadershipInv, NEW p \in Pods, AnswerLost(p)
  PROVE  LeadershipInv'
<1>0. /\ TypeOK /\ FreshOK(p) /\ CallOK(p) /\ ReadOK(p) /\ AgeOK(p)
      /\ call[p] # NoCall /\ Incarnation /\ faults' \in Nat
      /\ UNCHANGED <<lease, leaseAge, host, approval, nextId, leases>>
  <2>1. /\ call[p] # NoCall /\ faults' = faults + 1
        /\ UNCHANGED <<lease, leaseAge, host, approval, nextId, leases>>
    BY Zenon DEF AnswerLost, Fault
  <2>2. TypeOK /\ FreshOK(p) /\ CallOK(p) /\ ReadOK(p) /\ AgeOK(p)
    BY InvFacts
  <2>3. faults' \in Nat
    BY <2>1, <2>2 DEF TypeOK
  <2>4. Incarnation
    BY <2>1 DEF Incarnation
  <2>. QED  BY Zenon, <2>1, <2>2, <2>3, <2>4
<1>1. CASE Exit(p)
  BY <1>0, <1>1, ExitWhole
<1>2. CASE /\ call' = [call EXCEPT ![p] = NoCall] /\ late' = late \cup Abandoned(p)
           /\ fresh' = [fresh EXCEPT ![p] = @ /\ call[p].sent]
           /\ UNCHANGED <<phase, snap, age, grant, busy>>
  <2>1. call'[p] = NoCall /\ \A q \in Pods \ {p} : call'[q] = call[q]
    BY Zenon, <1>0, <1>2 DEF TypeOK
  <2>2. /\ fresh'[p] => fresh[p] /\ ~Landed(p)
        /\ \A q \in Pods \ {p} : fresh'[q] = fresh[q]
    BY Zenon, <1>0, <1>2 DEF TypeOK, Landed
  <2>3. fresh' \in [Pods -> BOOLEAN]
    <3>1. fresh[p] \in BOOLEAN /\ call[p].sent \in BOOLEAN
      BY Zenon, <1>0 DEF TypeOK, Calls
    <3>. QED  BY Zenon, <1>0, <1>2, <3>1 DEF TypeOK
  <2>4. ProcessTypes' /\ LateType'
    BY Zenon, <1>0, <1>2, <2>3, NoneTypes, AbandonedType
       DEF TypeOK, ProcessTypes, LateType
  <2>5. StepOf({p})
    BY Zenon, <1>0, <1>2, <2>1, <2>2 DEF StepOf, Same
  <2>6. /\ ~Landed(p)' /\ Running(p)' = Running(p) /\ ~CanLand(p)'
        /\ Leading(p)' = Leading(p) /\ phase[p] # "down"
    BY Zenon, <1>0, <1>2, <2>1, NoCallFields DEF Landed, Running, CanLand, Leading, ReadOK
  <2>7. Modest(p)
    BY Zenon, <1>2, <2>6 DEF Modest, Holding
  <2>8. FreshOK(p)' /\ CallOK(p)'
    BY Zenon, <1>0, <1>2, <2>1, <2>2, <2>6 DEF FreshOK, CallOK
  <2>9. ReadOK(p)'
    BY Zenon, <1>0, <1>2, <2>6 DEF ReadOK
  <2>10. AgeOK(p)'
    <3>1. ASSUME Running(p), snap[p].uid = lease.uid, NEW w \in late'
          PROVE  w.age <= age[p]
      <4>1. w \in late \/ w.age = call[p].age
        BY Zenon, <1>2, AbandonedFacts
      <4>. QED  BY Zenon, <1>0, <3>1, <4>1 DEF AgeOK
    <3>. QED  BY Zenon, <1>0, <1>2, <2>1, <2>6, <3>1 DEF AgeOK
  <2>11. Kept
    BY <2>5, <2>7, <2>8, <2>9, <2>10, SelfKeeps
  <2>. QED  BY Zenon, <1>0, <2>4, <2>11, QuietWhole DEF TypeOK
<1>. QED  BY Zenon, <1>1, <1>2 DEF AnswerLost

LEMMA EndKeeps ==
  ASSUME LeadershipInv, NEW p \in Pods,
         Refused(p) \/ Watchdog(p) \/ Released(p) \/ Crash(p)
  PROVE  LeadershipInv'
<1>1. /\ Exit(p) /\ UNCHANGED <<lease, leaseAge, host, approval, nextId, leases>>
      /\ faults' = faults \/ faults' = faults + 1
  BY Zenon DEF Refused, Watchdog, Released, Crash, Fault, environment, counters
<1>2. Incarnation /\ faults' \in Nat
  BY <1>1, InvFacts DEF Incarnation, TypeOK
<1>. QED  BY Zenon, <1>1, <1>2, ExitWhole

LEMMA MutationKeeps ==
  ASSUME LeadershipInv, NEW p \in Pods,
         StartMutation(p) \/ EndMutation(p) \/ BeginQuiesce(p)
  PROVE  LeadershipInv'
<1>0. /\ TypeOK /\ ReadOK(p) /\ busy[p] \in BOOLEAN
      /\ phase \in [Pods -> Phases] /\ busy \in [Pods -> BOOLEAN]
      /\ UNCHANGED <<leaseState, snap, fresh, call, age, grant, host, approval,
                     nextId, leases, faults>>
  BY Zenon, InvFacts DEF StartMutation, EndMutation, BeginQuiesce, environment,
                  counters, TypeOK
<1>1. Leading(p)
  BY Zenon, <1>0 DEF StartMutation, EndMutation, BeginQuiesce, Serving, Leading, ReadOK
<1>2. CASE StartMutation(p) \/ EndMutation(p)
  <2>1. /\ phase' = [phase EXCEPT ![p] = phase[p]] /\ phase[p] \in {"lead", "quiescing"}
        /\ \E b \in BOOLEAN : busy' = [busy EXCEPT ![p] = b]
    BY Zenon, <1>0, <1>1, <1>2 DEF StartMutation, EndMutation, Leading
  <2>. QED  BY Zenon, <1>0, <1>1, <2>1, MoveKeeps, QuietWhole
             DEF TypeOK, Incarnation, leaseState
<1>3. CASE BeginQuiesce(p)
  <2>1. /\ phase' = [phase EXCEPT ![p] = "quiescing"]
        /\ busy' = [busy EXCEPT ![p] = busy[p]]
    BY Zenon, <1>0, <1>3 DEF BeginQuiesce
  <2>. QED  BY Zenon, <1>0, <1>1, <2>1, MoveKeeps, QuietWhole
             DEF TypeOK, Incarnation, leaseState
<1>. QED  BY <1>2, <1>3

\* The processes of a stopped Instance end with it.
LEMMA StopHostKeeps ==
  ASSUME LeadershipInv, NEW h \in Hosts, StopHost(h)
  PROVE  LeadershipInv'
<1>. DEFINE P == {p \in Pods : HostOf[p] = h}
<1>0. /\ TypeOK /\ ExitAll(P) /\ P \in SUBSET Pods /\ faults' \in Nat
      /\ UNCHANGED <<lease, leaseAge, approval, nextId, leases>>
      /\ host' = [host EXCEPT ![h] = "stopped"]
  BY InvFacts DEF StopHost, Fault, TypeOK
<1>1. Incarnation /\ \A q \in Pods \ P : host'[HostOf[q]] = host[HostOf[q]]
  BY Zenon, <1>0, Constants DEF Incarnation, TypeOK
<1>. HIDE DEF P
<1>2. Kept /\ ProcessTypes' /\ LateType'
  BY Zenon, <1>0, <1>1, ExitKeeps, ExitType
<1>3. host' \in [Hosts -> {"running", "stopped"}]
  BY Zenon, <1>0 DEF TypeOK
<1>. QED  BY Zenon, <1>0, <1>2, <1>3, WholeKeeps DEF Whole, TypeOK

LEMMA OperatorKeeps ==
  ASSUME LeadershipInv, UNCHANGED <<leaseState, process, counters>>,
         \/ \E h \in Hosts : StartHost(h)
         \/ \E mode \in Modes \ {"none"} : OperatorApproves(mode)
         \/ OperatorWithdraws
         \/ UNCHANGED lvars
  PROVE  LeadershipInv'
<1>0. TypeOK /\ UNCHANGED <<lease, leaseAge, nextId, leases, faults>>
  BY Zenon, InvFacts DEF leaseState, counters
<1>1. approval' \in Approval
  <2>1. CASE \E mode \in Modes \ {"none"} : OperatorApproves(mode)
    <3>1. PICK mode \in Modes \ {"none"} : OperatorApproves(mode)
      BY <2>1
    <3>2. /\ approval.uid + 1 \in Nat /\ lease.holder \in Pods \cup {None}
          /\ {p \in Pods : phase[p] = "blocked"} \in SUBSET Pods
          /\ (IF lease.marker THEN lease.uid ELSE 0) \in Nat
      BY <1>0 DEF TypeOK, Approval, Snapshot
    <3>. QED  BY Zenon, <3>1, <3>2 DEF OperatorApproves, Approval
  <2>2. CASE OperatorWithdraws
    <3>1. approval.uid \in Nat
      BY Zenon, <1>0 DEF TypeOK, Approval
    <3>. QED  BY <2>2, <3>1, NoneTypes DEF OperatorWithdraws, Approval, NoGrant
  <2>3. CASE UNCHANGED approval
    BY Zenon, <1>0, <2>3 DEF TypeOK
  <2>. QED  BY Zenon, <2>1, <2>2, <2>3 DEF StartHost, lvars
<1>2. /\ host' \in [Hosts -> {"running", "stopped"}]
      /\ \A h \in Hosts : host[h] = "running" => host'[h] = "running"
  BY <1>0 DEF StartHost, OperatorApproves, OperatorWithdraws, lvars, TypeOK
<1>3. Kept /\ ProcessTypes' /\ LateType'
  BY Zenon, <1>0, <1>2, EnvironmentKeeps DEF leaseState
<1>. QED  BY Zenon, <1>0, <1>1, <1>2, <1>3, WholeKeeps DEF Whole, TypeOK

-----------------------------------------------------------------------------
(* The invariant and the theorems.                                         *)

LEMMA InitInv == Init => LeadershipInv
<1>. SUFFICES ASSUME Init PROVE LeadershipInv
  OBVIOUS
<1>1. /\ NoCall \in Calls /\ NoGrant \in Approval /\ EmptyLease(0) \in Snapshot
      /\ EmptyLease(0).uid = 0 /\ EmptyLease(0).holder = None
      /\ WellFormed(EmptyLease(0)) /\ 0 \in Ages
  BY NoneTypes, EmptyLeaseFacts, Constants
<1>2. TypeOK
  BY Zenon, <1>1 DEF Init, TypeOK, Phases
<1>3. StoreInv
  BY <1>1 DEF Init, StoreInv
<1>4. ASSUME NEW p \in Pods PROVE ProcessOK(p)
  <2>1. /\ phase[p] = "down" /\ call[p] = NoCall /\ ~fresh[p] /\ ~busy[p]
        /\ snap[p] = EmptyLease(0) /\ leases = 0
    BY Zenon DEF Init
  <2>2. ~Running(p) /\ ~Landed(p) /\ ~Holding(p)
    BY Zenon, <2>1 DEF Running, Landed, Holding, Starting
  <2>3. FreshOK(p) /\ CallOK(p) /\ Exclusive(p) /\ AgeOK(p)
    BY Zenon, <2>1, <2>2 DEF FreshOK, CallOK, Exclusive, AgeOK
  <2>4. snap[p].uid <= leases
    BY <1>1, <2>1
  <2>5. ReadOK(p)
    BY Zenon, <1>1, <2>1, <2>2, <2>4 DEF ReadOK
  <2>. QED  BY Zenon, <2>3, <2>5 DEF ProcessOK
<1>. QED  BY <1>2, <1>3, <1>4 DEF LeadershipInv

LEMMA NextInv == LeadershipInv /\ [Next]_lvars => LeadershipInv'
<1>. SUFFICES ASSUME LeadershipInv, [Next]_lvars PROVE LeadershipInv'
  OBVIOUS
<1>1. ASSUME NEW p \in Pods, Step(p) PROVE LeadershipInv'
  <2>1. CASE Land(p)
    BY Zenon, <2>1, LandKeeps
  <2>2. CASE AnswerLost(p)
    BY <2>2, AnswerLostKeeps
  <2>3. CASE Refused(p) \/ Watchdog(p) \/ Released(p) \/ Crash(p)
    BY <2>3, EndKeeps
  <2>4. CASE Acquire(p)
    BY <2>4, AcquireKeeps
  <2>5. CASE Acquired(p) \/ ApprovedAcquired(p) \/ Promoted(p)
    BY <2>5, StartKeeps
  <2>6. CASE TakeoverApproval(p)
    BY <2>6, TakeoverApprovalKeeps
  <2>7. CASE RecoveryApproval(p) \/ FreshVerified(p) \/ StopForRelease(p)
    BY <2>7, StopSessionKeeps
  <2>8. CASE AcquireApproved(p)
    BY <2>8, AcquireApprovedKeeps
  <2>9. CASE VerifyFence(p, ProveFenced(p))
    BY <2>9, VerifyFenceKeeps
  <2>10. CASE Renew(p)
    BY <2>10, RenewKeeps
  <2>11. CASE UpdateRecorded(p)
    BY <2>11, RecordedKeeps
  <2>12. CASE SetFreshBootstrapPlan(p)
    BY <2>12, SetPlanKeeps
  <2>13. CASE PromoteFreshInstallation(p)
    BY <2>13, PromoteKeeps
  <2>14. CASE \E f \in Parents :
                SetBootstrapAttempt(p, f) \/ PromoteFreshBootstrapParent(p, f)
    BY <2>14, AttemptKeeps
  <2>15. CASE ClearBootstrapAttempt(p)
    BY <2>15, ClearAttemptKeeps
  <2>16. CASE ClearFreshBootstrapPlan(p)
    BY <2>16, ClearPlanKeeps
  <2>17. CASE StartMutation(p) \/ EndMutation(p) \/ BeginQuiesce(p)
    BY <2>17, MutationKeeps
  <2>18. CASE ReleaseGracefully(p)
    BY <2>18, ReleaseKeeps
  <2>. QED  BY Zenon, <1>1, <2>1, <2>2, <2>3, <2>4, <2>5, <2>6, <2>7, <2>8, <2>9,
               <2>10, <2>11, <2>12, <2>13, <2>14, <2>15, <2>16, <2>17, <2>18
             DEF Step
<1>2. CASE \E w \in late : LandLate(w)
  BY <1>2, LandLateKeeps
<1>3. CASE \E h \in Hosts : StopHost(h)
  BY <1>3, StopHostKeeps
<1>4. CASE LoseLease
  BY <1>4, LoseLeaseKeeps
<1>5. CASE Tick
  BY <1>5, TickKeeps
<1>6. CASE \/ \E h \in Hosts : StartHost(h)
           \/ \E mode \in Modes \ {"none"} : OperatorApproves(mode)
           \/ OperatorWithdraws
           \/ UNCHANGED lvars
  <2>1. UNCHANGED <<leaseState, process, counters>>
    BY <1>6 DEF StartHost, OperatorApproves, OperatorWithdraws, lvars,
                leaseState, process, counters
  <2>. QED  BY Zenon, <1>6, <2>1, OperatorKeeps
<1>. QED  BY Zenon, <1>1, <1>2, <1>3, <1>4, <1>5, <1>6 DEF Next

LEMMA Invariance == Spec => []LeadershipInv
BY InitInv, NextInv, PTL DEF Spec

\* Of one incarnation of the Lease, at most one process has a session that
\* permits mutations, and while a mutation runs the stored Lease names its
\* process: an acquisition, an approved takeover, a release and an update that
\* lands after its author gave up never make two leaders (LeaseRuntime.Acquire,
\* AcquireApproved, ReleaseGracefully).
THEOREM ExclusiveLeader == Spec => []LeaderIsExclusive
<1>1. LeadershipInv => LeaderIsExclusive
  <2>. SUFFICES ASSUME LeadershipInv PROVE LeaderIsExclusive
    OBVIOUS
  <2>1. \A p \in Pods : Leading(p) => Holding(p)
    BY DEF Leading, Holding, Running
  <2>2. OneLeader
    BY Zenon, <2>1, InvFacts DEF OneLeader, Exclusive
  <2>3. ASSUME NEW p \in Pods, busy[p], snap[p].uid = lease.uid
        PROVE  lease.holder = p /\ ~lease.release
    <3>1. Holding(p) /\ lease.holder = p
      BY Zenon, <2>1, <2>3, InvFacts DEF ReadOK, Exclusive
    <3>. QED  BY Zenon, <3>1, InvFacts, Constants DEF StoreInv, WellFormed
  <2>. QED  BY Zenon, <2>2, <2>3, InvFacts DEF LeaderIsExclusive, WriterHoldsLease
<1>. QED  BY <1>1, Invariance, PTL

\* The session of a holder ends before the stored Lease looks expired, because
\* lastSuccess is the instant before the update (recordLeaseUpdate): for every
\* RenewDeadline below LeaseDuration.
THEOREM LeaseOutlivesLeader == Spec => []LeaseCoversLeader
<1>1. LeadershipInv => LeaseCoversLeader
  <2>. SUFFICES ASSUME LeadershipInv, NEW p \in Pods, Current(p)
                PROVE  leaseAge <= age[p] /\ leaseAge < LeaseDuration
    BY DEF LeaseCoversLeader
  <2>1. leaseAge <= age[p] /\ age[p] <= RenewDeadline
    BY Zenon, InvFacts DEF AgeOK, Current
  <2>2. leaseAge \in Nat /\ age[p] \in Nat
    BY InvFacts, Constants DEF TypeOK, Ages
  <2>. QED  BY <2>1, <2>2, Constants
<1>. QED  BY <1>1, Invariance, PTL

\* Whatever crashes, lost answers, takeovers and releases come together, the
\* stored Lease is one that PlanAutomaticAcquisition can act on: a holder with
\* its own evidence and plan and no release marker, or a Lease that nobody holds
\* and that has no journal.
THEOREM LeaseNeverMalformed == Spec => []NoStuckLease
<1>1. LeadershipInv => NoStuckLease
  <2>. SUFFICES ASSUME LeadershipInv, NEW p \in Pods
                PROVE  PlanAutomaticAcquisition(lease, p).mode # "error"
    BY DEF NoStuckLease
  <2>1. WellFormed(lease)
    BY Zenon, InvFacts DEF StoreInv
  <2>. QED  BY <2>1 DEF WellFormed, PlanAutomaticAcquisition
<1>. QED  BY <1>1, Invariance, PTL
=============================================================================
