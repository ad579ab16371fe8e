--------------------------- MODULE PoolReservations ---------------------------
(***************************************************************************)
(* Reservation of capacity for new volumes: CreateVolume up to the Reserved *)
(* allocation (pkg/driver/create.go, placement.go), the permanent journal   *)
(* of every pool and the set that commits them                              *)
(* (pkg/k8s/reservation_journal.go), the reconciliation of pending intents  *)
(* at cold start and under a closed gate, and the periodic refresh of the   *)
(* runtime snapshot (pkg/driver/placement_refresh.go).                      *)
(*                                                                          *)
(* Handlers of different volumes interleave at every API call. A write may  *)
(* be applied after its answer was lost, also after the handler gave up or  *)
(* the controller crashed.                                                  *)
(***************************************************************************)
EXTENDS PoolAccounting, FiniteSets, FiniteSetsExt, Functions

CONSTANTS
  Volumes,    \* logical volume IDs
  NoVol,      \* no volume
  Refresher,  \* the goroutine that refreshes the runtime snapshot
  Parents,    \* parent filesystems
  NoParent,   \* no parent
  NPools,     \* pools are 1..NPools, in the order of their names
  InitPools,  \* an installation starts with at least the pools 1..InitPools
  PoolOf,     \* the one pool every parent belongs to (pool.ValidateConfigs)
  ParentSize, \* size of every parent, in bytes
  MinFreeBytes, MinFreePercent, Ratio,  \* the accounting rules of the pools
  Size,       \* selected capacity of every volume
  PoolsFor,   \* the pools that requests for a volume may name
  MaxTries,   \* CreateVolume requests of every volume
  MaxLost,    \* API calls that fail or lose their answer
  MaxCrashes  \* crashes of the controller

Pools == 1..NPools

ASSUME ReservationAssumption ==
  /\ NoVol \notin Volumes /\ Refresher \notin Volumes \cup {NoVol}
  /\ NoParent \notin Parents
  /\ NPools \in Nat \ {0} /\ InitPools \in Pools /\ PoolOf \in [Parents -> Pools]
  /\ ParentSize \in [Parents -> Word \ {0}] /\ Size \in [Volumes -> Nat \ {0}]
  /\ MinFreeBytes \in Word /\ MinFreePercent \in Percent
  /\ Ratio \in [numerator : Word \ {0}, denominator : Word \ {0}]
  /\ PoolsFor \in [Volumes -> SUBSET Pools]
  /\ MaxTries \in [Volumes -> Nat] /\ MaxLost \in Nat /\ MaxCrashes \in Nat
  /\ IsFiniteSet(Volumes)

VARIABLES
  alloc,    \* the allocation ConfigMap of every volume
  journal,  \* the journal ConfigMap of every pool
  set,      \* the journal-set ConfigMap
  lateA,    \* allocation POSTs without an answer that may still be applied
  lateJ,    \* journal writes without an answer that may still be applied
  lateS,    \* journal-set writes without an answer that may still be applied
  conf,     \* the configured pools are 1..conf
  lock,     \* who holds the lock of each pool
  blocked,  \* blockedPools, the pools closed in this process
  h,        \* the handler that runs for each volume
  ctl,      \* the reconciliation of the journals, or "serving"
  refresh,  \* the pool locks that a refresh holds
  tries, lost, crashes

setVars == <<set, lateS, conf>>
vars == <<alloc, journal, lateA, lateJ, setVars, lock, blocked, h, ctl, refresh,
          tries, lost, crashes>>
api == <<alloc, journal, lateA, lateJ, setVars>>

\* A Reserved allocation record. n stands for its timestamp: two attempts to
\* create a volume write different records.
NoRec == [vol |-> NoVol, pool |-> 0, parent |-> NoParent, n |-> 0]
Reservation == [vol : Volumes, pool : Pools, parent : Parents, n : Nat]
MaybeRec == Reservation \cup {NoRec}

\* The lifecycle of an allocation as far as the journal tells it apart.
Alloc == [rec : MaybeRec, state : {"none", "Reserved", "advanced", "released"}]
\* Pending if rec is a record, Idle if not. The generation is also the version
\* that the compare-and-swap uses: every write advances it. An object that does
\* not exist has generation -1.
Versions == Nat \cup {-1}
Journal == [gen : Versions, rec : MaybeRec]
Missing == [gen |-> -1, rec |-> NoRec]
Exists(j) == j.gen >= 0
Idle(j) == Exists(j) /\ j.rec = NoRec
Pending(j) == j.rec # NoRec

\* The commitment to the journals of pools; those of pending are being created.
JournalSet == [gen : Versions, state : {"absent", "Initializing", "Ready"},
               pools : SUBSET Pools, pending : SUBSET Pools]
NoSet == [gen |-> -1, state |-> "absent", pools |-> {}, pending |-> {}]
Initializing(s, added) ==
  [s EXCEPT !.gen = @ + 1, !.state = "Initializing", !.pending = added]
Committed(s) ==
  [s EXCEPT !.gen = @ + 1, !.state = "Ready", !.pools = @ \cup s.pending,
            !.pending = {}]

PCs == {"idle", "get", "scan", "mark", "lock", "list", "fread", "fcas",
        "bread", "bcas", "post", "cread", "ccas", "unlock", "advance"}
Modes == {"place", "resume", "replay"}
Quiet == [pc |-> "idle", mode |-> "place", pool |-> 1, rec |-> NoRec, i |-> 1,
          snap |-> [p \in Pools |-> [gen |-> 0, rec |-> NoRec]],
          sent |-> FALSE]
Serving == [pc |-> "serving", i |-> 1, cur |-> [gen |-> 0, rec |-> NoRec],
            barrier |-> FALSE]
Reconciling(b) ==
  [Serving EXCEPT !.pc = IF b THEN "read" ELSE "set", !.barrier = b]

Init ==
  /\ alloc = [v \in Volumes |-> [rec |-> NoRec, state |-> "none"]]
  /\ journal = [p \in Pools |-> Missing] /\ set = NoSet
  /\ lateA = {} /\ lateJ = {} /\ lateS = {} /\ conf \in InitPools..NPools
  /\ lock = [p \in Pools |-> NoVol] /\ blocked = {}
  /\ h = [v \in Volumes |-> Quiet] /\ ctl = Reconciling(FALSE) /\ refresh = 0
  /\ tries = [v \in Volumes |-> 0] /\ lost = 0 /\ crashes = 0

-----------------------------------------------------------------------------
\* Steps of a handler

Goto(v, q) == h' = [h EXCEPT ![v].pc = q]

\* Fault seeded for a mutant: the deferred unlock is missing.
AnswerKeepsLock(v, unresolved) ==
  /\ h' = [h EXCEPT ![v] = Quiet] /\ UNCHANGED lock
  /\ blocked' = blocked \cup {p \in Pools : unresolved /\ lock[p] = v}

\* The request is answered and the deferred unlock runs. unresolved says that
\* PlaceAndReserve got ErrReservationUnresolved: it closes its pool.
Answer(v, unresolved) ==
  /\ h' = [h EXCEPT ![v] = Quiet]
  /\ lock' = [p \in Pools |-> IF lock[p] = v THEN NoVol ELSE lock[p]]
  /\ blocked' = blocked \cup {p \in Pools : unresolved /\ lock[p] = v}
Continues == UNCHANGED <<lock, blocked>>

Fault == lost < MaxLost /\ lost' = lost + 1

\* The apiserver's create-if-absent and compare-and-swap. A write that is
\* applied makes those that compare with the same version void.
Posted(r) ==
  /\ alloc' = [alloc EXCEPT ![r.vol] = [rec |-> r, state |-> "Reserved"]]
  /\ lateA' = {q \in lateA : q.vol # r.vol}
Written(p, next) ==
  /\ journal' = [journal EXCEPT ![p] = next]
  /\ lateJ' = {w \in lateJ : w.pool # p}
\* A write whose answer is lost is pending as long as it can be applied.
PostLost(r) ==
  lateA' = IF alloc[r.vol].state = "none" THEN lateA \cup {r} ELSE lateA
WriteLost(p, next) ==
  lateJ' = IF journal[p].gen + 1 = next.gen
           THEN lateJ \cup {[pool |-> p, next |-> next]} ELSE lateJ

\* ReservationJournalStore.transition from cur to next, then h1. It reads back
\* what an answer does not tell. soft and hard: is the reservation unresolved
\* after an error that leaves the write open, and after a refusal.
Transition(v, p, cur, next, h1, soft, hard) ==
  \/ /\ journal[p] = cur /\ Written(p, next)
     /\ h' = h1 /\ Continues /\ UNCHANGED lost
  \/ /\ journal[p] = next
     /\ h' = h1 /\ Continues /\ UNCHANGED <<journal, lateJ, lost>>
  \/ /\ journal[p] \notin {cur, next}
     /\ Answer(v, soft) /\ UNCHANGED <<journal, lateJ, lost>>
  \/ /\ Fault /\ WriteLost(p, next)
     /\ \/ h' = h /\ Continues
        \/ Answer(v, soft)
     /\ UNCHANGED journal
  \/ /\ Fault /\ Answer(v, hard) /\ UNCHANGED <<journal, lateJ>>

\* CreateVolume(v) for pool p, admitted by the gate with the lock of v.
CreateVolume(v, p) ==
  /\ ctl.pc = "serving" /\ h[v].pc = "idle" /\ tries[v] < MaxTries[v]
  /\ p <= conf
  /\ h' = [h EXCEPT ![v] = [Quiet EXCEPT !.pc = "get", !.pool = p]]
  /\ tries' = [tries EXCEPT ![v] = @ + 1]
  /\ UNCHANGED <<api, lock, blocked, ctl, refresh, lost, crashes>>

\* The periodic pass resumes a Reserved or CreatingDirectory allocation.
ReconcileExistingCreation(v) ==
  /\ ctl.pc = "serving" /\ h[v].pc = "idle"
  /\ alloc[v].state \in {"Reserved", "advanced"}
  /\ h' = [h EXCEPT ![v] = [Quiet EXCEPT !.pc = "cread", !.mode = "replay",
                              !.pool = alloc[v].rec.pool, !.rec = alloc[v].rec]]
  /\ UNCHANGED <<api, lock, blocked, ctl, refresh, tries, lost, crashes>>

\* Create: the allocation is read first. One for another pool is incompatible
\* (ValidateCreateReplay), a released one may be in its compact terminal form.
GetAllocation(v) ==
  /\ h[v].pc = "get"
  /\ \/ /\ alloc[v].state = "none"
        /\ Goto(v, "scan") /\ Continues
     \/ /\ alloc[v].state # "none" /\ alloc[v].rec.pool = h[v].pool
        /\ h' = [h EXCEPT ![v].pc = "cread", ![v].mode = "replay",
                          ![v].rec = alloc[v].rec]
        /\ Continues
     \/ /\ alloc[v].state # "none" /\ alloc[v].rec.pool # h[v].pool
        /\ Answer(v, FALSE)
     \/ alloc[v].state = "released" /\ Answer(v, FALSE)
  /\ UNCHANGED <<api, ctl, refresh, tries, lost, crashes>>

\* ReadCommitted: the journals are read one after the other.
ReadJournal(v, q) ==
  h' = [h EXCEPT ![v].snap[h[v].i] = journal[h[v].i],
                 ![v].i = IF @ = conf THEN 1 ELSE @ + 1,
                 ![v].pc = IF h[v].i = conf THEN q ELSE @]

\* resumePendingReservation, after the last journal was read: resume the one
\* exact intent of v, or reopen a pool that is conclusively Idle and place.
ResumePendingReservation(v) ==
  LET s == [h[v].snap EXCEPT ![conf] = journal[conf]]
      own == {p \in Pools : s[p].rec.vol = v}
  IN \/ /\ own = {} /\ Idle(s[h[v].pool])
        /\ h' = [h EXCEPT ![v].pc = "mark", ![v].i = 1] /\ Continues
     \/ /\ own = {h[v].pool}
        /\ h' = [h EXCEPT ![v].pc = "post", ![v].mode = "resume",
                          ![v].rec = s[h[v].pool].rec]
        /\ Continues
     \/ /\ own # {h[v].pool} /\ (own # {} \/ ~Idle(s[h[v].pool]))
        /\ Answer(v, FALSE)

ScanJournals(v) ==
  /\ h[v].pc = "scan"
  /\ \/ h[v].i < conf /\ ReadJournal(v, "scan") /\ Continues
     \/ h[v].i = conf /\ ResumePendingReservation(v)
  /\ UNCHANGED <<api, ctl, refresh, tries, lost, crashes>>

\* MarkPoolResolved: takes the lock of the pool, removes the marker, unlocks.
MarkPoolResolved(v) ==
  /\ h[v].pc = "mark" /\ lock[h[v].pool] = NoVol
  /\ blocked' = blocked \ {h[v].pool}
  /\ Goto(v, IF h[v].mode = "place" THEN "lock" ELSE "advance")
  /\ UNCHANGED <<api, lock, ctl, refresh, tries, lost, crashes>>

\* Fault seeded for a mutant: placements of one pool do not exclude each other.
LockPoolShared(v) ==
  /\ h[v].pc = "lock" /\ lock' = [lock EXCEPT ![h[v].pool] = v]
  /\ Goto(v, "list")
  /\ UNCHANGED <<api, blocked, ctl, refresh, tries, lost, crashes>>

\* PlaceAndReserve: takes the lock of the pool; a blocked pool is refused.
LockPool(v) ==
  /\ h[v].pc = "lock" /\ lock[h[v].pool] = NoVol
  /\ \/ /\ h[v].pool \notin blocked
        /\ lock' = [lock EXCEPT ![h[v].pool] = v]
        /\ Goto(v, "list") /\ UNCHANGED blocked
     \/ h[v].pool \in blocked /\ Answer(v, FALSE)
  /\ UNCHANGED <<api, ctl, refresh, tries, lost, crashes>>

\* The request is cancelled while it waits for the lock of a pool.
Cancel(v) ==
  /\ h[v].pc \in {"mark", "lock"} /\ lock[h[v].pool] # NoVol
  /\ Answer(v, FALSE)
  /\ UNCHANGED <<api, ctl, refresh, tries, lost, crashes>>

\* reservations: the bytes that allocations reserve on a parent.
Reserved(f) ==
  MapThenSumSet(LAMBDA v : Size[v],
    {v \in Volumes : /\ alloc[v].state \in {"Reserved", "advanced"}
                     /\ alloc[v].rec.parent = f})
Capacity(f) == LogicalCapacity(ParentSize[f], MinFreeBytes, MinFreePercent, Ratio)
Available(f) ==
  LogicalAvailable(ParentSize[f], MinFreeBytes, MinFreePercent, Ratio, Reserved(f))

\* The parents of a pool whose provider reads, mount and statfs succeeded; the
\* sample of each is in blocks of one byte.
Observations(p) ==
  UNION {[ok -> {0} \cup {ParentSize[f] : f \in ok}] :
           ok \in SUBSET {f \in Parents : PoolOf[f] = p}}

\* Select: of the observed parents with logical and physical room, one with the
\* most logical room; a hash of the request's name breaks ties.
Select(v, blocks) ==
  LET fit == {f \in DOMAIN blocks :
                /\ Size[v] <= Available(f)
                /\ CheckPhysicalSpace(1, blocks[f], ParentSize[f], Size[v],
                                      MinFreeBytes, MinFreePercent)}
  IN {f \in fit : \A g \in fit : Available(g) <= Available(f)}

\* placeLocked: lists the allocations, observes the parents and selects one.
PlaceLocked(v) ==
  /\ h[v].pc = "list"
  /\ \E blocks \in Observations(h[v].pool) :
       IF Select(v, blocks) = {} THEN Answer(v, FALSE)
       ELSE \E f \in Select(v, blocks) :
              /\ h' = [h EXCEPT ![v].pc = "fread",
                         ![v].rec = [vol |-> v, pool |-> h[v].pool, parent |-> f,
                                     n |-> tries[v]]]
              /\ Continues
  /\ UNCHANGED <<api, ctl, refresh, tries, lost, crashes>>

\* FenceForPlacement: reads every journal, then advances the Idle ones. It
\* never leaves a reservation unresolved: no intent was written yet.
FenceRead(v) ==
  /\ h[v].pc = "fread" /\ ReadJournal(v, "fcas")
  /\ UNCHANGED <<api, lock, blocked, ctl, refresh, tries, lost, crashes>>

\* Fault seeded for a mutant: the journals are only read, not advanced.
FenceOnlyReads(v) ==
  LET last == h[v].i = conf
  IN /\ h[v].pc = "fcas"
     /\ h' = [h EXCEPT ![v].i = IF last THEN 1 ELSE @ + 1,
                       ![v].pc = IF last THEN "bread" ELSE @]
     /\ UNCHANGED <<api, lock, blocked, ctl, refresh, tries, lost, crashes>>

FenceForPlacement(v) ==
  LET p == h[v].i
      cur == h[v].snap[p]
      h1 == [h EXCEPT ![v].i = IF p = conf THEN 1 ELSE p + 1,
                      ![v].pc = IF p = conf THEN "bread" ELSE "fcas",
                      ![v].snap[p] = Quiet.snap[p]]
  IN /\ h[v].pc = "fcas"
     /\ \/ /\ cur.rec.vol = v
           /\ Answer(v, FALSE) /\ UNCHANGED <<journal, lateJ, lost>>
        \/ /\ cur.rec.vol \notin {v, NoVol}
           /\ h' = h1 /\ Continues /\ UNCHANGED <<journal, lateJ, lost>>
        \/ /\ Idle(cur)
           /\ Transition(v, p, cur, [cur EXCEPT !.gen = @ + 1], h1, FALSE, FALSE)
     /\ UNCHANGED <<alloc, lateA, setVars, ctl, refresh, tries, crashes>>

\* Begin: reads the journal of the pool and writes the intent. A conflict or an
\* open write is ErrReservationUnresolved, a refusal is not.
BeginRead(v) ==
  LET p == h[v].pool
  IN /\ h[v].pc = "bread"
     /\ \/ /\ Idle(journal[p])
           /\ h' = [h EXCEPT ![v].pc = "bcas", ![v].snap[p] = journal[p]]
           /\ Continues
        \/ /\ ~Idle(journal[p])
           /\ IF journal[p].rec = h[v].rec
              THEN Goto(v, "post") /\ Continues ELSE Answer(v, TRUE)
     /\ UNCHANGED <<api, ctl, refresh, tries, lost, crashes>>

Begin(v) ==
  LET p == h[v].pool
      cur == h[v].snap[p]
  IN /\ h[v].pc = "bcas"
     /\ Transition(v, p, cur, [gen |-> cur.gen + 1, rec |-> h[v].rec],
          [h EXCEPT ![v].pc = "post", ![v].snap = Quiet.snap], TRUE, FALSE)
     /\ UNCHANGED <<alloc, lateA, setVars, ctl, refresh, tries, crashes>>

\* persistReservation: creates the allocation, or takes the one it finds. Its
\* attempts repeat the same POST; sent is mutationUnresolved.
PersistReservation(v) ==
  /\ h[v].pc = "post"
  /\ \/ /\ alloc[v].state = "none" /\ Posted(h[v].rec)
        /\ Goto(v, "cread") /\ Continues /\ UNCHANGED lost
     \/ /\ alloc[v].state # "none"
        /\ h' = [h EXCEPT ![v].pc = "cread", ![v].rec = alloc[v].rec]
        /\ Continues /\ UNCHANGED <<alloc, lateA, lost>>
     \/ /\ Fault /\ PostLost(h[v].rec)
        /\ \/ h' = [h EXCEPT ![v].sent = TRUE] /\ Continues
           \/ Answer(v, TRUE)
        /\ UNCHANGED alloc
     \/ Fault /\ Answer(v, h[v].sent) /\ UNCHANGED <<alloc, lateA>>
  /\ UNCHANGED <<journal, lateJ, setVars, ctl, refresh, tries, crashes>>

\* CompleteExact: reads the journal. Only the exact Reserved allocation may
\* complete the intent of v. Without one, a placement is unresolved, a replay
\* goes on, and a resumption needs the journal to be Idle.
CompleteRead(v) ==
  LET p == h[v].pool
      j == journal[p]
      exact == h[v].rec = j.rec /\ alloc[v].state = "Reserved"
  IN /\ h[v].pc = "cread"
     /\ \/ /\ j.rec.vol = v /\ exact
           /\ h' = [h EXCEPT ![v].pc = "ccas", ![v].snap[p] = j] /\ Continues
        \/ /\ Idle(j) /\ h[v].mode # "place" /\ Goto(v, "mark") /\ Continues
        \/ /\ ~(j.rec.vol = v /\ exact) /\ ~(Idle(j) /\ h[v].mode # "place")
           /\ IF j.rec.vol \notin {v, NoVol} /\ h[v].mode = "replay"
              THEN Goto(v, "advance") /\ Continues ELSE Answer(v, TRUE)
     /\ UNCHANGED <<api, ctl, refresh, tries, lost, crashes>>

CompleteExact(v) ==
  LET p == h[v].pool
      cur == h[v].snap[p]
      q == IF h[v].mode = "place" THEN "unlock" ELSE "mark"
  IN /\ h[v].pc = "ccas"
     /\ Transition(v, p, cur, [gen |-> cur.gen + 1, rec |-> NoRec],
          [h EXCEPT ![v].pc = q, ![v].snap = Quiet.snap], TRUE, TRUE)
     /\ UNCHANGED <<alloc, lateA, setVars, ctl, refresh, tries, crashes>>

\* PlaceAndReserve returns.
UnlockPool(v) ==
  /\ h[v].pc = "unlock" /\ lock' = [lock EXCEPT ![h[v].pool] = NoVol]
  /\ Goto(v, "advance")
  /\ UNCHANGED <<api, blocked, ctl, refresh, tries, lost, crashes>>

\* resume: a Reserved allocation moves on, unless the update fails. What comes
\* next is the subject of VolumeLifecycle.
Resume(v) ==
  /\ h[v].pc = "advance" /\ Answer(v, FALSE)
  /\ \/ /\ alloc[v].state = "Reserved"
        /\ alloc' = [alloc EXCEPT ![v].state = "advanced"] /\ UNCHANGED lost
     \/ alloc[v].state # "Reserved" /\ UNCHANGED <<alloc, lost>>
     \/ Fault /\ UNCHANGED alloc
  /\ UNCHANGED <<journal, lateA, lateJ, setVars, ctl, refresh, tries, crashes>>

\* Any read of the API server may fail.
ReadFails(v) ==
  /\ Fault
  /\ \/ h[v].pc \in {"get", "scan", "fread"} /\ Answer(v, FALSE)
     \/ h[v].pc = "bread" /\ \E u \in BOOLEAN : Answer(v, u)
     \/ h[v].pc = "cread" /\ Answer(v, TRUE)
  /\ UNCHANGED <<api, ctl, refresh, tries, crashes>>

\* The deletion of a volume ends its reservation.
ReleaseCapacity(v) ==
  /\ ctl.pc = "serving" /\ h[v].pc = "idle" /\ alloc[v].state = "advanced"
  /\ alloc' = [alloc EXCEPT ![v].state = "released"]
  /\ UNCHANGED <<journal, lateA, lateJ, setVars, lock, blocked, h, ctl, refresh,
                 tries, lost, crashes>>

-----------------------------------------------------------------------------
\* The refresh of the runtime snapshot, beside the gate and the volume locks

\* RefreshRuntimeSnapshot takes every pool lock in the order of the names.
RefreshLock ==
  /\ ctl.pc = "serving" \/ ctl.barrier
  /\ refresh < conf /\ lock[refresh + 1] = NoVol
  /\ lock' = [lock EXCEPT ![refresh + 1] = Refresher] /\ refresh' = refresh + 1
  /\ UNCHANGED <<api, blocked, h, ctl, tries, lost, crashes>>

RefreshUnlock ==
  /\ lock' = [p \in Pools |-> IF lock[p] = Refresher THEN NoVol ELSE lock[p]]
  /\ refresh' = 0

\* With every lock held it observes the allocations and the parents, and
\* unlocks. A parent that cannot be observed is only reported.
RefreshRuntimeSnapshot ==
  /\ refresh = conf /\ RefreshUnlock
  /\ UNCHANGED <<api, blocked, h, ctl, tries, lost, crashes>>

\* The refresh runs out of time while it waits for a lock.
RefreshCancelled ==
  /\ refresh \in 1..(conf - 1) /\ lock[refresh + 1] # NoVol /\ RefreshUnlock
  /\ UNCHANGED <<api, blocked, h, ctl, tries, lost, crashes>>

RefreshStep == RefreshLock \/ RefreshRuntimeSnapshot

-----------------------------------------------------------------------------
\* Reconciliation of the journals, at cold start and under the closed gate

\* The gate is quiesced and drained; a checkpoint is resumed.
ReconcileAfterCheckpoint ==
  /\ ctl.pc = "serving" /\ \A v \in Volumes : h[v].pc = "idle"
  /\ ctl' = Reconciling(TRUE)
  /\ UNCHANGED <<api, lock, blocked, h, refresh, tries, lost, crashes>>

\* The pool is done. A cold start serves after the last one; the barrier first
\* reads again that every journal is Idle, and then reopens the pools.
NextPool ==
  /\ ctl' = IF ctl.i < conf
            THEN [ctl EXCEPT !.pc = IF @ = "verify" THEN @ ELSE "read",
                             !.i = @ + 1, !.cur = Serving.cur]
            ELSE IF ctl.barrier /\ ctl.pc # "verify"
            THEN [ctl EXCEPT !.pc = "verify", !.i = 1, !.cur = Serving.cur]
            ELSE Serving
  /\ ctl.pc = "verify" /\ ctl.i = conf => refresh = 0
  /\ blocked' = IF ctl.pc = "verify" /\ ctl.i = conf THEN {} ELSE blocked
\* An error restarts the process, or leaves the gate closed for another try.
ReconcileFails == ctl' = Reconciling(ctl.barrier) /\ UNCHANGED blocked

\* What the steps of the journal set leave alone.
SetStep(q) ==
  /\ ctl.pc = q
  /\ UNCHANGED <<alloc, lateA, conf, lock, blocked, h, refresh, tries, crashes>>

\* A write of the set. One that an earlier process sent may have been applied
\* in the meantime: the step that reads the answer back finds it.
WriteSet(next, q) ==
  \/ /\ set' = next /\ ctl' = [ctl EXCEPT !.pc = q]
     /\ lateS' = {} /\ UNCHANGED lost
  \/ /\ Fault /\ lateS' \in {lateS, lateS \cup {next}}
     /\ ctl' = Reconciling(FALSE) /\ UNCHANGED set

\* BootstrapFresh of a new installation: the set before any journal.
BootstrapFresh ==
  /\ SetStep("set") /\ set.state = "absent"
  /\ WriteSet(Initializing(NoSet, 1..conf), "journals") /\ UNCHANGED <<journal, lateJ>>

\* ReadCommittedSet: the set names every journal there is, and each exists.
Complete == \A p \in Pools : p \in set.pools <=> Exists(journal[p])

\* EnsureConfigured: resumes the initialization that the set records, extends
\* the committed set by newly configured pools, or finds it complete.
EnsureConfigured ==
  /\ SetStep("set") /\ UNCHANGED <<journal, lateJ>>
  /\ \/ /\ set.state = "Initializing"
        /\ ctl' = IF set.pools \cup set.pending = 1..conf
                  THEN [ctl EXCEPT !.pc = "journals"] ELSE Reconciling(FALSE)
        /\ UNCHANGED <<set, lateS, lost>>
     \/ /\ set.state = "Ready" /\ set.pools # 1..conf /\ Complete
        /\ WriteSet(Initializing(set, (1..conf) \ set.pools), "journals")
     \/ /\ set.state = "Ready" /\ (set.pools = 1..conf \/ ~Complete)
        /\ ctl' = IF Complete THEN [ctl EXCEPT !.pc = "read"] ELSE Reconciling(FALSE)
        /\ UNCHANGED <<set, lateS, lost>>

\* initializeJournal: creates a pending journal, or finds it as it was created.
InitializeJournal ==
  LET p == ctl.i
      new == [gen |-> 0, rec |-> NoRec]
      next == [ctl EXCEPT !.i = IF p = conf THEN 1 ELSE p + 1,
                          !.pc = IF p = conf THEN "commit" ELSE "journals"]
  IN /\ SetStep("journals") /\ UNCHANGED setVars
     /\ \/ /\ p \in set.pending /\ ~Exists(journal[p])
           /\ Written(p, new) /\ ctl' = next /\ UNCHANGED lost
        \/ /\ p \notin set.pending \/ Exists(journal[p])
           /\ ctl' = IF p \in set.pools \/ journal[p] = new
                     THEN next ELSE Reconciling(FALSE)
           /\ UNCHANGED <<journal, lateJ, lost>>
        \/ /\ Fault /\ (WriteLost(p, new) \/ UNCHANGED lateJ)
           /\ ctl' = Reconciling(FALSE) /\ UNCHANGED journal

\* Fault seeded for a mutant: the commitment is left out, and reading the
\* committed set back fails.
InitializationUncommitted ==
  /\ SetStep("commit") /\ ctl' = Reconciling(FALSE)
  /\ UNCHANGED <<journal, lateJ, set, lateS, lost>>

\* completeSetInitialization ends with the commitment.
CompleteSetInitialization ==
  /\ SetStep("commit") /\ UNCHANGED <<journal, lateJ>>
  /\ WriteSet(IF set.state = "Ready" THEN set ELSE Committed(set), "read")

\* Reconcile: one pool after the other.
ReconcileRead ==
  LET j == journal[ctl.i]
  IN /\ ctl.pc = "read"
     /\ \/ Idle(j) /\ NextPool
        \/ /\ ~Idle(j) /\ UNCHANGED blocked
           /\ ctl' = IF Exists(j) THEN [ctl EXCEPT !.pc = "ensure", !.cur = j]
                     ELSE Reconciling(ctl.barrier)
     /\ UNCHANGED <<api, lock, h, refresh, tries, lost, crashes>>

\* Fault seeded for a mutant: a lost answer counts as a created allocation.
EnsureTrustsLost ==
  LET r == ctl.cur.rec
  IN /\ ctl.pc = "ensure" /\ ctl' = [ctl EXCEPT !.pc = "complete"]
     /\ \/ alloc[r.vol].state = "none" /\ Posted(r) /\ UNCHANGED lost
        \/ alloc[r.vol].state # "none" /\ UNCHANGED <<alloc, lateA, lost>>
        \/ Fault /\ PostLost(r) /\ UNCHANGED alloc
     /\ UNCHANGED <<journal, lateJ, setVars, lock, blocked, h, refresh, tries, crashes>>

\* ensureAllocation: the exact Reserved allocation exists, or is created.
EnsureAllocation ==
  LET r == ctl.cur.rec
      done == ctl' = [ctl EXCEPT !.pc = "complete"] /\ UNCHANGED blocked
  IN /\ ctl.pc = "ensure"
     /\ \/ /\ alloc[r.vol].state = "none" /\ Posted(r)
           /\ done /\ UNCHANGED lost
        \/ /\ alloc[r.vol].state # "none"
           /\ IF alloc[r.vol] = [rec |-> r, state |-> "Reserved"]
              THEN done ELSE ReconcileFails
           /\ UNCHANGED <<alloc, lateA, lost>>
        \/ /\ Fault /\ PostLost(r)
           /\ \/ UNCHANGED <<ctl, blocked>>
              \/ ReconcileFails
           /\ UNCHANGED alloc
        \/ Fault /\ ReconcileFails /\ UNCHANGED <<alloc, lateA>>
     /\ UNCHANGED <<journal, lateJ, setVars, lock, h, refresh, tries, crashes>>

\* CompleteExact for the pending record that Reconcile read.
ReconcileComplete ==
  /\ ctl.pc = "complete"
  /\ \/ /\ journal[ctl.i].rec = ctl.cur.rec
        /\ ctl' = [ctl EXCEPT !.pc = "ccas"] /\ UNCHANGED blocked
     \/ journal[ctl.i].rec # ctl.cur.rec /\ ReconcileFails
  /\ UNCHANGED <<api, lock, h, refresh, tries, lost, crashes>>

ReconcileTransition ==
  LET p == ctl.i
      next == [gen |-> ctl.cur.gen + 1, rec |-> NoRec]
  IN /\ ctl.pc = "ccas"
     /\ \/ /\ IF journal[p] \in {ctl.cur, next}
              THEN Written(p, next) /\ NextPool
              ELSE ReconcileFails /\ UNCHANGED <<journal, lateJ>>
           /\ UNCHANGED lost
        \/ /\ Fault /\ WriteLost(p, next)
           /\ \/ UNCHANGED <<ctl, blocked>>
              \/ ReconcileFails
           /\ UNCHANGED journal
        \/ Fault /\ ReconcileFails /\ UNCHANGED <<journal, lateJ>>
     /\ UNCHANGED <<alloc, lateA, setVars, lock, h, refresh, tries, crashes>>

\* ReadCheckpointReservationJournals, then MarkPoolResolved for every pool.
RequireIdle ==
  /\ ctl.pc = "verify"
  /\ \/ Idle(journal[ctl.i]) /\ NextPool
     \/ ~Idle(journal[ctl.i]) /\ ReconcileFails
  /\ UNCHANGED <<api, lock, h, refresh, tries, lost, crashes>>

-----------------------------------------------------------------------------
\* The environment

\* A late write is applied.
LandJournal(w) ==
  /\ w \in lateJ /\ Written(w.pool, w.next)
  /\ UNCHANGED <<alloc, lateA, setVars, lock, blocked, h, ctl, refresh, tries,
                 lost, crashes>>

LandAllocation(r) ==
  /\ r \in lateA /\ Posted(r)
  /\ UNCHANGED <<journal, lateJ, setVars, lock, blocked, h, ctl, refresh, tries,
                 lost, crashes>>

LandSet(w) ==
  /\ w \in lateS /\ set' = w /\ lateS' = {}
  /\ UNCHANGED <<alloc, journal, lateA, lateJ, conf, lock, blocked, h, ctl,
                 refresh, tries, lost, crashes>>

\* The process ends, and the next one starts with what the API server holds.
\* Pools are added to the configuration of a complete installation.
Crash ==
  /\ crashes < MaxCrashes /\ crashes' = crashes + 1
  /\ h' = [v \in Volumes |-> Quiet] /\ ctl' = Reconciling(FALSE)
  /\ lock' = [p \in Pools |-> NoVol] /\ blocked' = {} /\ refresh' = 0
  /\ conf' \in IF set.state = "Ready" THEN conf..NPools ELSE {conf}
  /\ UNCHANGED <<alloc, journal, lateA, lateJ, set, lateS, tries, lost>>

HandlerStep(v) ==
  \/ GetAllocation(v) \/ ScanJournals(v) \/ MarkPoolResolved(v) \/ LockPool(v)
  \/ PlaceLocked(v) \/ FenceRead(v) \/ FenceForPlacement(v) \/ BeginRead(v)
  \/ Begin(v) \/ PersistReservation(v) \/ CompleteRead(v) \/ CompleteExact(v)
  \/ UnlockPool(v) \/ Resume(v)
ReconcileStep ==
  \/ BootstrapFresh \/ EnsureConfigured \/ InitializeJournal
  \/ CompleteSetInitialization
  \/ ReconcileRead \/ EnsureAllocation \/ ReconcileComplete
  \/ ReconcileTransition \/ RequireIdle

Next ==
  \/ \E v \in Volumes : \/ \E p \in PoolsFor[v] : CreateVolume(v, p)
                        \/ ReconcileExistingCreation(v)
                        \/ HandlerStep(v) \/ Cancel(v) \/ ReadFails(v)
                        \/ ReleaseCapacity(v)
  \/ ReconcileAfterCheckpoint \/ ReconcileStep
  \/ RefreshStep \/ RefreshCancelled
  \/ \E w \in lateJ : LandJournal(w)
  \/ \E r \in lateA : LandAllocation(r)
  \/ \E w \in lateS : LandSet(w)
  \/ Crash

Spec == Init /\ [][Next]_vars

\* Goroutines are scheduled, every API call has a timeout, and a failed start is
\* started again; the goroutines that wait for the token of a pool lock get it
\* in turn, so that refreshes do not starve a handler. Requests, faults and late
\* writes are not owed to anyone.
FairSpec ==
  /\ Spec /\ SF_vars(ReconcileStep) /\ WF_vars(refresh > 0 /\ RefreshStep)
  /\ \A v \in Volumes : SF_vars(HandlerStep(v))

-----------------------------------------------------------------------------
\* The records, journals, locks and program counters are what the code's types
\* allow; the index into the journals stays within the configured pools.
TypeOK ==
  /\ alloc \in [Volumes -> Alloc] /\ journal \in [Pools -> Journal]
  /\ lateA \subseteq Reservation
  /\ lateJ \subseteq [pool : Pools, next : Journal]
  /\ set \in JournalSet /\ lateS \subseteq JournalSet /\ conf \in InitPools..NPools
  /\ lock \in [Pools -> Volumes \cup {NoVol, Refresher}] /\ blocked \subseteq Pools
  /\ refresh \in 0..conf
  /\ h \in [Volumes -> [pc : PCs, mode : Modes, pool : Pools, rec : MaybeRec,
                        i : Pools, snap : [Pools -> Journal], sent : BOOLEAN]]
  /\ ctl \in [pc : {"serving", "set", "journals", "commit", "read", "ensure", "complete", "ccas", "verify"},
              i : Pools, cur : Journal, barrier : BOOLEAN]
  /\ tries \in [Volumes -> Nat]
  /\ lost \in 0..MaxLost /\ crashes \in 0..MaxCrashes

\* A journal that the set commits to exists, and while the controller serves
\* the set is complete, whatever writes of the set and of the journals an
\* interrupted start left under way: ReadCommitted never fails for a handler.
CommittedJournalsExist ==
  /\ \A p \in set.pools : Exists(journal[p])
  /\ ctl.pc = "serving" => set.state = "Ready" /\ set.pools = 1..conf /\ Complete

\* An allocation POST that may still be applied carries the bytes of a Pending
\* intent: no POST can reserve capacity that the journals do not show.
EmittedIsJournaled ==
  \A r \in lateA : journal[r.pool].rec = r

\* A volume is never Pending in two pools, also when a retry names another
\* pool while the Begin of the first request is still under way.
OneIntentPerVolume ==
  \A p, q \in Pools :
    journal[p].rec.vol = journal[q].rec.vol /\ Pending(journal[p]) => p = q

\* While a volume is Pending, its allocation is absent or is exactly the
\* Reserved record of the intent: the reconciliation at start cannot conflict.
PendingIsExact ==
  \A p \in Pools : Pending(journal[p]) =>
    LET r == journal[p].rec
    IN alloc[r.vol].state = "none" \/ alloc[r.vol] = [rec |-> r, state |-> "Reserved"]

\* What the journals promise at every moment.
JournalSafety ==
  /\ TypeOK /\ CommittedJournalsExist
  /\ EmittedIsJournaled /\ OneIntentPerVolume /\ PendingIsExact

\* PlaceAndReserve: "releasing this lock between selection and reservation would
\* let two different names consume the same final capacity budget". The lock is
\* kept, so the reservations on a parent never exceed its logical capacity.
NoOvercommit == \A f \in Parents : Reserved(f) <= Capacity(f)

\* The lock and the journal do keep the reservations within the capacity, also
\* across crashes, as long as no API call fails or loses its answer.
OvercommitNeedsLoss == lost = 0 => NoOvercommit

\* A Pending intent becomes Idle only once its exact allocation exists, and is
\* never replaced by another intent.
CompletedExactly ==
  [][\A p \in Pools : journal[p].rec # journal'[p].rec /\ Pending(journal[p]) =>
       /\ Idle(journal'[p])
       /\ alloc[journal[p].rec.vol].rec = journal[p].rec]_vars

\* A pool lock is held only by a handler that is between LockPool and its
\* answer, or by a running refresh, which holds a prefix of the pools: whoever
\* waits for a lock waits for somebody that needs no other lock or a later one.
PoolLocksReturn ==
  \A p \in Pools :
    /\ lock[p] = Refresher <=> p <= refresh
    /\ \A v \in Volumes : lock[p] = v =>
         /\ h[v].pool = p /\ h[v].mode = "place"
         /\ h[v].pc \notin {"idle", "get", "scan", "mark", "lock", "advance"}

\* The controller comes to serve after every start and every checkpoint: no
\* history of crashes and late writes leaves a journal that Reconcile refuses.
ServingResumes == ctl.pc # "serving" ~> ctl.pc = "serving"
=============================================================================
