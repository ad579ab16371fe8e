------------------------------ MODULE Admission ------------------------------
(***************************************************************************)
(* How a mutating handler of the controller is admitted: it takes a token  *)
(* of the gate, then the lock of its volume, and gives them back in        *)
(* reverse order (gate.Acquire, volumeLocks.Lock and the deferred calls of *)
(* create.go, delete.go, publish.go, gc.go, gc_request.go, compaction.go   *)
(* and recovery_guard.go). The pool lock that placement takes inside the   *)
(* volume lock is in PoolReservations.                                     *)
(***************************************************************************)
EXTENDS MutationGate, KeyedLock

ASSUME AdmissionAssumption == Lockers = Callers

VARIABLE
  served  \* has the handler of each caller asked for its volume

avars == <<vars, lockVars, served>>

AInit ==
  /\ Init /\ LockInit
  /\ served = [c \in Callers |-> FALSE]

\* Steps of the gate alone, and of the lock alone.
Gate(A) == A /\ UNCHANGED <<lockVars, served>>
Locking(A) == A /\ UNCHANGED <<vars, served>>

LockVolume(c, v) ==
  /\ call[c] = "holding" /\ ~served[c] /\ Lock(c, v)
  /\ served' = [served EXCEPT ![c] = TRUE]
  /\ UNCHANGED vars

\* Fault seeded for a mutant: the token goes back before the lock does.
ReleaseEarly(c) == Gate(Release(c))

\* The deferred release of the gate is the outermost one.
ReleaseMutation(c) == state[c] = "idle" /\ Gate(Release(c))

Return(c) ==
  /\ ReturnToken(c) /\ served' = [served EXCEPT ![c] = FALSE]
  /\ UNCHANGED lockVars

Handler(c) ==
  \/ Gate(Acquire(c)) \/ Gate(CancelAcquire(c)) \/ Gate(TakeToken(c)) \/ Gate(Enter(c))
  \/ (\E v \in Keys : LockVolume(c, v))
  \/ Locking(TakeLock(c)) \/ Locking(Cancel(c))
  \/ Locking(Unlock(c)) \/ Locking(DropReference(c))
  \/ ReleaseMutation(c) \/ Return(c)

ANext ==
  \/ \E c \in Callers : Handler(c)
  \/ \E r \in Requests : Gate(BarrierStep(r))

ASpec == AInit /\ [][ANext]_avars

\* A goroutine that can run does, and of those that wait on a channel the one
\* that waits longest goes on. That a handler leaves the gate is what its own
\* steps, and the lock it waits for, bring about.
AFairSpec ==
  /\ ASpec
  /\ \A c \in Callers :
       /\ SF_avars(Gate(TakeToken(c))) /\ SF_avars(Locking(TakeLock(c)))
       /\ WF_avars(Gate(Enter(c)) \/ Locking(Unlock(c)) \/ Locking(DropReference(c))
                   \/ ReleaseMutation(c) \/ Return(c))
  /\ \A r \in Requests : WF_avars(Gate(Wake(r) \/ CallbackReturns(r)))

-----------------------------------------------------------------------------
\* Behind a closed barrier no volume lock is held, waited for or left in the
\* map: a checkpoint, a decommission or an uninstall meets no handler half way,
\* not even one that is unwinding (the order of the deferred calls).
QuiescedUnlocked ==
  \A r \in Requests : barrier[r] = "closed" => \A k \in Keys : entries[k] = NoEntry

\* A handler leaves the gate although it waits for a volume that another one
\* holds, and so BeginQuiesce does not wait for ever.
HandlersLeave == \A c \in Callers : call[c] = "holding" ~> call[c] # "holding"
=============================================================================
