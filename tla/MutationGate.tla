----------------------------- MODULE MutationGate -----------------------------
(***************************************************************************)
(* pkg/coordination/gate.go: the outermost lock of every mutating call. A  *)
(* caller takes one of Limit tokens; a barrier request (a checkpoint, a    *)
(* decommission, an uninstall or the shutdown) closes admission, waits     *)
(* until the admitted calls are gone, may run one reconciliation with a    *)
(* capability of its own, and opens admission again. The calls of one      *)
(* request are serialised by their owner (CheckpointCoordinator holds      *)
(* operationMu, the other workflows their own mutex), so a request is one  *)
(* process.                                                                *)
(***************************************************************************)
EXTENDS Integers, FiniteSets

CONSTANTS
  Callers,      \* goroutines that call Acquire
  Requests,     \* barrier requests
  NoRequest,    \* the empty quiesceID
  Admissions,   \* capabilities; as many reconciliations run at most
  NoAdmission,  \* no capability
  Limit         \* tokens

ASSUME GateAssumption ==
  /\ NoRequest \notin Requests
  /\ NoAdmission \notin Admissions
  /\ Limit \in Nat \ {0}
  /\ IsFiniteSet(Callers)

VARIABLES
  quiesceID,  \* the request that closed admission
  admission,  \* quiescedAdmission: the capability that is valid now
  owner,      \* the request each capability was issued to
  tokens,     \* len(gate.tokens)
  inflight,   \* gate.inflight
  call,       \* each caller: where it is in Acquire or release
  cred,       \* the capability in each caller's context
  barrier,    \* each request: where it is
  changed     \* each waiting request: the channel it waits on was closed

gate == <<quiesceID, admission, owner>>
vars == <<quiesceID, admission, owner, tokens, inflight, call, cred, barrier,
          changed>>

CallStates == {"idle", "queued", "checking", "holding", "releasing"}
BarrierStates ==
  {"none", "draining", "closed", "cancelled", "running", "finishing"}

TypeOK ==
  /\ quiesceID \in Requests \cup {NoRequest}
  /\ admission \in Admissions \cup {NoAdmission}
  /\ owner \in [Admissions -> Requests \cup {NoRequest}]
  /\ tokens \in Nat
  /\ inflight \in Nat
  /\ call \in [Callers -> CallStates]
  /\ cred \in [Callers -> Admissions \cup {NoAdmission}]
  /\ barrier \in [Requests -> BarrierStates]
  /\ changed \in [Requests -> BOOLEAN]

Init ==
  /\ quiesceID = NoRequest
  /\ admission = NoAdmission
  /\ owner = [a \in Admissions |-> NoRequest]
  /\ tokens = 0
  /\ inflight = 0
  /\ call = [c \in Callers |-> "idle"]
  /\ cred = [c \in Callers |-> NoAdmission]
  /\ barrier = [r \in Requests |-> "none"]
  /\ changed = [r \in Requests |-> FALSE]

-----------------------------------------------------------------------------
\* close(stateChanged): whoever waits on the channel is woken.
Notify == changed' = [r \in Requests |-> TRUE]

\* quiescedAdmissionAllowed
QuiescedAdmissionAllowed(a) ==
  a # NoAdmission /\ a = admission /\ owner[a] = quiesceID

Admitted(c) == quiesceID = NoRequest \/ QuiescedAdmissionAllowed(cred[c])

Goto(c, pc) == call' = [call EXCEPT ![c] = pc]

\* Acquire, first look at the barrier. The context carries no capability, or
\* any one that a reconciliation was ever given: it may have been retained.
Acquire(c) ==
  /\ call[c] = "idle"
  /\ \E a \in {NoAdmission} \cup {b \in Admissions : owner[b] # NoRequest} :
       /\ cred' = [cred EXCEPT ![c] = a]
       /\ quiesceID = NoRequest \/ QuiescedAdmissionAllowed(a)
  /\ Goto(c, "queued")
  /\ UNCHANGED <<gate, tokens, inflight, barrier, changed>>

\* The context ends before a token is free.
CancelAcquire(c) ==
  /\ call[c] = "queued"
  /\ Goto(c, "idle")
  /\ UNCHANGED <<gate, tokens, inflight, cred, barrier, changed>>

TakeToken(c) ==
  /\ call[c] = "queued"
  /\ tokens < Limit
  /\ tokens' = tokens + 1
  /\ Goto(c, "checking")
  /\ UNCHANGED <<gate, inflight, cred, barrier, changed>>

\* The second look, with the token in hand: enter, or give the token back.
Enter(c) ==
  /\ call[c] = "checking"
  /\ IF Admitted(c)
     THEN Goto(c, "holding") /\ inflight' = inflight + 1 /\ UNCHANGED tokens
     ELSE Goto(c, "idle") /\ tokens' = tokens - 1 /\ UNCHANGED inflight
  /\ UNCHANGED <<gate, cred, barrier, changed>>

\* Fault seeded for a mutant: the waiters are not told.
ReleaseSilently(c) ==
  /\ call[c] = "holding"
  /\ inflight' = inflight - 1
  /\ Goto(c, "releasing")
  /\ UNCHANGED <<gate, tokens, cred, barrier, changed>>

\* Release: under the mutex the count and the waiters, then the token.
Release(c) ==
  /\ call[c] = "holding"
  /\ inflight' = inflight - 1
  /\ Notify
  /\ Goto(c, "releasing")
  /\ UNCHANGED <<gate, tokens, cred, barrier>>

ReturnToken(c) ==
  /\ call[c] = "releasing"
  /\ tokens' = tokens - 1
  /\ Goto(c, "idle")
  /\ UNCHANGED <<gate, inflight, cred, barrier, changed>>

-----------------------------------------------------------------------------
\* One turn of a wait loop: done when no call is in flight, else wait on the
\* channel of the moment.
Await(r, waiting, woken) ==
  IF inflight = 0
  THEN barrier' = [barrier EXCEPT ![r] = "closed"] /\ changed' = woken
  ELSE /\ barrier' = [barrier EXCEPT ![r] = waiting]
       /\ changed' = [woken EXCEPT ![r] = FALSE]

\* BeginQuiesce: close admission, or find it closed by the same request.
BeginQuiesce(r) ==
  /\ barrier[r] \in {"none", "closed", "cancelled"}
  /\ quiesceID \in {NoRequest, r}
  /\ quiesceID' = r
  /\ Await(r, "draining",
           IF quiesceID = NoRequest THEN [q \in Requests |-> TRUE]
           ELSE changed)
  /\ UNCHANGED <<admission, owner, tokens, inflight, call, cred>>

\* The waiter runs again after its channel was closed.
Wake(r) ==
  /\ barrier[r] \in {"draining", "finishing"}
  /\ changed[r]
  /\ Await(r, barrier[r], changed)
  /\ UNCHANGED <<gate, tokens, inflight, call, cred>>

\* The waiter's context ends. The barrier stays.
CancelWait(r) ==
  /\ barrier[r] \in {"draining", "finishing"}
  /\ barrier' = [barrier EXCEPT ![r] = "cancelled"]
  /\ UNCHANGED <<gate, tokens, inflight, call, cred, changed>>

\* RunQuiescedReconciliation up to the callback.
RunQuiescedReconciliation(r) ==
  /\ barrier[r] \in {"closed", "cancelled"}
  /\ quiesceID = r
  /\ admission = NoAdmission /\ inflight = 0
  /\ \E a \in Admissions :
       /\ owner[a] = NoRequest
       /\ owner' = [owner EXCEPT ![a] = r]
       /\ admission' = a
  /\ barrier' = [barrier EXCEPT ![r] = "running"]
  /\ UNCHANGED <<quiesceID, tokens, inflight, call, cred, changed>>

\* Fault seeded for a mutant: the capability outlives the callback.
CallbackKeepsAdmission(r) ==
  /\ barrier[r] = "running"
  /\ Await(r, "finishing", [q \in Requests |-> TRUE])
  /\ UNCHANGED <<gate, tokens, inflight, call, cred>>

\* The callback returns: the capability is revoked and its users awaited.
CallbackReturns(r) ==
  /\ barrier[r] = "running"
  /\ admission' = NoAdmission
  /\ Await(r, "finishing", [q \in Requests |-> TRUE])
  /\ UNCHANGED <<quiesceID, owner, tokens, inflight, call, cred>>

Resume(r) ==
  /\ barrier[r] \in {"closed", "cancelled"}
  /\ quiesceID = r
  /\ inflight = 0 /\ admission = NoAdmission
  /\ quiesceID' = NoRequest
  /\ barrier' = [barrier EXCEPT ![r] = "none"]
  /\ Notify
  /\ UNCHANGED <<admission, owner, tokens, inflight, call, cred>>

-----------------------------------------------------------------------------
CallStep(c) ==
  \/ Acquire(c) \/ CancelAcquire(c) \/ TakeToken(c) \/ Enter(c)
  \/ Release(c) \/ ReturnToken(c)

BarrierStep(r) ==
  \/ BeginQuiesce(r) \/ Wake(r) \/ CancelWait(r)
  \/ RunQuiescedReconciliation(r) \/ CallbackReturns(r) \/ Resume(r)

Next == (\E c \in Callers : CallStep(c)) \/ (\E r \in Requests : BarrierStep(r))

Spec == Init /\ [][Next]_vars

-----------------------------------------------------------------------------
Holders == {c \in Callers : call[c] = "holding"}
TokenHolders == {c \in Callers : call[c] \in {"checking", "holding", "releasing"}}

\* The counters count: inflight the callers inside the gate, tokens also the
\* ones on their way in or out, never more than Limit.
CountsAgree ==
  /\ inflight = Cardinality(Holders)
  /\ tokens = Cardinality(TokenHolders)
  /\ tokens <= Limit

\* The barrier is a barrier: from the moment BeginQuiesce returned success
\* until Resume, nobody is inside the gate but users of a capability that was
\* issued to this very request.
BarrierHolds ==
  \A r \in Requests : barrier[r] \in {"closed", "running", "finishing"} =>
    /\ quiesceID = r
    /\ \A c \in Holders : cred[c] # NoAdmission /\ owner[cred[c]] = r

\* A checkpoint captures between reconciliations with nobody inside.
ClosedIsQuiet == \A r \in Requests : barrier[r] = "closed" => Holders = {}

\* Nobody sleeps through the last release: a request that waits while no call
\* is in flight has been woken.
NoLostWakeup ==
  \A r \in Requests :
    barrier[r] \in {"draining", "finishing"} /\ inflight = 0 => changed[r]

\* A revoked capability opens nothing: whoever enters a closed gate carries
\* the capability that is valid at that moment.
OnlyValidCapability ==
  [][\A c \in Callers :
       call[c] # "holding" /\ call'[c] = "holding" /\ quiesceID # NoRequest
         => barrier[quiesceID] = "running" /\ cred[c] = admission]_vars

\* A request that closed the gate gets its answer: the admitted calls leave,
\* and none that came later keeps the wait alive.
QuiesceCompletes ==
  \A r \in Requests :
    barrier[r] \in {"draining", "finishing"}
      ~> barrier[r] \in {"closed", "cancelled"}

\* What makes the barrier inductive: a request that began is the one that
\* closed the gate, and a capability is valid only inside the callback of the
\* request it was issued to. No property of its own: the proofs use it.
Ownership ==
  /\ \A r \in Requests : barrier[r] # "none" => quiesceID = r
  /\ admission # NoAdmission =>
       /\ quiesceID \in Requests /\ owner[admission] = quiesceID
       /\ barrier[quiesceID] = "running"

\* The gate is safe: the counters are exact, the barrier holds and is quiet
\* when closed, and no waiter is forgotten (Acquire, release, BeginQuiesce,
\* RunQuiescedReconciliation and Resume together).
GateSafety ==
  /\ TypeOK /\ CountsAgree /\ Ownership
  /\ BarrierHolds /\ ClosedIsQuiet /\ NoLostWakeup
=============================================================================
