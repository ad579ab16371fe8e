-------------------------- MODULE MutationGateProofs --------------------------
(***************************************************************************)
(* The mutation gate is safe for any number of callers, requests and       *)
(* tokens.                                                                 *)
(***************************************************************************)
EXTENDS MutationGate, FiniteSetTheorems, TLAPS

USE GateAssumption

\* Inside and holding a token are finite sets of callers, and a count of zero
\* says that nobody is inside.
LEMMA Counted ==
  ASSUME TypeOK, CountsAgree
  PROVE  /\ IsFiniteSet(Holders) /\ IsFiniteSet(TokenHolders)
         /\ inflight \in Nat /\ tokens \in Nat
         /\ inflight = 0 <=> Holders = {}
<1>1. Holders \in SUBSET Callers /\ TokenHolders \in SUBSET Callers
  BY DEF Holders, TokenHolders
<1>2. IsFiniteSet(Holders) /\ IsFiniteSet(TokenHolders)
  BY <1>1, FS_Subset
<1>. QED  BY <1>2, FS_CardinalityType, FS_EmptySet DEF CountsAgree

\* A caller that moves changes each count by the sets it enters or leaves.
LEMMA MoveCounts ==
  ASSUME TypeOK, CountsAgree, NEW c \in Callers, NEW pc \in CallStates,
         Goto(c, pc),
         inflight' = inflight + (IF pc = "holding" THEN 1 ELSE 0)
                              - (IF call[c] = "holding" THEN 1 ELSE 0),
         tokens' = tokens
           + (IF pc \in {"checking", "holding", "releasing"} THEN 1 ELSE 0)
           - (IF call[c] \in {"checking", "holding", "releasing"}
              THEN 1 ELSE 0),
         tokens' <= Limit
  PROVE  CountsAgree' /\ call' \in [Callers -> CallStates]
         /\ inflight' \in Nat /\ tokens' \in Nat
<1>1. call' = [call EXCEPT ![c] = pc] /\ call \in [Callers -> CallStates]
  BY DEF Goto, TypeOK
<1>2. inflight' = Cardinality(Holders')
  <2>1. CASE pc = "holding"
    <3>1. Holders' = Holders \cup {c}
      BY <1>1, <2>1 DEF Holders
    <3>2. c \in Holders <=> call[c] = "holding"
      BY DEF Holders
    <3>3. Cardinality(Holders \cup {c}) =
            IF c \in Holders THEN Cardinality(Holders) ELSE Cardinality(Holders) + 1
      BY Zenon, Counted, FS_AddElement
    <3>4. Cardinality(Holders) = inflight /\ inflight \in Nat
      BY Counted DEF CountsAgree
    <3>. QED  BY <2>1, <3>1, <3>2, <3>3, <3>4
  <2>2. CASE pc # "holding"
    <3>1. Holders' = Holders \ {c}
      BY <1>1, <2>2 DEF Holders
    <3>2. c \in Holders <=> call[c] = "holding"
      BY DEF Holders
    <3>3. Cardinality(Holders \ {c}) =
            IF c \in Holders THEN Cardinality(Holders) - 1 ELSE Cardinality(Holders)
      BY Zenon, Counted, FS_RemoveElement
    <3>4. Cardinality(Holders) = inflight /\ inflight \in Nat
      BY Counted DEF CountsAgree
    <3>. QED  BY <2>2, <3>1, <3>2, <3>3, <3>4
  <2>. QED  BY <2>1, <2>2
<1>3. tokens' = Cardinality(TokenHolders')
  <2>. DEFINE T == {"checking", "holding", "releasing"}
  <2>0. c \in TokenHolders <=> call[c] \in T
    BY DEF TokenHolders
  <2>1. CASE pc \in T
    <3>1. TokenHolders' = TokenHolders \cup {c}
      BY <1>1, <2>1 DEF TokenHolders
    <3>3. Cardinality(TokenHolders \cup {c}) =
            IF c \in TokenHolders THEN Cardinality(TokenHolders) ELSE Cardinality(TokenHolders) + 1
      BY Zenon, Counted, FS_AddElement
    <3>4. Cardinality(TokenHolders) = tokens /\ tokens \in Nat
      BY Counted DEF CountsAgree
    <3>. QED  BY <2>0, <2>1, <3>1, <3>3, <3>4
  <2>2. CASE pc \notin T
    <3>1. TokenHolders' = TokenHolders \ {c}
      BY <1>1, <2>2 DEF TokenHolders
    <3>3. Cardinality(TokenHolders \ {c}) =
            IF c \in TokenHolders THEN Cardinality(TokenHolders) - 1 ELSE Cardinality(TokenHolders)
      BY Zenon, Counted, FS_RemoveElement
    <3>4. Cardinality(TokenHolders) = tokens /\ tokens \in Nat
      BY Counted DEF CountsAgree
    <3>. QED  BY <2>0, <2>2, <3>1, <3>3, <3>4
  <2>. QED  BY <2>1, <2>2
<1>4. Holders' \in SUBSET Callers /\ TokenHolders' \in SUBSET Callers
  BY DEF Holders, TokenHolders
<1>5. Cardinality(Holders') \in Nat /\ Cardinality(TokenHolders') \in Nat
  BY <1>4, FS_Subset, FS_CardinalityType
<1>. QED  BY <1>1, <1>2, <1>3, <1>5 DEF CountsAgree

\* The step of a caller preserves the invariant.
LEMMA CallSafe ==
  ASSUME GateSafety, NEW c \in Callers, CallStep(c)
  PROVE  GateSafety'
<1>. USE DEF GateSafety
<1>0. /\ TypeOK /\ CountsAgree /\ inflight \in Nat /\ tokens \in Nat
      /\ tokens <= Limit
  BY Counted DEF CountsAgree
<1>1. CASE Acquire(c)
  <2>1. CountsAgree' /\ TypeOK'
    BY <1>0, <1>1, MoveCounts DEF Acquire, TypeOK, gate, CallStates
  <2>2. Holders' = Holders /\ c \notin Holders
    BY <1>1 DEF Acquire, Goto, Holders, TypeOK
  <2>3. \A d \in Holders : cred'[d] = cred[d]
    BY <1>1, <2>2 DEF Acquire, TypeOK, Holders
  <2>. QED  BY <1>1, <2>1, <2>2, <2>3
            DEF Acquire, Ownership, BarrierHolds, ClosedIsQuiet, NoLostWakeup,
                gate
<1>2. CASE CancelAcquire(c) \/ TakeToken(c)
  <2>1. CountsAgree' /\ TypeOK'
    BY <1>0, <1>2, MoveCounts
       DEF CancelAcquire, TakeToken, TypeOK, gate, CallStates
  <2>2. Holders' = Holders
    BY <1>2 DEF CancelAcquire, TakeToken, Goto, Holders, TypeOK
  <2>. QED  BY <1>2, <2>1, <2>2
            DEF CancelAcquire, TakeToken, Ownership, BarrierHolds,
                ClosedIsQuiet, NoLostWakeup, gate
<1>3. CASE Enter(c)
  <2>1. CASE Admitted(c)
    <3>1. CountsAgree' /\ TypeOK'
      BY <1>0, <1>3, <2>1, MoveCounts DEF Enter, TypeOK, gate, CallStates
    <3>2. Holders' = Holders \cup {c}
      BY <1>3, <2>1 DEF Enter, Goto, Holders, TypeOK
    <3>3. \A r \in Requests : barrier[r] # "none" =>
            /\ barrier[r] = "running"
            /\ cred[c] # NoAdmission /\ owner[cred[c]] = r
      BY <2>1 DEF Admitted, QuiescedAdmissionAllowed, Ownership, TypeOK
    <3>4. inflight' # 0
      BY <1>0, <1>3, <2>1 DEF Enter
    <3>. QED  BY <1>3, <3>1, <3>2, <3>3, <3>4
              DEF Enter, Ownership, BarrierHolds, ClosedIsQuiet, NoLostWakeup,
                  gate
  <2>2. CASE ~Admitted(c)
    <3>1. CountsAgree' /\ TypeOK'
      BY <1>0, <1>3, <2>2, MoveCounts DEF Enter, TypeOK, gate, CallStates
    <3>2. Holders' = Holders
      BY <1>3, <2>2 DEF Enter, Goto, Holders, TypeOK
    <3>. QED  BY <1>3, <2>2, <3>1, <3>2
              DEF Enter, Ownership, BarrierHolds, ClosedIsQuiet, NoLostWakeup,
                  gate
  <2>. QED  BY <2>1, <2>2
<1>4. CASE Release(c)
  <2>1. CountsAgree' /\ TypeOK'
    BY <1>0, <1>4, MoveCounts DEF Release, Notify, TypeOK, gate, CallStates
  <2>2. Holders' = Holders \ {c}
    BY <1>4 DEF Release, Goto, Holders, TypeOK
  <2>. QED  BY <1>4, <2>1, <2>2
            DEF Release, Notify, Ownership, BarrierHolds, ClosedIsQuiet,
                NoLostWakeup, gate
<1>5. CASE ReturnToken(c)
  <2>1. CountsAgree' /\ TypeOK'
    BY <1>0, <1>5, MoveCounts DEF ReturnToken, TypeOK, gate, CallStates
  <2>2. Holders' = Holders
    BY <1>5 DEF ReturnToken, Goto, Holders, TypeOK
  <2>. QED  BY <1>5, <2>1, <2>2
            DEF ReturnToken, Ownership, BarrierHolds, ClosedIsQuiet,
                NoLostWakeup, gate
<1>. QED  BY <1>1, <1>2, <1>3, <1>4, <1>5 DEF CallStep

\* A turn of a wait loop: it ends only with nobody in flight.
LEMMA AwaitFacts ==
  ASSUME TypeOK, CountsAgree, NEW r \in Requests,
         NEW w \in {"draining", "finishing"},
         NEW woken \in [Requests -> BOOLEAN], Await(r, w, woken)
  PROVE  /\ changed' \in [Requests -> BOOLEAN]
         /\ barrier' \in [Requests -> BarrierStates]
         /\ \A q \in Requests \ {r} :
              barrier'[q] = barrier[q] /\ changed'[q] = woken[q]
         /\ barrier'[r] \in {"closed", w}
         /\ barrier'[r] = "closed" <=> inflight = 0
         /\ barrier'[r] = "closed" => Holders = {}
<1>1. inflight = 0 <=> Holders = {}
  BY Counted
<1>. QED  BY Zenon, <1>1 DEF Await, TypeOK, BarrierStates

\* The step of a barrier request preserves the invariant.
LEMMA BarrierSafe ==
  ASSUME GateSafety, NEW r \in Requests, BarrierStep(r)
  PROVE  GateSafety'
<1>. USE DEF GateSafety
<1>0. inflight = 0 <=> Holders = {}
  BY Counted
<1>a. ASSUME UNCHANGED <<tokens, inflight, call>>
      PROVE  CountsAgree' /\ Holders' = Holders
  BY <1>a DEF CountsAgree, Holders, TokenHolders
<1>1. CASE BeginQuiesce(r)
  <2>. DEFINE woken == IF quiesceID = NoRequest THEN [q \in Requests |-> TRUE]
                       ELSE changed
  <2>0. woken \in [Requests -> BOOLEAN]
    BY DEF TypeOK
  <2>1. Await(r, "draining", woken)
    BY <1>1 DEF BeginQuiesce
  <2>. HIDE DEF woken
  <2>2. /\ changed' \in [Requests -> BOOLEAN]
        /\ barrier' \in [Requests -> BarrierStates]
        /\ \A q \in Requests \ {r} : barrier'[q] = barrier[q]
        /\ barrier'[r] \in {"closed", "draining"}
        /\ barrier'[r] = "closed" <=> inflight = 0
        /\ barrier'[r] = "closed" => Holders = {}
    BY <2>0, <2>1, AwaitFacts
  <2>3. TypeOK' /\ CountsAgree' /\ Holders' = Holders
    BY <1>1, <1>a, <2>2 DEF BeginQuiesce, TypeOK
  <2>4. \A q \in Requests \ {r} : barrier[q] = "none"
    BY <1>1 DEF BeginQuiesce, Ownership
  <2>5. admission = NoAdmission
    BY <1>1, <2>4 DEF BeginQuiesce, Ownership, TypeOK
  <2>. QED  BY <1>1, <2>2, <2>3, <2>4, <2>5
            DEF BeginQuiesce, Ownership, BarrierHolds, ClosedIsQuiet,
                NoLostWakeup
<1>2. CASE Wake(r)
  <2>1. /\ changed' \in [Requests -> BOOLEAN]
        /\ barrier' \in [Requests -> BarrierStates]
        /\ \A q \in Requests \ {r} :
             barrier'[q] = barrier[q] /\ changed'[q] = changed[q]
        /\ barrier'[r] \in {"closed", barrier[r]}
        /\ barrier'[r] = "closed" <=> inflight = 0
        /\ barrier'[r] = "closed" => Holders = {}
    BY <1>2, AwaitFacts DEF Wake, TypeOK
  <2>2. TypeOK' /\ CountsAgree' /\ Holders' = Holders
    BY <1>2, <1>a, <2>1 DEF Wake, TypeOK, gate
  <2>. QED  BY <1>2, <2>1, <2>2
            DEF Wake, Ownership, BarrierHolds, ClosedIsQuiet, NoLostWakeup,
                gate
<1>3. CASE CancelWait(r)
  <2>1. TypeOK' /\ CountsAgree' /\ Holders' = Holders
    BY <1>3, <1>a DEF CancelWait, TypeOK, gate, BarrierStates
  <2>. QED  BY <1>3, <2>1
            DEF CancelWait, Ownership, BarrierHolds, ClosedIsQuiet,
                NoLostWakeup, gate, TypeOK
<1>4. CASE RunQuiescedReconciliation(r)
  <2>1. PICK a \in Admissions :
          /\ owner[a] = NoRequest
          /\ owner' = [owner EXCEPT ![a] = r]
          /\ admission' = a
    BY Zenon, <1>4 DEF RunQuiescedReconciliation
  <2>2. TypeOK' /\ CountsAgree' /\ Holders' = Holders
    BY <1>4, <1>a, <2>1 DEF RunQuiescedReconciliation, TypeOK, BarrierStates
  <2>3. Holders = {}
    BY <1>0, <1>4 DEF RunQuiescedReconciliation
  <2>. QED  BY <1>4, <2>1, <2>2, <2>3
            DEF RunQuiescedReconciliation, Ownership, BarrierHolds,
                ClosedIsQuiet, NoLostWakeup, TypeOK
<1>5. CASE CallbackReturns(r)
  <2>. DEFINE woken == [q \in Requests |-> TRUE]
  <2>0. woken \in [Requests -> BOOLEAN] /\ \A q \in Requests : woken[q]
    OBVIOUS
  <2>a. Await(r, "finishing", woken)
    BY <1>5 DEF CallbackReturns
  <2>. HIDE DEF woken
  <2>1. /\ changed' \in [Requests -> BOOLEAN]
        /\ barrier' \in [Requests -> BarrierStates]
        /\ \A q \in Requests \ {r} :
             barrier'[q] = barrier[q] /\ changed'[q]
        /\ barrier'[r] \in {"closed", "finishing"}
        /\ barrier'[r] = "closed" <=> inflight = 0
        /\ barrier'[r] = "closed" => Holders = {}
    BY <2>0, <2>a, AwaitFacts
  <2>2. TypeOK' /\ CountsAgree' /\ Holders' = Holders
    BY <1>5, <1>a, <2>1 DEF CallbackReturns, TypeOK
  <2>. QED  BY <1>5, <2>1, <2>2
            DEF CallbackReturns, Ownership, BarrierHolds, ClosedIsQuiet,
                NoLostWakeup
<1>6. CASE Resume(r)
  <2>1. TypeOK' /\ CountsAgree' /\ Holders' = Holders
    BY <1>6, <1>a DEF Resume, Notify, TypeOK, BarrierStates
  <2>2. \A q \in Requests \ {r} : barrier[q] = "none"
    BY <1>6 DEF Resume, Ownership
  <2>. QED  BY <1>6, <2>1, <2>2
            DEF Resume, Notify, Ownership, BarrierHolds, ClosedIsQuiet,
                NoLostWakeup, TypeOK
<1>. QED  BY <1>1, <1>2, <1>3, <1>4, <1>5, <1>6 DEF BarrierStep

\* Nobody is inside at the start.
LEMMA InitSafe == Init => GateSafety
<1>1. SUFFICES ASSUME Init PROVE GateSafety
  OBVIOUS
<1>2. Holders = {} /\ TokenHolders = {}
  BY <1>1 DEF Init, Holders, TokenHolders
<1>3. CountsAgree
  BY <1>1, <1>2, FS_EmptySet DEF Init, CountsAgree
<1>. QED  BY <1>1, <1>2, <1>3
          DEF Init, GateSafety, TypeOK, Ownership, BarrierHolds,
              ClosedIsQuiet, NoLostWakeup, CallStates, BarrierStates

\* No step, and no stuttering, breaks the invariant.
LEMMA NextSafe == GateSafety /\ [Next]_vars => GateSafety'
<1>1. SUFFICES ASSUME GateSafety, [Next]_vars PROVE GateSafety'
  OBVIOUS
<1>2. CASE UNCHANGED vars
  BY <1>1, <1>2 DEF vars, GateSafety, TypeOK, CountsAgree, Ownership,
     BarrierHolds, ClosedIsQuiet, NoLostWakeup, Holders, TokenHolders
<1>. QED  BY <1>1, <1>2, CallSafe, BarrierSafe DEF Next

\* The gate is safe in every reachable state: the counters are exact, the
\* barrier holds, and a waiter is never forgotten (gate.go).
THEOREM GateIsSafe == Spec => []GateSafety
BY InitSafe, NextSafe, PTL DEF Spec

\* From the return of BeginQuiesce to Resume nobody is inside the gate but
\* users of the request's own capability.
THEOREM BarrierIsHeld == Spec => []BarrierHolds
<1>1. GateSafety => BarrierHolds
  BY DEF GateSafety
<1>. QED  BY <1>1, GateIsSafe, PTL

\* A request that waits with nobody in flight has been woken, so that
\* BeginQuiesce cannot sleep through the last release.
THEOREM WakeupsAreKept == Spec => []NoLostWakeup
<1>1. GateSafety => NoLostWakeup
  BY DEF GateSafety
<1>. QED  BY <1>1, GateIsSafe, PTL

\* Whoever enters a closed gate carries the capability valid at that moment.
THEOREM RevokedOpensNothing == Spec => OnlyValidCapability
<1>1. ASSUME GateSafety, [Next]_vars
      PROVE  [\A c \in Callers :
                call[c] # "holding" /\ call'[c] = "holding"
                  /\ quiesceID # NoRequest
                  => barrier[quiesceID] = "running" /\ cred[c] = admission]_vars
  <2>1. SUFFICES ASSUME NEW c \in Callers, call[c] # "holding",
                        call'[c] = "holding", quiesceID # NoRequest
                 PROVE  barrier[quiesceID] = "running" /\ cred[c] = admission
    OBVIOUS
  <2>2. Enter(c) /\ Admitted(c)
    BY <1>1, <2>1
       DEF Next, vars, CallStep, BarrierStep, Acquire, CancelAcquire,
           TakeToken, Enter, Release, ReturnToken, BeginQuiesce, Wake,
           CancelWait, RunQuiescedReconciliation, CallbackReturns, Resume,
           Goto, GateSafety, TypeOK
  <2>. QED  BY <1>1, <2>1, <2>2
            DEF Admitted, QuiescedAdmissionAllowed, GateSafety, Ownership
<1>. QED  BY <1>1, GateIsSafe, PTL DEF Spec, OnlyValidCapability
=============================================================================
