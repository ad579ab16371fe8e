------------------------- MODULE VolumeWriterProofs -------------------------
(***************************************************************************)
(* SINGLE_NODE_WRITER: never two nodes with the volume mounted. On top of   *)
(* FenceSafety, every step either shrinks the fences in sight of a handler, *)
(* or sends a record whose fences were in sight, or adds the first one.     *)
(***************************************************************************)
EXTENDS VolumeSafetyProofs

\* Nothing is sent, and no fence appears that was not in sight.
Quiet ==
  /\ UNCHANGED <<alloc, late>>
  /\ own'.fences \subseteq own.fences \cup op.a.fences
  /\ op'.a.fences \subseteq alloc.fences \cup op.a.fences
  /\ SingleWriter /\ op'.pc = "pubA" => op'.a.fences = {}

\* The successor of the record that the handler read: with fences in sight, or
\* with the fence of the node that is published.
Grounded(next) ==
  /\ next.rev = op.a.rev + 1
  /\ \/ next.fences \subseteq op.a.fences \cup own.fences
     \/ op.pc = "pubA" /\ next.fences \subseteq op.a.fences \cup {op.n}

\* It is applied, or stays in flight.
Sent(next) ==
  /\ Grounded(next) /\ own' = own /\ op'.pc # "pubA"
  /\ \/ /\ alloc.rev = op.a.rev /\ alloc' = next /\ op'.a = next
        /\ late' = late
     \/ alloc' = alloc /\ op'.a = op.a /\ late' = late \cup {next}

\* Next to a write that can land, the handler has read the stored record.
LEMMA LiveSnapshot ==
  ASSUME FenceSafety, NEW w \in late, w.rev = alloc.rev + 1
  PROVE  op.a.fences \subseteq alloc.fences
<1>1. /\ op.a.rev \in Nat /\ alloc.rev \in Nat /\ w.rev \in Nat
  BY DEF FenceSafety, TypeOK, Handler, Allocation
<1>2. CASE op.pc = "idle"
  BY <1>2 DEF FenceSafety, ReadInv, Idle, NoAllocation
<1>3. CASE op.pc # "idle"
  BY <1>1, <1>3 DEF FenceSafety, SnapshotInv
<1>. QED  BY <1>2, <1>3

\* What is sent from the stored record leaves at most one node in sight.
LEMMA GroundedFences ==
  ASSUME FenceSafety, SingleWriterInv, SingleWriter, NEW next, Grounded(next)
  PROVE  AtMostOne(op.a.fences \cup own.fences \cup next.fences)
<1>1. CASE next.fences \subseteq op.a.fences \cup own.fences
  BY <1>1 DEF SingleWriterInv, AtMostOne
<1>2. CASE op.pc = "pubA" /\ next.fences \subseteq op.a.fences \cup {op.n}
  <2>1. op.a.fences = {} /\ own.fences = {}
    BY <1>2 DEF SingleWriterInv, FenceSafety, KnownInv
  <2>. QED  BY <1>2, <2>1 DEF AtMostOne
<1>. QED  BY <1>1, <1>2 DEF Grounded

LEMMA QuietKeeps ==
  ASSUME FenceSafety, SingleWriterInv, Quiet
  PROVE  SingleWriterInv'
<1>. SUFFICES ASSUME SingleWriter PROVE SingleWriterInv'
  BY DEF SingleWriterInv
<1>1. AtMostOne(alloc'.fences \cup own'.fences \cup op'.a.fences)
  BY DEF SingleWriterInv, AtMostOne, Quiet
<1>2. ASSUME NEW w \in late, w.rev = alloc.rev + 1
      PROVE  AtMostOne(alloc.fences \cup own'.fences \cup w.fences)
  <2>1. own'.fences \subseteq own.fences \cup alloc.fences
    BY <1>2, LiveSnapshot DEF Quiet
  <2>. QED  BY <1>2, <2>1 DEF SingleWriterInv, AtMostOne
<1>. QED  BY <1>1, <1>2 DEF SingleWriterInv, Quiet

LEMMA SentKeeps ==
  ASSUME FenceSafety, SingleWriterInv, NEW next, Sent(next)
  PROVE  SingleWriterInv'
<1>. SUFFICES ASSUME SingleWriter PROVE SingleWriterInv'
  BY DEF SingleWriterInv
<1>0. /\ op.a.rev \in Nat /\ alloc.rev \in Nat /\ next.rev = op.a.rev + 1
      /\ AtMostOne(op.a.fences \cup own.fences \cup next.fences)
      /\ own' = own /\ op'.pc # "pubA"
      /\ op.a.rev = alloc.rev => op.a = alloc
      /\ \A w \in late : w.rev \in Nat /\ w.rev <= alloc.rev + 1
  BY GroundedFences DEF FenceSafety, TypeOK, Handler, Allocation, Sent,
                        Grounded, SnapshotInv, RecordInv
<1>1. CASE /\ alloc.rev = op.a.rev /\ alloc' = next /\ op'.a = next
           /\ late' = late
  <2>1. AtMostOne(alloc'.fences \cup own'.fences \cup op'.a.fences)
    BY <1>0, <1>1 DEF AtMostOne
  <2>2. \A w \in late' : w.rev # alloc'.rev + 1
    BY <1>0, <1>1
  <2>. QED  BY <1>0, <2>1, <2>2 DEF SingleWriterInv
<1>2. CASE alloc' = alloc /\ op'.a = op.a /\ late' = late \cup {next}
  <2>1. AtMostOne(alloc'.fences \cup own'.fences \cup op'.a.fences)
    BY <1>0, <1>2 DEF SingleWriterInv
  <2>2. ASSUME NEW w \in late', w.rev = alloc'.rev + 1
        PROVE  AtMostOne(alloc'.fences \cup own'.fences \cup w.fences)
    <3>1. CASE w \in late
      BY <1>0, <1>2, <2>2, <3>1 DEF SingleWriterInv
    <3>2. CASE w = next
      <4>1. op.a = alloc
        BY <1>0, <1>2, <2>2, <3>2
      <4>. QED  BY <1>0, <1>2, <3>2, <4>1 DEF AtMostOne
    <3>. QED  BY <1>2, <3>1, <3>2
  <2>. QED  BY <1>0, <2>1, <2>2 DEF SingleWriterInv
<1>. QED  BY <1>1, <1>2 DEF Sent

\* Once deletion is recorded no fence is left anywhere.
LEMMA RetiredKeeps ==
  ASSUME FenceSafety', Retired(alloc'.state)
  PROVE  SingleWriterInv'
<1>1. /\ alloc'.fences = {} /\ own'.fences = {} /\ op'.a.fences = {}
      /\ alloc'.state # "Ready" /\ alloc'.kind # "none"
      /\ alloc' \in Allocation /\ late' \subseteq Allocation
  BY DEF FenceSafety, FenceInv, RecordInv, WellFormed, TypeOK, Retired, Kept
<1>2. ASSUME NEW w \in late', w.rev = alloc'.rev + 1
      PROVE  w.fences = {}
  <2>1. AllowedUpdate(alloc', w) /\ (w.kind = "compact" => w.state = "Deleted")
    BY <1>1, <1>2 DEF FenceSafety, RecordInv, WellFormed, Replaces
  <2>2. Retired(w.state)
    BY <1>1, <2>1, UpdateFacts
  <2>. QED  BY <1>2, <2>2 DEF FenceSafety, FenceInv
<1>. QED  BY <1>1, <1>2 DEF SingleWriterInv, AtMostOne

\* A recorded deletion stays recorded.
LEMMA RetiredStays ==
  ASSUME FenceSafety, FenceSafety', [Next]_vars, Retired(alloc.state)
  PROVE  Retired(alloc'.state)
<1>1. CASE alloc' = alloc
  BY <1>1
<1>2. CASE alloc' # alloc
  <2>1. /\ alloc \in Allocation /\ alloc' \in Allocation /\ alloc.kind # "none"
        /\ alloc'.kind = "compact" => alloc'.state = "Deleted"
    BY DEF FenceSafety, RecordInv, WellFormed, TypeOK, Retired, Kept
  <2>2. AllowedUpdate(alloc, alloc')
    BY <1>2, <2>1, NextReplaces DEF Replaces
  <2>. QED  BY <2>1, <2>2, UpdateFacts
<1>. QED  BY <1>1, <1>2

-----------------------------------------------------------------------------
(* The shapes of a step.                                                   *)

LEMMA CheckQuiet ==
  ASSUME TypeOK, NEW ok, NEW q, Check(ok, q),
         SingleWriter /\ ok /\ q = "pubA" => op.a.fences = {}
  PROVE  Quiet
<1>1. op'.a = op.a /\ op'.pc = IF ok THEN q ELSE "fail"
  BY DEF Check, Goto, TypeOK, Handler
<1>2. UNCHANGED <<alloc, late, own>>
  BY DEF Check, api
<1>. QED  BY <1>1, <1>2 DEF Quiet

LEMMA OwnQuiet ==
  ASSUME TypeOK, NEW o, NEW q, WriteOwnership(o, q), q # "pubA",
         o.fences \subseteq own.fences \cup op.a.fences
  PROVE  Quiet
<1>1. CASE Check(FALSE, q)
  BY Zenon, <1>1, CheckQuiet
<1>2. CASE InstallOwnership(o, q)
  <2>1. op'.a = op.a /\ op'.pc = q
    BY <1>2 DEF InstallOwnership, Goto, TypeOK, Handler
  <2>2. UNCHANGED <<alloc, late>> /\ own' = o
    BY <1>2 DEF InstallOwnership, api
  <2>. QED  BY <2>1, <2>2 DEF Quiet
<1>. QED  BY Zenon, <1>1, <1>2 DEF WriteOwnership

LEMMA UpdateSent ==
  ASSUME TypeOK, NEW next, NEW q, Update(next, q), q # "pubA",
         \/ next.fences \subseteq op.a.fences \cup own.fences
         \/ op.pc = "pubA" /\ next.fences \subseteq op.a.fences \cup {op.n}
  PROVE  Quiet \/ Sent(next)
<1>1. CASE ~AllowedUpdate(op.a, next)
  <2>1. Check(FALSE, q)
    BY Zenon, <1>1 DEF Update
  <2>. QED  BY Zenon, <2>1, CheckQuiet
<1>2. CASE AllowedUpdate(op.a, next)
  <2>1. CompareAndSwap(next, q)
    BY <1>2 DEF Update
  <2>2. Grounded(next) /\ own' = own
    BY <1>2, <2>1 DEF Grounded, AllowedUpdate, CompareAndSwap
  <2>3. CASE /\ alloc.rev = op.a.rev /\ alloc' = next
             /\ op' = [op EXCEPT !.a = next, !.pc = q]
             /\ UNCHANGED <<late, faults>>
    <3>1. op'.a = next /\ op'.pc = q
      BY <2>3 DEF TypeOK, Handler
    <3>. QED  BY <2>2, <2>3, <3>1 DEF Sent
  <2>4. CASE Goto("fail") /\ UNCHANGED api
    <3>1. op'.a = op.a /\ op'.pc = "fail"
      BY <2>4 DEF Goto, TypeOK, Handler
    <3>. QED  BY <2>2, <2>4, <3>1 DEF Quiet, api
  <2>5. CASE late' = late \cup {next} /\ Goto("fail") /\ alloc' = alloc
    <3>1. op'.a = op.a /\ op'.pc = "fail"
      BY <2>5 DEF Goto, TypeOK, Handler
    <3>. QED  BY <2>2, <2>5, <3>1 DEF Sent
  <2>. QED  BY <2>1, <2>3, <2>4, <2>5 DEF CompareAndSwap
<1>. QED  BY <1>1, <1>2

LEMMA CreateSent ==
  ASSUME FenceSafety, NEW r, NEW q, NEW e, CreateIfAbsent(r, q, e),
         op.a.kind = "none", r.rev = 1, r.fences = {}, q # "pubA", e # "pubA"
  PROVE  Quiet \/ Sent(r)
<1>0. TypeOK /\ own' = own /\ op.a.rev = 0 /\ (alloc.kind = "none" => alloc.rev = 0)
  BY DEF FenceSafety, RecordInv, WellFormed, CreateIfAbsent
<1>1. Grounded(r)
  BY <1>0 DEF Grounded
<1>2. CASE /\ alloc.kind = "none" /\ alloc' = r
           /\ op' = [op EXCEPT !.a = r, !.pc = q]
           /\ UNCHANGED <<late, faults>>
  <2>1. op'.a = r /\ op'.pc = q
    BY <1>0, <1>2 DEF TypeOK, Handler
  <2>. QED  BY <1>0, <1>1, <1>2, <2>1 DEF Sent
<1>3. CASE op' = [op EXCEPT !.a = alloc, !.pc = e] /\ UNCHANGED api
  <2>1. op'.a = alloc /\ op'.pc = e
    BY <1>0, <1>3 DEF TypeOK, Handler
  <2>. QED  BY <1>0, <1>3, <2>1 DEF Quiet, api
<1>4. CASE late' = late \cup {r} /\ Goto("fail") /\ alloc' = alloc
  <2>1. op'.a = op.a /\ op'.pc = "fail"
    BY <1>0, <1>4 DEF Goto, TypeOK, Handler
  <2>. QED  BY <1>0, <1>1, <1>4, <2>1 DEF Sent
<1>. QED  BY <1>2, <1>3, <1>4 DEF CreateIfAbsent

LEMMA RestoreUnionSent ==
  ASSUME TypeOK, NEW q, RestoreUnion(q), q # "pubA"
  PROVE  Quiet \/ \E next : Sent(next)
<1>1. CASE Check(TRUE, "unionO")
  BY Zenon, <1>1, CheckQuiet
<1>2. CASE Update([Successor EXCEPT !.fences = Union], "unionO")
  <2>. DEFINE r == [Successor EXCEPT !.fences = Union]
  <2>1. r.fences = op.a.fences \cup own.fences
    BY SuccessorFields DEF Allocation, Union
  <2>2. Update(r, "unionO")
    BY <1>2
  <2>. HIDE DEF r
  <2>. QED  BY <2>1, <2>2, UpdateSent
<1>3. CASE /\ own' = [own EXCEPT !.fences = op.a.fences]
           /\ op' = [op EXCEPT !.pc = q,
                               !.tgt = IF op.name = "unpublish"
                                       THEN UnpublishTargets ELSE {}]
           /\ UNCHANGED <<api, fs>>
  <2>1. op'.pc = q /\ op'.a = op.a
    BY <1>3 DEF TypeOK, Handler
  <2>2. own'.fences = op.a.fences
    BY <1>3 DEF TypeOK, Ownership
  <2>. QED  BY <1>3, <2>1, <2>2 DEF Quiet, api
<1>. QED  BY Zenon, <1>1, <1>2, <1>3 DEF RestoreUnion

-----------------------------------------------------------------------------
(* Every step of a handler on a volume whose deletion is not recorded is    *)
(* quiet, or sends a grounded record.                                      *)

LEMMA CreateStepSent ==
  ASSUME FenceSafety, CreateStep
  PROVE  Quiet \/ \E next : Sent(next)
<1>0. TypeOK /\ ReadInv /\ KnownInv
  BY DEF FenceSafety
<1>1. CASE PersistReservation
  <2>1. PICK p \in Policies :
          CreateIfAbsent([NoAllocation EXCEPT !.kind = "detailed", !.rev = 1,
                            !.state = "Reserved", !.policy = p],
                         "creating", ResumeCreation(alloc))
    BY Zenon, <1>1 DEF PersistReservation
  <2>. DEFINE r == [NoAllocation EXCEPT !.kind = "detailed", !.rev = 1,
                      !.state = "Reserved", !.policy = p]
  <2>2. r.rev = 1 /\ r.fences = {}
    BY Zenon DEF NoAllocation
  <2>3. op.a.kind = "none" /\ ResumeCreation(alloc) # "pubA"
    BY <1>0, <1>1 DEF PersistReservation, ReadInv, ResumeCreation
  <2>. HIDE DEF r
  <2>4. CreateIfAbsent(r, "creating", ResumeCreation(alloc))
    BY Zenon, <2>1 DEF r
  <2>. QED  BY <2>2, <2>3, <2>4, CreateSent
<1>2. CASE AdvanceCreating
  <2>. DEFINE r == [Successor EXCEPT !.state = "CreatingDirectory"]
  <2>1. r.fences = op.a.fences
    BY <1>0, SuccessorFields DEF Allocation
  <2>2. Update(r, "ensure")
    BY <1>2 DEF AdvanceCreating
  <2>. HIDE DEF r
  <2>. QED  BY <1>0, <2>1, <2>2, UpdateSent
<1>3. CASE EnsureCreated
  <2>1. CASE \E ok : Check(ok, "ready")
    BY <1>0, <2>1, CheckQuiet
  <2>2. CASE Goto("mkdirSync") /\ UNCHANGED <<api, own>>
    <3>1. op'.a = op.a /\ op'.pc = "mkdirSync"
      BY <1>0, <2>2 DEF Goto, TypeOK, Handler
    <3>. QED  BY <2>2, <3>1 DEF Quiet, api
  <2>. QED  BY Zenon, <1>3, <2>1, <2>2 DEF EnsureCreated
<1>4. CASE SyncLogicalDirectory
  <2>1. op'.a = op.a /\ op'.pc = "createOwn"
    BY <1>0, <1>4 DEF SyncLogicalDirectory, Goto, TypeOK, Handler
  <2>. QED  BY <1>4, <2>1 DEF SyncLogicalDirectory, Quiet, api
<1>5. CASE CreateOwnership
  <2>. DEFINE o == [NoOwnership EXCEPT !.kind = "detailed", !.state = "Ready",
                      !.fences = op.a.fences, !.policy = op.a.policy]
  <2>1. o.fences = op.a.fences
    BY Zenon DEF NoOwnership
  <2>2. InstallOwnership(o, "ready")
    BY Zenon, <1>5 DEF CreateOwnership
  <2>. HIDE DEF o
  <2>3. op'.a = op.a /\ op'.pc = "ready"
    BY <1>0, <2>2 DEF InstallOwnership, Goto, TypeOK, Handler
  <2>. QED  BY <2>1, <2>2, <2>3 DEF InstallOwnership, Quiet, api
<1>6. CASE AdvanceReady
  <2>. DEFINE r == [Successor EXCEPT !.state = "Ready"]
  <2>1. r.fences = op.a.fences
    BY <1>0, SuccessorFields DEF Allocation
  <2>2. Update(r, "ok")
    BY <1>6 DEF AdvanceReady
  <2>. HIDE DEF r
  <2>. QED  BY <1>0, <2>1, <2>2, UpdateSent
<1>. QED  BY <1>1, <1>2, <1>3, <1>4, <1>5, <1>6 DEF CreateStep

LEMMA PublishStepSent ==
  ASSUME FenceSafety, PublishStep
  PROVE  Quiet \/ \E next : Sent(next)
<1>0. TypeOK /\ ReadInv /\ KnownInv
  BY DEF FenceSafety
<1>1. CASE ReconcileFenceUnion
  <2>1. CASE Check(FALSE, "unionO")
    BY Zenon, <1>0, <2>1, CheckQuiet
  <2>2. CASE \E q : RestoreUnion(q) /\ q # "pubA"
    BY <1>0, <2>2, RestoreUnionSent
  <2>. DEFINE q == CASE op.name = "publish" -> "attach"
                     [] op.name = "fences"  -> "ok"
                     [] OTHER -> IF UnpublishTargets = {} THEN "ok"
                                 ELSE "clear"
  <2>3. q # "pubA"
    OBVIOUS
  <2>4. Check(FALSE, "unionO") \/ RestoreUnion(q)
    BY Zenon, <1>1 DEF ReconcileFenceUnion
  <2>. HIDE DEF q
  <2>. QED  BY Zenon, <2>1, <2>2, <2>3, <2>4
<1>2. CASE EnsureAttached
  <2>. DEFINE ok == SingleWriter => op.a.fences \subseteq {op.n}
              q  == IF op.n \in op.a.fences THEN "ok" ELSE "pubA"
  <2>1. Check(ok, q)
    BY Zenon, <1>2 DEF EnsureAttached
  <2>2. SingleWriter /\ ok /\ q = "pubA" => op.a.fences = {}
    OBVIOUS
  <2>. HIDE DEF ok, q
  <2>. QED  BY <1>0, <2>1, <2>2, CheckQuiet
<1>3. CASE PublishAllocation
  <2>. DEFINE r == [Successor EXCEPT !.fences = @ \cup {op.n}]
  <2>1. r.fences = op.a.fences \cup {op.n}
    BY <1>0, SuccessorFields DEF Allocation
  <2>2. op.pc = "pubA" /\ Update(r, "pubO")
    BY <1>3 DEF PublishAllocation
  <2>. HIDE DEF r
  <2>. QED  BY <1>0, <2>1, <2>2, UpdateSent
<1>4. CASE PublishOwnership
  <2>. DEFINE o == [own EXCEPT !.fences = op.a.fences]
  <2>1. o.fences = op.a.fences
    BY <1>0 DEF TypeOK, Ownership
  <2>2. WriteOwnership(o, "ok")
    BY <1>4 DEF PublishOwnership
  <2>. HIDE DEF o
  <2>. QED  BY <1>0, <2>1, <2>2, OwnQuiet
<1>5. CASE ClearOwnership
  <2>1. PICK t \in op.tgt :
          IF ~SafeToClear(t) THEN Check(FALSE, "clearA")
          ELSE /\ own' = [own EXCEPT !.fences = op.a.fences \ {t}]
               /\ op' = [op EXCEPT !.pc = "clearA", !.t = t, !.tgt = @ \ {t}]
               /\ UNCHANGED <<api, fs>>
    BY Zenon, <1>5 DEF ClearOwnership
  <2>2. CASE Check(FALSE, "clearA")
    BY Zenon, <1>0, <2>2, CheckQuiet
  <2>3. CASE /\ own' = [own EXCEPT !.fences = op.a.fences \ {t}]
             /\ op' = [op EXCEPT !.pc = "clearA", !.t = t, !.tgt = @ \ {t}]
             /\ UNCHANGED <<api, fs>>
    <3>1. op'.pc = "clearA" /\ op'.a = op.a
      BY <1>0, <2>3 DEF TypeOK, Handler
    <3>2. own'.fences = op.a.fences \ {t}
      BY <1>0, <2>3 DEF TypeOK, Ownership
    <3>. QED  BY <2>3, <3>1, <3>2 DEF Quiet, api
  <2>. QED  BY Zenon, <2>1, <2>2, <2>3
<1>6. CASE ClearAllocation
  <2>. DEFINE r == [Successor EXCEPT !.fences = @ \ {op.t}]
              q == IF op.tgt = {} THEN "ok" ELSE "clear"
  <2>1. r.fences \subseteq op.a.fences /\ q # "pubA"
    BY <1>0, SuccessorFields DEF Allocation
  <2>2. Update(r, q)
    BY <1>6 DEF ClearAllocation
  <2>. HIDE DEF r, q
  <2>. QED  BY <1>0, <2>1, <2>2, UpdateSent
<1>. QED  BY <1>1, <1>2, <1>3, <1>4, <1>5, <1>6 DEF PublishStep

LEMMA DeleteStepSent ==
  ASSUME FenceSafety, DeleteStep, ~Retired(op.a.state)
  PROVE  Quiet \/ \E next : Sent(next)
<1>0. /\ TypeOK /\ ReadInv /\ KnownInv
      /\ op.a.state \notin Kept \cup {"Deleting"}
  BY DEF FenceSafety, Retired
<1>1. CASE ResolveMissing
  <2>. DEFINE r == [NoAllocation EXCEPT !.kind = "unknown", !.rev = 1,
                      !.state = "Deleted"]
  <2>1. r.rev = 1 /\ r.fences = {}
    BY Zenon DEF NoAllocation
  <2>2. op.a.kind = "none" /\ ResumeDeletion(alloc) # "pubA"
    BY <1>0, <1>1 DEF ResolveMissing, ReadInv, ResumeDeletion
  <2>3. Check(FALSE, "ok") \/ CreateIfAbsent(r, "ok", ResumeDeletion(alloc))
    BY Zenon, <1>1 DEF ResolveMissing
  <2>. HIDE DEF r
  <2>4. CASE Check(FALSE, "ok")
    BY Zenon, <1>0, <2>4, CheckQuiet
  <2>5. CASE CreateIfAbsent(r, "ok", ResumeDeletion(alloc))
    BY <2>1, <2>2, <2>5, CreateSent
  <2>. QED  BY Zenon, <2>3, <2>4, <2>5
<1>2. CASE ReconcileDeletePair
  <2>1. \E ok : Check(ok, "inUse")
    BY Zenon, <1>0, <1>2 DEF ReconcileDeletePair
  <2>. QED  BY <1>0, <2>1, CheckQuiet
<1>3. CASE CheckAttachments
  BY <1>0, <1>3, CheckQuiet DEF CheckAttachments
<1>4. CASE ReconcileDeleteFenceUnion
  <2>. DEFINE q == CASE op.a.fences # {}       -> "fail"
                     [] op.a.fences = {} /\ op.a.state = "Ready" -> "prepA"
                     [] OTHER                  -> "dispose"
  <2>1. RestoreUnion(q)
    BY Zenon, <1>4 DEF ReconcileDeleteFenceUnion
  <2>2. q # "pubA"
    OBVIOUS
  <2>. HIDE DEF q
  <2>. QED  BY <1>0, <2>1, <2>2, RestoreUnionSent
<1>5. CASE PrepareDelete
  <2>1. PICK id \in IDs :
          Update([Successor EXCEPT !.state = "Deleting", !.del = id], "prepO")
    BY Zenon, <1>5 DEF PrepareDelete
  <2>. DEFINE r == [Successor EXCEPT !.state = "Deleting", !.del = id]
  <2>2. r.fences = op.a.fences
    BY Zenon, <1>0, SuccessorFields DEF Allocation
  <2>3. Update(r, "prepO")
    BY Zenon, <2>1
  <2>. HIDE DEF r
  <2>. QED  BY <1>0, <2>2, <2>3, UpdateSent
<1>6. CASE op.pc \in RetiredPCs
  BY <1>0, <1>6 DEF ReadInv
<1>. QED  BY Zenon, <1>1, <1>2, <1>3, <1>4, <1>5, <1>6
     DEF DeleteStep, RetiredPCs, MirrorPrepared, PrepareDisposition,
         SyncDisposition, CompleteArchiveOrRetain, MirrorTerminal,
         PersistRemoveStart, MirrorRemoveStart, RemoveQuarantine,
         SyncDeletedDirectory, CompleteDeleted, CompactOwnershipRecord,
         FinishDeletedPair

LEMMA GCStepSent ==
  ASSUME FenceSafety, GCStep, ~Retired(op.a.state)
  PROVE  Quiet
<1>0. TypeOK /\ ReadInv /\ op.a.state \notin Kept
  BY DEF FenceSafety, Retired
<1>1. CASE ReconcileExecutePair
  <2>1. \E ok : Check(ok, "unionA")
    BY Zenon, <1>0, <1>1 DEF ReconcileExecutePair
  <2>. QED  BY <1>0, <2>1, CheckQuiet
<1>2. CASE ReconcileExecuteFenceUnion
  BY Zenon, <1>0, <1>2 DEF ReconcileExecuteFenceUnion, RestoreUnion, ReadInv
<1>3. CASE op.pc \in RetiredPCs
  BY <1>0, <1>3 DEF ReadInv
<1>. QED  BY Zenon, <1>1, <1>2, <1>3
     DEF GCStep, RetiredPCs, SubmitRequest, FinishCollectedPair,
         ValidateMutationGates, PrepareGC, MirrorGCPrepared,
         PrepareQuarantine, SyncGCQuarantine, PersistGCRemoveStart,
         MirrorGCRemoveStart, RemoveGCQuarantine, CompactAllocation

-----------------------------------------------------------------------------
(* Requests, the reconciliation pass, faults and the environment.           *)

LEMMA BeginQuiet ==
  ASSUME NEW name, NEW q, NEW n, NEW b, Begin(name, q, n, b), q # "pubA"
  PROVE  Quiet
<1>1. op'.a = alloc /\ op'.pc = q
  BY DEF Begin, Idle
<1>2. UNCHANGED <<alloc, late, own>>
  BY DEF Begin, api
<1>. QED  BY <1>1, <1>2 DEF Quiet

LEMMA RequestQuiet ==
  ASSUME Request
  PROVE  Quiet
<1>1. CASE BeginCreate
  <2>. DEFINE q == IF alloc.kind = "none" THEN "reserve" ELSE ResumeCreation(alloc)
  <2>1. Begin("create", q, NoNode, FALSE)
    BY Zenon, <1>1 DEF BeginCreate
  <2>2. q # "pubA"
    BY DEF ResumeCreation
  <2>. HIDE DEF q
  <2>. QED  BY Zenon, <2>1, <2>2, BeginQuiet
<1>2. CASE BeginDelete
  <2>. DEFINE q == IF alloc.kind = "none" THEN "unknown" ELSE ResumeDeletion(alloc)
  <2>1. Begin("delete", q, NoNode, FALSE)
    BY Zenon, <1>2 DEF BeginDelete
  <2>2. q # "pubA"
    BY DEF ResumeDeletion
  <2>. HIDE DEF q
  <2>. QED  BY Zenon, <2>1, <2>2, BeginQuiet
<1>3. CASE BeginGC
  <2>1. ResumeGC(alloc) # "pubA"
    BY DEF ResumeGC
  <2>. QED  BY Zenon, <1>3, <2>1, BeginQuiet DEF BeginGC
<1>4. CASE BeginSubmit \/ BeginCompact
  BY Zenon, <1>4, BeginQuiet DEF BeginSubmit, BeginCompact
<1>5. ASSUME NEW n \in Nodes, BeginPublish(n) PROVE Quiet
  BY Zenon, <1>5, BeginQuiet DEF BeginPublish
<1>6. ASSUME NEW n \in MaybeNode, BeginUnpublish(n) PROVE Quiet
  <2>. DEFINE q == IF alloc.kind # "detailed" \/ alloc.state \in PreReady
                   THEN "ok" ELSE "unionA"
  <2>1. Begin("unpublish", q, n, FALSE)
    BY Zenon, <1>6 DEF BeginUnpublish
  <2>2. q # "pubA"
    OBVIOUS
  <2>. HIDE DEF q
  <2>. QED  BY Zenon, <2>1, <2>2, BeginQuiet
<1>. QED  BY Zenon, <1>1, <1>2, <1>3, <1>4, <1>5, <1>6 DEF Request

\* A handler that has returned, and a process that died, have read nothing.
LEMMA IdleQuiet ==
  ASSUME op' = Idle, UNCHANGED <<alloc, late, own>>
  PROVE  Quiet
BY DEF Idle, NoAllocation, Quiet

LEMMA ControllerQuiet ==
  ASSUME FenceSafety, SingleWriterInv, Controller
  PROVE  Quiet
<1>1. CASE Restart \/ ListAllocations
  <2>1. UNCHANGED <<alloc, late, own, op>>
    BY <1>1 DEF Restart, ListAllocations, api
  <2>. QED  BY <2>1 DEF Quiet, SingleWriterInv
<1>2. CASE BeginPass
  <2>1. PICK name : Begin(name, PassEntry, NoNode, TRUE)
    BY Zenon, <1>2 DEF BeginPass
  <2>2. PassEntry # "pubA"
    BY DEF PassEntry, ResumeCreation, ResumeDeletion, ResumeGC
  <2>. QED  BY Zenon, <2>1, <2>2, BeginQuiet
<1>3. CASE ReturnToPass \/ ReturnToCaller
  BY Zenon, <1>3, IdleQuiet DEF ReturnToPass, ReturnToCaller, api
<1>. QED  BY <1>1, <1>2, <1>3 DEF Controller

\* A write that lands makes the fences it carries the stored ones.
LEMMA LandLateKeeps ==
  ASSUME FenceSafety, SingleWriterInv, LandLate
  PROVE  SingleWriterInv'
<1>. SUFFICES ASSUME SingleWriter PROVE SingleWriterInv'
  BY DEF SingleWriterInv
<1>1. PICK w \in late :
        /\ late' = late \ {w}
        /\ alloc' = IF w.rev = alloc.rev + 1 THEN w ELSE alloc
        /\ UNCHANGED <<own, op>>
  BY DEF LandLate
<1>2. CASE w.rev # alloc.rev + 1
  BY <1>1, <1>2 DEF SingleWriterInv
<1>3. CASE w.rev = alloc.rev + 1
  <2>1. op.a.fences \subseteq alloc.fences
    BY <1>3, LiveSnapshot
  <2>2. AtMostOne(alloc'.fences \cup own'.fences \cup op'.a.fences)
    BY <1>1, <1>3, <2>1 DEF SingleWriterInv, AtMostOne
  <2>3. \A v \in late' : v.rev # alloc'.rev + 1
    <3>1. /\ alloc.rev \in Nat
          /\ \A v \in late : v.rev \in Nat /\ v.rev <= alloc.rev + 1
      BY DEF FenceSafety, TypeOK, Allocation, RecordInv
    <3>. QED  BY <1>1, <1>3, <3>1
  <2>. QED  BY <1>1, <2>2, <2>3 DEF SingleWriterInv
<1>. QED  BY <1>2, <1>3

LEMMA EnvironmentQuiet ==
  ASSUME FenceSafety, SingleWriterInv, Environment, ~LandLate
  PROVE  Quiet
<1>1. CASE Abort
  <2>1. op'.a = op.a /\ op'.pc = "fail"
    BY <1>1 DEF Abort, Goto, FenceSafety, TypeOK, Handler
  <2>. QED  BY <1>1, <2>1 DEF Abort, Quiet
<1>2. CASE Crash
  BY <1>2, IdleQuiet DEF Crash
<1>3. CASE UNCHANGED <<alloc, late, own, op>>
  BY <1>3 DEF Quiet, SingleWriterInv
<1>. QED  BY <1>1, <1>2, <1>3
     DEF Environment, CreateAttachment, DeleteAttachment,
         ForceDeleteAttachment, AuthorizeMount, NodeUnstage, LoseNode,
         ReturnNode, StopNode, BootNode, SetVA, api

-----------------------------------------------------------------------------
LEMMA InitWriter == Init => SingleWriterInv
BY DEF Init, SingleWriterInv, AtMostOne, NoAllocation, NoOwnership, Idle

LEMMA NextWriter ==
  ASSUME FenceSafety, FenceSafety', SingleWriterInv, [Next]_vars
  PROVE  SingleWriterInv'
<1>0. FenceSafety /\ SingleWriterInv
  OBVIOUS
<1>1. CASE Retired(alloc.state)
  BY <1>1, RetiredStays, RetiredKeeps
<1>2. CASE Step /\ ~Retired(alloc.state)
  <2>1. op.pc # "idle" => ~Retired(op.a.state)
    BY <1>2, StoredIsLater
  <2>2. op.pc = "idle" => ~Retired(op.a.state)
    BY DEF FenceSafety, ReadInv, Idle, NoAllocation, Retired, Kept
  <2>3. Quiet \/ \E next : Sent(next)
    BY Zenon, <1>0, <1>2, <2>1, <2>2, CreateStepSent, PublishStepSent,
       DeleteStepSent, GCStepSent DEF Step
  <2>. QED  BY Zenon, <1>0, <2>3, QuietKeeps, SentKeeps
<1>3. CASE Request
  BY <1>3, RequestQuiet, QuietKeeps
<1>4. CASE Controller
  BY <1>4, ControllerQuiet, QuietKeeps
<1>5. CASE Environment
  BY <1>5, LandLateKeeps, EnvironmentQuiet, QuietKeeps
<1>6. CASE UNCHANGED vars
  BY <1>6 DEF vars, SingleWriterInv
<1>. QED  BY <1>1, <1>2, <1>3, <1>4, <1>5, <1>6 DEF Next

\* At no time do two nodes have a SINGLE_NODE_WRITER volume mounted: the
\* conflict check of publish.go, made on the union of both records, holds
\* against every crash, retry and write that lands late.
THEOREM OneWriter == Spec => []SingleNodeWriter
<1>1. Init => SingleWriterInv
  BY InitWriter
<1>2. FenceSafety /\ FenceSafety' /\ SingleWriterInv /\ [Next]_vars
        => SingleWriterInv'
  BY NextWriter
<1>3. FenceSafety /\ SingleWriterInv => SingleNodeWriter
  BY DEF FenceSafety, MountInv, SingleWriterInv, AtMostOne, SingleNodeWriter
<1>. QED  BY <1>1, <1>2, <1>3, FenceSafetyInvariant, PTL DEF Spec
=============================================================================
