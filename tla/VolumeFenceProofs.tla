-------------------------- MODULE VolumeFenceProofs --------------------------
(***************************************************************************)
(* FenceSafety is preserved by the steps of create and publish. Globals is *)
(* what depends on the records and mounts only; ReadInv and KnownInv what  *)
(* depends on the handler's pc. Steps are classified by their shape first. *)
(***************************************************************************)
EXTENDS VolumeInvariant, VolumeTypeProofs

Globals == RecordInv /\ SnapshotInv /\ FenceInv /\ MountInv /\ TreeInv

\* The handler is at q, for the same caller and targets.
Moved(q) ==
  /\ op'.pc = q /\ op'.name = op.name /\ op'.n = op.n
  /\ op'.t = op.t /\ op'.tgt = op.tgt

-----------------------------------------------------------------------------
(* Facts about the operators the model is built from.                      *)

\* A permitted update never leads back before Ready, nor out of a deletion.
LEMMA UpdateFacts ==
  ASSUME NEW a \in Allocation, NEW w \in Allocation, AllowedUpdate(a, w),
         w.kind = "compact" => w.state = "Deleted"
  PROVE  /\ WellFormed(w)
         /\ a.kind = "detailed" /\ a.rev + 1 = w.rev
         /\ Early(w.state) => Early(a.state)
         /\ Retired(a.state) => Retired(w.state)
         /\ w.state = "Ready" => a.state \in PreReady \cup {"Ready"}
         /\ Early(a.state) => ~Retired(w.state)
<1>1. a.rev \in Nat /\ w.rev \in Nat /\ a.state \in States /\ w.state \in States
  BY DEF Allocation
<1>2. a.kind = "detailed" /\ w.rev = a.rev + 1 /\ w.kind # "none"
      /\ w.kind # "unknown"
  BY DEF AllowedUpdate
<1>3. CASE w.kind = "detailed"
  <2>1. ValidLifecycle(w) /\ AllowedTransition(a.state, w.state)
    BY <1>3 DEF AllowedUpdate
  <2>2. w.state # "none" /\ (w.state \in PreReady => w.fences = {})
    BY <2>1 DEF ValidLifecycle, PreReady, Kept
  <2>3. WellFormed(w)
    BY <1>1, <1>2, <1>3, <2>2 DEF WellFormed, Early
  <2>. QED  BY <1>1, <1>2, <2>1, <2>3
            DEF AllowedTransition, Early, Retired, PreReady, Kept
<1>4. CASE w.kind = "compact"
  <2>1. a.state = "Deleted" /\ w.state = "Deleted"
    BY <1>4 DEF AllowedUpdate
  <2>2. WellFormed(w)
    BY <1>1, <1>2, <1>4, <2>1 DEF WellFormed, Early, PreReady
  <2>. QED  BY <1>1, <1>2, <2>1, <2>2 DEF Early, Retired, PreReady, Kept
<1>. QED  BY <1>3, <1>4 DEF AllowedUpdate

\* Every state is before Ready, Ready, or past it, and only one of them.
LEMMA StateSplit ==
  ASSUME NEW s \in States
  PROVE  /\ Early(s) \/ s = "Ready" \/ Retired(s)
         /\ ~(Early(s) /\ Retired(s))
         /\ s = "Ready" => ~Early(s) /\ ~Retired(s)
BY DEF States, Early, Retired, PreReady, Kept

\* What the handler read is no further on than what is stored.
LEMMA StoredIsLater ==
  ASSUME FenceSafety, op.pc # "idle"
  PROVE  /\ op.a.kind # "none" /\ ~Early(op.a.state) => ~Early(alloc.state)
         /\ Retired(op.a.state) => Retired(alloc.state)
<1>1. /\ op.a \in Allocation /\ alloc \in Allocation
      /\ op.a.rev \in Nat /\ alloc.rev \in Nat
  BY DEF FenceSafety, TypeOK, Handler, Allocation
<1>2. CASE op.a.rev = alloc.rev
  BY <1>2 DEF FenceSafety, SnapshotInv
<1>3. CASE op.a.rev < alloc.rev /\ op.a.kind # "none"
  <2>1. AllowedUpdate(op.a, alloc)
    BY <1>3 DEF FenceSafety, SnapshotInv
  <2>2. alloc.kind = "compact" => alloc.state = "Deleted"
    BY DEF FenceSafety, RecordInv, WellFormed
  <2>. QED  BY <1>1, <2>1, <2>2, UpdateFacts
<1>4. CASE op.a.kind = "none"
  BY <1>4 DEF FenceSafety, RecordInv, WellFormed, NoAllocation, Retired, Kept
<1>. QED  BY <1>1, <1>2, <1>3, <1>4 DEF FenceSafety, SnapshotInv

\* A write that can land replaces the stored record: what that says.
LEMMA PendingFacts ==
  ASSUME FenceSafety, NEW w \in late, w.rev = alloc.rev + 1
  PROVE  /\ WellFormed(w)
         /\ Early(w.state) => Early(alloc.state)
         /\ Retired(alloc.state) => Retired(w.state)
         /\ alloc.kind # "none" => AllowedUpdate(alloc, w)
<1>1. w \in Allocation /\ alloc \in Allocation
  BY DEF FenceSafety, TypeOK
<1>2. WellFormed(w) /\ WellFormed(alloc) /\ Replaces(alloc, w)
  BY DEF FenceSafety, RecordInv
<1>3. CASE alloc.kind = "none"
  BY <1>2, <1>3 DEF WellFormed, Early, Retired, PreReady, Kept
<1>4. CASE alloc.kind # "none"
  <2>1. AllowedUpdate(alloc, w) /\ (w.kind = "compact" => w.state = "Deleted")
    BY <1>2, <1>4 DEF Replaces, WellFormed
  <2>. QED  BY <1>1, <1>2, <2>1, UpdateFacts
<1>. QED  BY <1>3, <1>4

\* Goto moves the handler and keeps the record it read.
LEMMA GotoFields ==
  ASSUME TypeOK, NEW q, Goto(q)
  PROVE  Moved(q) /\ op'.a = op.a
BY DEF TypeOK, Goto, Handler, Moved

-----------------------------------------------------------------------------
(* The shapes of a step, and what each preserves.                          *)

\* A handler that has ended knows nothing any more.
LEMMA DoneSafe ==
  ASSUME FenceSafety, op'.pc \in {"ok", "fail"}, op'.name = op.name,
         op'.n = op.n
  PROVE  ReadInv' /\ KnownInv'
BY DEF FenceSafety, ReadInv, KnownInv, RetiredPCs

\* A step that writes nothing durable.
LEMMA LocalSafe ==
  ASSUME FenceSafety, op.pc # "idle", op'.a = op.a, op'.name = op.name,
         op'.n = op.n, UNCHANGED <<alloc, late, own, data, intact, env>>
  PROVE  Globals'
<1>. UNCHANGED <<va, node, mounted>>
  BY DEF env
<1>1. RecordInv'
  BY DEF FenceSafety, RecordInv
<1>2. SnapshotInv'
  BY DEF FenceSafety, SnapshotInv
<1>3. FenceInv'
  BY DEF FenceSafety, FenceInv
<1>4. MountInv'
  BY DEF FenceSafety, MountInv
<1>5. TreeInv'
  BY DEF FenceSafety, TreeInv
<1>. QED  BY <1>1, <1>2, <1>3, <1>4, <1>5 DEF Globals

\* A check writes nothing; one that fails ends the handler.
LEMMA CheckSafe ==
  ASSUME FenceSafety, op.pc # "idle", NEW ok, NEW q, Check(ok, q),
         UNCHANGED env
  PROVE  /\ Globals' /\ op'.a = op.a
         /\ UNCHANGED <<alloc, late, own, data>>
         /\ Moved(IF ok THEN q ELSE "fail")
         /\ ~ok => ReadInv' /\ KnownInv'
<1>1. Moved(IF ok THEN q ELSE "fail") /\ op'.a = op.a
  BY GotoFields DEF Check, FenceSafety
<1>2. UNCHANGED <<alloc, late, own, data, intact>>
  BY DEF Check, api, fs
<1>3. Globals'
  BY <1>1, <1>2, LocalSafe DEF Moved
<1>4. ~ok => ReadInv' /\ KnownInv'
  BY <1>1, DoneSafe DEF Moved
<1>. QED  BY <1>1, <1>2, <1>3, <1>4

\* An ownership write that drops no mounted node's fence, and that fences a
\* node only where no deletion is recorded or in flight.
LEMMA OwnSafe ==
  ASSUME FenceSafety, op.pc # "idle", op'.a = op.a, op'.name = op.name,
         op'.n = op.n, UNCHANGED <<alloc, late, data, intact, env>>,
         own'.kind # "none",
         mounted \cap own.fences \subseteq own'.fences,
         \/ own'.fences \subseteq own.fences
         \/ /\ ~Early(op.a.state) /\ op.a.kind # "none"
            /\ own'.fences = op.a.fences
  PROVE  Globals'
<1>. UNCHANGED <<va, node, mounted>>
  BY DEF env
<1>1. RecordInv'
  BY DEF FenceSafety, RecordInv
<1>2. SnapshotInv'
  BY DEF FenceSafety, SnapshotInv
<1>3. FenceInv'
  <2>1. CASE own'.fences \subseteq own.fences
    BY <2>1 DEF FenceSafety, FenceInv
  <2>2. CASE /\ ~Early(op.a.state) /\ op.a.kind # "none"
             /\ own'.fences = op.a.fences
    <3>1. ~Early(alloc.state)
      BY <2>2, StoredIsLater
    <3>2. ASSUME NEW w \in late, w.rev = alloc.rev + 1, Retired(w.state)
          PROVE  op.a.fences = {}
      <4>1. alloc.fences = {}
        BY <3>2 DEF FenceSafety, FenceInv
      <4>2. op.a.rev = alloc.rev
        <5>1. op.a.rev \in Nat /\ alloc.rev \in Nat
          BY DEF FenceSafety, TypeOK, Handler, Allocation
        <5>. QED  BY <3>2, <5>1 DEF FenceSafety, SnapshotInv
      <4>. QED  BY <4>1, <4>2 DEF FenceSafety, SnapshotInv
    <3>. QED  BY <2>2, <3>1, <3>2 DEF FenceSafety, FenceInv
  <2>. QED  BY <2>1, <2>2
<1>4. MountInv'
  BY DEF FenceSafety, MountInv
<1>5. TreeInv'
  BY DEF FenceSafety, TreeInv
<1>. QED  BY <1>1, <1>2, <1>3, <1>4, <1>5 DEF Globals

\* A change of the tree: back to the source path, or under a deletion.
LEMMA TreeSafe ==
  ASSUME FenceSafety, op.pc # "idle", op'.a = op.a, op'.name = op.name,
         op'.n = op.n, UNCHANGED <<alloc, late, own, env>>,
         \/ data' = SourcePath /\ intact' = intact
         \/ data' = data /\ intact' = intact
         \/ Retired(op.a.state)
  PROVE  Globals'
<1>. UNCHANGED <<va, node, mounted>>
  BY DEF env
<1>1. RecordInv'
  BY DEF FenceSafety, RecordInv
<1>2. SnapshotInv'
  BY DEF FenceSafety, SnapshotInv
<1>3. FenceInv'
  BY DEF FenceSafety, FenceInv
<1>4. MountInv'
  BY DEF FenceSafety, MountInv
<1>5. TreeInv'
  <2>1. CASE data' \in {data, SourcePath} /\ intact' = intact
    BY <2>1 DEF FenceSafety, TreeInv
  <2>2. CASE Retired(op.a.state)
    <3>1. Retired(alloc.state)
      BY <2>2, StoredIsLater
    <3>2. \A w \in late : w.rev = alloc.rev + 1 => Retired(w.state)
      BY <3>1, PendingFacts
    <3>. QED  BY <3>1, <3>2 DEF TreeInv, Retired, Kept
  <2>. QED  BY <2>1, <2>2
<1>. QED  BY <1>1, <1>2, <1>3, <1>4, <1>5 DEF Globals

\* The facts of an update that does not drop a mounted node's fence, is clear
\* of fences when it records a deletion, and finds the tree when it is Ready.
GoodUpdate(next) ==
  /\ next \in Allocation
  /\ next.kind = "compact" => next.state = "Deleted"
  /\ Retired(next.state) =>
       next.fences = {} /\ op.a.fences = {} /\ own.fences = {}
  /\ \A n \in mounted : n \in op.a.fences => n \in next.fences \cup own.fences
  /\ next.state = "Ready" => op.a.state = "Ready" \/ data = SourcePath

\* The write is applied: the handler holds the stored record, alone.
LEMMA AppliedSafe ==
  ASSUME FenceSafety, op.pc # "idle", NEW next, GoodUpdate(next),
         AllowedUpdate(op.a, next), alloc.rev = op.a.rev, alloc' = next,
         op'.a = next, op'.name = op.name, op'.n = op.n,
         UNCHANGED <<late, own, data, intact, env>>
  PROVE  Globals' /\ \A w \in late' : w.rev <= alloc'.rev
<1>. UNCHANGED <<va, node, mounted>>
  BY DEF env
<1>1. op.a = alloc /\ alloc \in Allocation /\ next \in Allocation
      /\ alloc.rev \in Nat /\ alloc.state \in States /\ next.state \in States
  BY DEF FenceSafety, SnapshotInv, TypeOK, Allocation, GoodUpdate
<1>2. /\ WellFormed(next) /\ next.rev = alloc.rev + 1
      /\ Early(next.state) => Early(alloc.state)
      /\ Retired(alloc.state) => Retired(next.state)
      /\ next.state = "Ready" => alloc.state \in PreReady \cup {"Ready"}
  BY <1>1, UpdateFacts DEF GoodUpdate
<1>3. \A w \in late : w.rev \in Nat /\ w.rev >= 1 /\ w.rev <= alloc.rev + 1
                      /\ WellFormed(w)
  BY DEF FenceSafety, TypeOK, Allocation, RecordInv
<1>4. \A w \in late' : w.rev <= alloc'.rev /\ w.rev # alloc'.rev + 1
                       /\ w.rev <= alloc'.rev + 1
  BY <1>1, <1>2, <1>3
<1>5. RecordInv'
  BY <1>1, <1>2, <1>3, <1>4 DEF FenceSafety, RecordInv
<1>6. SnapshotInv'
  BY <1>1, <1>2 DEF SnapshotInv
<1>7. FenceInv'
  <2>1. Retired(next.state) => next.fences = {} /\ own.fences = {}
    BY DEF GoodUpdate
  <2>2. Early(next.state) => own.fences = {}
    BY <1>2 DEF FenceSafety, FenceInv
  <2>. QED  BY <1>4, <2>1, <2>2 DEF FenceInv
<1>8. MountInv'
  <2>1. mounted \subseteq next.fences \cup own.fences
    BY <1>1 DEF FenceSafety, MountInv, GoodUpdate
  <2>. QED  BY <1>4, <2>1 DEF FenceSafety, MountInv
<1>9. TreeInv'
  <2>1. next.state = "Ready" => data = SourcePath
    BY <1>1 DEF FenceSafety, TreeInv, GoodUpdate
  <2>2. ~Retired(next.state) => intact
    BY <1>2 DEF FenceSafety, TreeInv
  <2>. QED  BY <1>4, <2>1, <2>2 DEF TreeInv
<1>. QED  BY <1>4, <1>5, <1>6, <1>7, <1>8, <1>9 DEF Globals

\* The answer is lost: the write stays in flight and the handler has failed.
LEMMA LostSafe ==
  ASSUME FenceSafety, op.pc # "idle", NEW next, GoodUpdate(next),
         AllowedUpdate(op.a, next), late' = late \cup {next},
         op'.a = op.a, op'.name = op.name, op'.n = op.n,
         UNCHANGED <<alloc, own, data, intact, env>>
  PROVE  Globals'
<1>. UNCHANGED <<va, node, mounted>>
  BY DEF env
<1>1. /\ op.a \in Allocation /\ alloc \in Allocation /\ next \in Allocation
      /\ op.a.rev \in Nat /\ alloc.rev \in Nat
  BY DEF FenceSafety, TypeOK, Handler, Allocation, GoodUpdate
<1>2. /\ WellFormed(next) /\ next.rev = op.a.rev + 1
      /\ op.a.kind = "detailed"
  BY <1>1, UpdateFacts DEF GoodUpdate
<1>3. /\ next.rev >= 1 /\ next.rev <= alloc.rev + 1
      /\ next.rev = alloc.rev + 1 => op.a = alloc
      /\ op.a.rev < alloc.rev => next.rev <= alloc.rev
  <2>1. op.a.rev <= alloc.rev /\ (op.a.rev = alloc.rev => op.a = alloc)
    BY DEF FenceSafety, SnapshotInv
  <2>. QED  BY <1>1, <1>2, <2>1
<1>4. RecordInv'
  <2>1. next.rev = alloc.rev + 1 => Replaces(alloc, next)
    BY <1>2, <1>3 DEF Replaces
  <2>. QED  BY <1>2, <1>3, <2>1 DEF FenceSafety, RecordInv
<1>5. SnapshotInv'
  BY <1>3 DEF FenceSafety, SnapshotInv
<1>6. FenceInv'
  <2>1. next.rev = alloc.rev + 1 /\ Retired(next.state) =>
          next.fences = {} /\ alloc.fences = {} /\ own.fences = {}
    BY <1>3 DEF GoodUpdate
  <2>. QED  BY <2>1 DEF FenceSafety, FenceInv
<1>7. MountInv'
  <2>1. next.rev = alloc.rev + 1 => mounted \subseteq next.fences \cup own.fences
    BY <1>3 DEF FenceSafety, MountInv, GoodUpdate
  <2>. QED  BY <2>1 DEF FenceSafety, MountInv
<1>8. TreeInv'
  <2>1. next.rev = alloc.rev + 1 /\ next.state = "Ready" => data = SourcePath
    BY <1>3 DEF FenceSafety, TreeInv, GoodUpdate
  <2>. QED  BY <2>1 DEF FenceSafety, TreeInv
<1>. QED  BY <1>4, <1>5, <1>6, <1>7, <1>8 DEF Globals

Preserved == Globals' /\ ReadInv' /\ KnownInv'

\* AllocationStore.Update: refused, applied, or its answer lost.
LEMMA UpdateSafe ==
  ASSUME FenceSafety, op.pc # "idle", NEW next, NEW q, GoodUpdate(next),
         Update(next, q), UNCHANGED env
  PROVE  \/ Preserved
         \/ /\ Globals' /\ UNCHANGED <<own, data, mounted>>
            /\ Moved(q) /\ op'.a = next /\ alloc' = next
            /\ AllowedUpdate(op.a, next)
            /\ \A w \in late' : w.rev <= alloc'.rev
<1>0. TypeOK
  BY DEF FenceSafety
<1>1. CASE ~AllowedUpdate(op.a, next)
  <2>1. Check(FALSE, q)
    BY Zenon, <1>1 DEF Update
  <2>. QED  BY Zenon, <2>1, CheckSafe DEF Preserved
<1>2. CASE AllowedUpdate(op.a, next)
  <2>1. CompareAndSwap(next, q)
    BY <1>2 DEF Update
  <2>2. UNCHANGED <<own, data, intact, mounted>>
    BY <2>1 DEF CompareAndSwap, fs, env
  <2>3. CASE /\ alloc.rev = op.a.rev /\ alloc' = next
             /\ op' = [op EXCEPT !.a = next, !.pc = q]
             /\ UNCHANGED <<late, faults>>
    <3>1. Moved(q) /\ op'.a = next
      BY <1>0, <2>3 DEF TypeOK, Handler, Moved
    <3>. QED  BY <1>2, <2>2, <2>3, <3>1, AppliedSafe DEF Moved
  <2>4. CASE Goto("fail") /\ UNCHANGED api
    <3>1. Moved("fail") /\ op'.a = op.a
      BY <1>0, <2>4, GotoFields
    <3>. QED  BY <2>2, <2>4, <3>1, LocalSafe, DoneSafe
              DEF Moved, Preserved, api
  <2>5. CASE late' = late \cup {next} /\ Goto("fail") /\ alloc' = alloc
    <3>1. Moved("fail") /\ op'.a = op.a
      BY <1>0, <2>5, GotoFields
    <3>. QED  BY <1>2, <2>2, <2>5, <3>1, LostSafe, DoneSafe
              DEF Moved, Preserved
  <2>. QED  BY <2>1, <2>3, <2>4, <2>5 DEF CompareAndSwap
<1>. QED  BY <1>1, <1>2

\* UpdateDetailed and Compact of a record that fences the same nodes or none.
LEMMA WriteOwnershipSafe ==
  ASSUME FenceSafety, op.pc # "idle", NEW o, NEW q, WriteOwnership(o, q),
         UNCHANGED env,
         mounted \cap own.fences \subseteq o.fences,
         \/ o.fences \subseteq own.fences
         \/ /\ ~Early(op.a.state) /\ op.a.kind # "none"
            /\ o.fences = op.a.fences
  PROVE  \/ Preserved
         \/ /\ Globals' /\ UNCHANGED <<alloc, late, data, mounted>>
            /\ Moved(q) /\ op'.a = op.a /\ own' = o
<1>0. TypeOK
  BY DEF FenceSafety
<1>1. CASE Check(FALSE, q)
  BY Zenon, <1>1, CheckSafe DEF Preserved
<1>2. CASE InstallOwnership(o, q) /\ (o = own \/ AllowedOwnershipUpdate(own, o))
  <2>1. Moved(q) /\ op'.a = op.a
    BY <1>0, <1>2, GotoFields DEF InstallOwnership
  <2>2. own' = o /\ UNCHANGED <<alloc, late, data, intact, mounted>>
    BY <1>2 DEF InstallOwnership, api, fs, env
  <2>3. CASE o = own
    BY <2>1, <2>2, <2>3, LocalSafe DEF Moved
  <2>4. CASE AllowedOwnershipUpdate(own, o)
    <3>1. own'.kind # "none"
      BY <2>2, <2>4 DEF AllowedOwnershipUpdate
    <3>. QED  BY <2>1, <2>2, <3>1, OwnSafe DEF Moved
  <2>. QED  BY <1>2, <2>3, <2>4
<1>. QED  BY Zenon, <1>1, <1>2 DEF WriteOwnership

\* An absent ConfigMap counts as revision 0.
LEMMA AbsentRevision == NoAllocation.rev = 0
  BY DEF NoAllocation

\* AllocationStore.Create of a first record.
LEMMA CreateSafe ==
  ASSUME FenceSafety, op.pc # "idle", NEW r \in Allocation, NEW q, NEW e,
         op.a.kind = "none", r.kind \in {"detailed", "unknown"}, r.rev = 1,
         r.fences = {}, r.state \in {"Reserved", "Deleted"},
         r.kind = "unknown" => r.state = "Deleted",
         CreateIfAbsent(r, q, e), UNCHANGED env
  PROVE  \/ Preserved
         \/ Globals' /\ Moved(q) /\ op'.a = r /\ UNCHANGED <<own, data>>
         \/ Globals' /\ Moved(e) /\ op'.a = alloc /\ alloc.kind # "none"
            /\ UNCHANGED <<own, data>>
<1>0. TypeOK
  BY DEF FenceSafety
<1>. UNCHANGED <<va, node, mounted>>
  BY DEF env
<1>1. UNCHANGED <<own, data, intact>>
  BY DEF CreateIfAbsent, fs
<1>2. /\ alloc \in Allocation /\ alloc.rev \in Nat /\ WellFormed(alloc)
      /\ WellFormed(r) /\ op.a = NoAllocation
      /\ \A w \in late : w.rev \in Nat /\ w.rev >= 1
                         /\ w.rev <= alloc.rev + 1 /\ WellFormed(w)
  <2>1. alloc \in Allocation /\ alloc.rev \in Nat /\ late \subseteq Allocation
    BY <1>0 DEF TypeOK, Allocation
  <2>2. /\ WellFormed(alloc) /\ WellFormed(op.a)
        /\ \A w \in late : /\ w.rev >= 1 /\ w.rev <= alloc.rev + 1
                           /\ WellFormed(w)
    BY DEF FenceSafety, RecordInv
  <2>3. \A w \in late : w.rev \in Nat
    BY <2>1 DEF Allocation
  <2>4. op.a = NoAllocation
    BY <2>2 DEF WellFormed
  <2>5. WellFormed(r)
    BY DEF WellFormed, Early, PreReady
  <2>. QED  BY <2>1, <2>2, <2>3, <2>4, <2>5
<1>3. alloc.kind = "none" =>
        /\ alloc.rev = 0 /\ alloc.fences = {} /\ own.fences = {}
        /\ mounted = {}
  BY <1>2 DEF FenceSafety, FenceInv, MountInv, WellFormed, Early, NoAllocation
<1>4. CASE /\ alloc.kind = "none" /\ alloc' = r
           /\ op' = [op EXCEPT !.a = r, !.pc = q] /\ UNCHANGED <<late, faults>>
  <2>1. Moved(q) /\ op'.a = r
    BY <1>0, <1>4 DEF TypeOK, Handler, Moved
  <2>2. \A w \in late' : w.rev # alloc'.rev + 1 /\ w.rev <= alloc'.rev + 1
    BY <1>2, <1>3, <1>4
  <2>3. RecordInv'
    BY <1>1, <1>2, <1>4, <2>1, <2>2 DEF FenceSafety, RecordInv
  <2>4. SnapshotInv'
    BY <1>4, <2>1 DEF SnapshotInv
  <2>5. FenceInv'
    BY <1>1, <1>3, <1>4, <2>1, <2>2 DEF FenceInv
  <2>6. MountInv'
    BY <1>1, <1>3, <1>4, <2>1, <2>2 DEF FenceSafety, MountInv, Moved
  <2>7. TreeInv'
    <3>1. intact
      BY <1>2, <1>4 DEF FenceSafety, TreeInv, WellFormed, Retired, Kept
    <3>. QED  BY <1>1, <1>4, <2>2, <3>1 DEF TreeInv
  <2>. QED  BY <1>1, <2>1, <2>3, <2>4, <2>5, <2>6, <2>7 DEF Globals
<1>5. CASE /\ alloc.kind # "none" /\ op' = [op EXCEPT !.a = alloc, !.pc = e]
           /\ UNCHANGED api
  <2>1. Moved(e) /\ op'.a = alloc /\ UNCHANGED <<alloc, late>>
    BY <1>0, <1>5 DEF TypeOK, Handler, Moved, api
  <2>2. RecordInv'
    BY <1>1, <2>1 DEF FenceSafety, RecordInv
  <2>a. SnapshotInv'
    BY <1>2, <2>1 DEF SnapshotInv
  <2>b. FenceInv'
    BY <1>1, <2>1 DEF FenceSafety, FenceInv
  <2>3. MountInv' /\ TreeInv'
    BY <1>1, <2>1 DEF FenceSafety, MountInv, TreeInv, Moved
  <2>. QED  BY <1>1, <1>5, <2>1, <2>2, <2>a, <2>b, <2>3 DEF Globals
<1>6. CASE late' = late \cup {r} /\ Goto("fail") /\ alloc' = alloc
  <2>1. Moved("fail") /\ op'.a = op.a
    BY <1>0, <1>6, GotoFields
  <2>2. r.rev >= 1 /\ r.rev <= alloc.rev + 1
        /\ (r.rev = alloc.rev + 1 => alloc.kind = "none" /\ Replaces(alloc, r))
        /\ (op.a.rev < alloc.rev => r.rev <= alloc.rev)
    <3>1. op.a.rev = 0
      <4>1. op.a = NoAllocation
        BY Zenon, <1>2, Zenon
      <4>. QED  BY Zenon, <4>1, AbsentRevision, Zenon
    <3>2. alloc.rev \in Nat /\ (alloc.rev = 0 => alloc.kind = "none")
      BY <1>2 DEF WellFormed
    <3>3. alloc.kind = "none" => Replaces(alloc, r)
      BY DEF Replaces
    <3>4. CASE alloc.rev = 0
      BY <3>1, <3>2, <3>3, <3>4
    <3>5. CASE alloc.rev # 0
      <4>1. /\ 1 <= alloc.rev /\ 1 <= alloc.rev + 1
            /\ 1 # alloc.rev + 1
        BY <3>2, <3>5
      <4>. QED  BY <4>1
    <3>. QED  BY <3>4, <3>5
  <2>3. RecordInv'
    BY <1>1, <1>2, <1>6, <2>1, <2>2 DEF FenceSafety, RecordInv
  <2>4. SnapshotInv'
    BY <1>6, <2>1, <2>2 DEF FenceSafety, SnapshotInv
  <2>5. FenceInv'
    BY <1>1, <1>3, <1>6, <2>1, <2>2 DEF FenceSafety, FenceInv
  <2>6. MountInv'
    BY <1>1, <1>3, <1>6, <2>1, <2>2 DEF FenceSafety, MountInv, Moved
  <2>7. TreeInv'
    BY <1>1, <1>6, <2>1, <2>2 DEF FenceSafety, TreeInv
  <2>. QED  BY <2>1, <2>3, <2>4, <2>5, <2>6, <2>7, DoneSafe
            DEF Globals, Preserved, Moved
<1>. QED  BY <1>4, <1>5, <1>6 DEF CreateIfAbsent

-----------------------------------------------------------------------------
(* One step per action.                                                    *)

\* The fields of the record that a handler writes next.
LEMMA SuccessorFields ==
  ASSUME TypeOK
  PROVE  /\ Successor \in Allocation /\ op.a \in Allocation
         /\ Successor.kind = op.a.kind /\ Successor.state = op.a.state
         /\ Successor.fences = op.a.fences
         /\ op.a.state \in States /\ op.a.fences \subseteq Nodes
         /\ own.fences \subseteq Nodes
BY SuccessorType DEF TypeOK, Handler, Allocation, Ownership, Successor

\* An update is only ever made of a detailed record.
LEMMA RefusedUpdateSafe ==
  ASSUME FenceSafety, op.pc # "idle", NEW next, NEW q, Update(next, q),
         UNCHANGED env, op.a.kind # "detailed"
  PROVE  Preserved
<1>1. Check(FALSE, q)
  BY Zenon DEF Update, AllowedUpdate
<1>. QED  BY Zenon, <1>1, CheckSafe DEF Preserved

\* The steps of CreateVolume keep the invariant.
LEMMA CreateStepSafe ==
  ASSUME FenceSafety, CreateStep, UNCHANGED env
  PROVE  Preserved
<1>0. TypeOK /\ ReadInv /\ KnownInv
  BY DEF FenceSafety
<1>1. CASE PersistReservation
  <2>1. PICK p \in Policies :
          CreateIfAbsent([NoAllocation EXCEPT !.kind = "detailed", !.rev = 1,
                            !.state = "Reserved", !.policy = p],
                         "creating", ResumeCreation(alloc))
    BY Zenon, <1>1 DEF PersistReservation
  <2>. DEFINE r == [NoAllocation EXCEPT !.kind = "detailed", !.rev = 1,
                      !.state = "Reserved", !.policy = p]
  <2>2. /\ r \in Allocation /\ r.kind = "detailed" /\ r.rev = 1
        /\ r.fences = {} /\ r.state = "Reserved"
    BY Zenon DEF NoAllocation, Allocation, MaybeID, States, PreReady
  <2>3. op.pc = "reserve" /\ op.a.kind = "none"
    BY <1>0, <1>1 DEF PersistReservation, ReadInv
  <2>. HIDE DEF r
  <2>4. \/ Preserved
        \/ Globals' /\ Moved("creating") /\ op'.a = r
        \/ Globals' /\ Moved(ResumeCreation(alloc)) /\ op'.a = alloc
    BY Zenon, <2>1, <2>2, <2>3, CreateSafe DEF r
  <2>5. CASE Globals' /\ Moved("creating") /\ op'.a = r
    <3>1. ReadInv'
      BY <1>0, <2>2, <2>5 DEF ReadInv, Moved, PreReady, RetiredPCs
    <3>2. KnownInv'
      BY <2>5 DEF KnownInv, Moved
    <3>. QED  BY <2>5, <3>1, <3>2 DEF Preserved
  <2>6. CASE Globals' /\ Moved(ResumeCreation(alloc)) /\ op'.a = alloc
    <3>1. \/ op'.pc \in {"creating", "ensure"} /\ op'.a.state \in PreReady
          \/ op'.pc \in {"ok", "fail"}
      BY <2>6 DEF ResumeCreation, Moved, PreReady
    <3>2. ReadInv' /\ KnownInv'
      BY Zenon, <1>0, <2>6, <3>1 DEF ReadInv, KnownInv, Moved, RetiredPCs
    <3>. QED  BY <2>6, <3>2 DEF Preserved
  <2>. QED  BY <2>4, <2>5, <2>6
<1>2. CASE AdvanceCreating
  <2>. DEFINE r == [Successor EXCEPT !.state = "CreatingDirectory"]
  <2>1. /\ r \in Allocation /\ r.kind = op.a.kind
        /\ r.fences = op.a.fences /\ r.state = "CreatingDirectory"
    BY <1>0, SuccessorFields DEF Allocation, States, PreReady
  <2>. HIDE DEF r
  <2>2. op.pc = "creating" /\ Update(r, "ensure")
    BY <1>2 DEF AdvanceCreating, r
  <2>3. CASE op.a.kind = "detailed"
    <3>1. GoodUpdate(r)
      BY <2>1, <2>3 DEF GoodUpdate, Retired, Kept
    <3>2. \/ Preserved
          \/ Globals' /\ Moved("ensure") /\ op'.a = r
      BY Zenon, <2>2, <3>1, UpdateSafe
    <3>3. CASE Globals' /\ Moved("ensure") /\ op'.a = r
      BY Zenon, <1>0, <2>1, <3>3
      DEF Preserved, ReadInv, KnownInv, Moved, RetiredPCs, PreReady
    <3>. QED  BY <3>2, <3>3
  <2>. QED  BY <2>2, <2>3, RefusedUpdateSafe
<1>3. CASE EnsureCreated
  <2>0. op.pc = "ensure" /\ op.a.state \in PreReady
    BY Zenon, <1>0, <1>3 DEF EnsureCreated, ReadInv
  <2>1. CASE own.kind # "none"
    <3>. DEFINE ok == DetailedPair(op.a, own, "Ready") /\ data = SourcePath
    <3>1. Check(ok, "ready")
      BY <1>3, <2>1 DEF EnsureCreated
    <3>2. ok => data = SourcePath
      OBVIOUS
    <3>. HIDE DEF ok
    <3>3. CASE ok
      <4>1. Globals' /\ Moved("ready") /\ op'.a = op.a /\ data' = data
        BY Zenon, <2>0, <3>1, <3>3, CheckSafe
      <4>. QED  BY Zenon, <1>0, <2>0, <3>2, <3>3, <4>1
                DEF Preserved, ReadInv, KnownInv, Moved, RetiredPCs
    <3>4. CASE ~ok
      <4>1. Globals' /\ ReadInv' /\ KnownInv'
        BY <2>0, <3>1, <3>4, CheckSafe
      <4>. QED  BY <4>1 DEF Preserved
    <3>. QED  BY <3>3, <3>4
  <2>2. CASE own.kind = "none" /\ data \notin {Absent, SourcePath}
    <3>1. Check(FALSE, "ready")
      BY Zenon, <1>3, <2>2 DEF EnsureCreated
    <3>. QED  BY Zenon, <2>0, <3>1, CheckSafe DEF Preserved
  <2>3. CASE own.kind = "none" /\ data \in {Absent, SourcePath}
    <3>1. /\ data' = SourcePath /\ Goto("mkdirSync")
          /\ UNCHANGED <<alloc, late, own, intact>>
      BY <1>3, <2>3 DEF EnsureCreated, api
    <3>2. Moved("mkdirSync") /\ op'.a = op.a
      BY <1>0, <3>1, GotoFields
    <3>3. Globals'
      BY <2>0, <3>1, <3>2, TreeSafe DEF Moved
    <3>4. own.fences = {}
      <4>1. own = NoOwnership
        BY <2>3 DEF FenceSafety, RecordInv
      <4>. QED  BY <4>1 DEF NoOwnership
    <3>. QED  BY Zenon, <1>0, <2>0, <3>1, <3>2, <3>3, <3>4
              DEF Preserved, ReadInv, KnownInv, Moved, RetiredPCs
  <2>. QED  BY <2>1, <2>2, <2>3
<1>4. CASE SyncLogicalDirectory
  <2>0. /\ op.pc = "mkdirSync" /\ op.a.state \in PreReady
        /\ own.fences = {} /\ data = SourcePath
    BY Zenon, <1>0, <1>4 DEF SyncLogicalDirectory, ReadInv, KnownInv
  <2>1. Goto("createOwn") /\ UNCHANGED <<alloc, late, own, data, intact>>
    BY <1>4 DEF SyncLogicalDirectory, api
  <2>2. Moved("createOwn") /\ op'.a = op.a
    BY <1>0, <2>1, GotoFields
  <2>3. Globals'
    BY <2>0, <2>1, <2>2, LocalSafe DEF Moved
  <2>. QED  BY Zenon, <1>0, <2>0, <2>1, <2>2, <2>3
            DEF Preserved, ReadInv, KnownInv, Moved, RetiredPCs
<1>5. CASE CreateOwnership
  <2>0. /\ op.pc = "createOwn" /\ op.a.state \in PreReady
        /\ own.fences = {} /\ data = SourcePath /\ op.a.fences = {}
    BY <1>0, <1>5 DEF CreateOwnership, ReadInv, KnownInv, FenceSafety,
                      RecordInv, WellFormed, Early
  <2>1. /\ own' = [NoOwnership EXCEPT !.kind = "detailed", !.state = "Ready",
                     !.fences = op.a.fences, !.policy = op.a.policy]
        /\ Goto("ready") /\ UNCHANGED <<alloc, late, data, intact>>
    BY <1>5 DEF CreateOwnership, InstallOwnership, api, fs
  <2>2. own'.kind = "detailed" /\ own'.fences = {}
    BY <2>0, <2>1 DEF NoOwnership
  <2>3. Moved("ready") /\ op'.a = op.a
    BY <1>0, <2>1, GotoFields
  <2>4. Globals'
    BY <2>0, <2>1, <2>2, <2>3, OwnSafe DEF Moved
  <2>. QED  BY <1>0, <2>0, <2>1, <2>3, <2>4
            DEF Preserved, ReadInv, KnownInv, Moved, RetiredPCs
<1>6. CASE AdvanceReady
  <2>. DEFINE r == [Successor EXCEPT !.state = "Ready"]
  <2>1. /\ r \in Allocation /\ r.kind = op.a.kind
        /\ r.fences = op.a.fences /\ r.state = "Ready"
    BY <1>0, SuccessorFields DEF Allocation, States
  <2>. HIDE DEF r
  <2>2. op.pc = "ready" /\ Update(r, "ok") /\ data = SourcePath
    BY <1>0, <1>6 DEF AdvanceReady, KnownInv, r
  <2>3. CASE op.a.kind = "detailed"
    <3>1. GoodUpdate(r)
      BY <2>1, <2>2, <2>3 DEF GoodUpdate, Retired, Kept
    <3>. QED  BY <2>2, <3>1, UpdateSafe, DoneSafe DEF Preserved, Moved
  <2>. QED  BY <2>2, <2>3, RefusedUpdateSafe
<1>. QED  BY <1>1, <1>2, <1>3, <1>4, <1>5, <1>6 DEF CreateStep

\* Restoring the fence union keeps the invariant, and once it is done both
\* records fence the same nodes.
LEMMA RestoreUnionSafe ==
  ASSUME FenceSafety, NEW q, RestoreUnion(q), UNCHANGED env,
         own.kind # "none"
  PROVE  \/ Preserved
         \/ /\ op.pc = "unionO" /\ Globals'
            /\ op'.pc = q /\ op'.name = op.name /\ op'.n = op.n
            /\ op'.a = op.a /\ own'.fences = op.a.fences
            /\ own'.kind = own.kind
            /\ op'.tgt = IF op.name = "unpublish" THEN UnpublishTargets ELSE {}
            /\ UNCHANGED <<alloc, late, data, mounted>>
<1>0. TypeOK /\ ReadInv /\ KnownInv /\ FenceInv
  BY DEF FenceSafety
<1>1. CASE op.pc = "unionA" /\ Union = op.a.fences /\ Check(TRUE, "unionO")
  <2>1. /\ Globals' /\ Moved("unionO") /\ op'.a = op.a
        /\ own' = own
    BY Zenon, <1>1, CheckSafe
  <2>2. own.fences \subseteq op.a.fences
    BY <1>1 DEF Union
  <2>. QED  BY Zenon, <1>0, <1>1, <2>1, <2>2
            DEF Preserved, ReadInv, KnownInv, Moved, RetiredPCs
<1>2. CASE /\ op.pc = "unionA"
           /\ Update([Successor EXCEPT !.fences = Union], "unionO")
  <2>. DEFINE r == [Successor EXCEPT !.fences = Union]
  <2>1. /\ r \in Allocation /\ r.kind = op.a.kind
        /\ r.fences = op.a.fences \cup own.fences /\ r.state = op.a.state
    BY <1>0, SuccessorFields DEF Allocation, Union
  <2>. HIDE DEF r
  <2>2. Update(r, "unionO")
    BY <1>2 DEF r
  <2>3. CASE op.a.kind = "detailed"
    <3>1. GoodUpdate(r)
      BY Zenon, <1>0, <2>1, <2>3 DEF GoodUpdate, FenceInv
    <3>2. \/ Preserved
          \/ Globals' /\ Moved("unionO") /\ op'.a = r /\ own' = own
      BY <1>2, <2>2, <3>1, UpdateSafe
    <3>3. CASE Globals' /\ Moved("unionO") /\ op'.a = r /\ own' = own
      BY <1>0, <1>2, <2>1, <3>3
      DEF Preserved, ReadInv, KnownInv, Moved, RetiredPCs
    <3>. QED  BY <3>2, <3>3
  <2>. QED  BY <1>2, <2>2, <2>3, RefusedUpdateSafe
<1>3. CASE /\ op.pc = "unionO"
           /\ own' = [own EXCEPT !.fences = op.a.fences]
           /\ op' = [op EXCEPT !.pc = q,
                               !.tgt = IF op.name = "unpublish"
                                       THEN UnpublishTargets ELSE {}]
           /\ UNCHANGED <<api, fs>>
  <2>1. /\ op'.pc = q /\ op'.name = op.name /\ op'.n = op.n
        /\ op'.a = op.a
        /\ op'.tgt = IF op.name = "unpublish" THEN UnpublishTargets ELSE {}
    BY <1>0, <1>3 DEF TypeOK, Handler
  <2>2. own'.fences = op.a.fences /\ own'.kind = own.kind
    BY <1>0, <1>3 DEF TypeOK, Ownership
  <2>3. UNCHANGED <<alloc, late, data, intact, mounted>>
    BY <1>3 DEF api, fs, env
  <2>4. ~Early(op.a.state) /\ own.fences \subseteq op.a.fences
    BY <1>0, <1>3 DEF ReadInv, KnownInv
  <2>5. op.a.kind # "none"
    BY Zenon, <2>4 DEF FenceSafety, RecordInv, WellFormed, Early
  <2>6. Globals'
    BY <1>3, <2>1, <2>2, <2>3, <2>4, <2>5, OwnSafe
  <2>. QED  BY <1>3, <2>1, <2>2, <2>3, <2>6
<1>. QED  BY Zenon, <1>1, <1>2, <1>3 DEF RestoreUnion

\* The steps of ControllerPublish and ControllerUnpublish keep the invariant:
\* a fence goes in before the node may mount and out when it cannot.
LEMMA PublishStepSafe ==
  ASSUME FenceSafety, PublishStep, UNCHANGED env
  PROVE  Preserved
<1>0. TypeOK /\ ReadInv /\ KnownInv /\ FenceInv /\ MountInv
  BY DEF FenceSafety
<1>. USE DEF RetiredPCs
<1>1. CASE ReconcileFenceUnion
  <2>0. op.pc \in {"unionA", "unionO"} /\ ~Early(op.a.state)
        /\ op.name \in {"publish", "unpublish", "fences"}
    BY <1>0, <1>1 DEF ReconcileFenceUnion, ReadInv
  <2>1. CASE ~IdentityPair(op.a, own, op.a.state)
    <3>1. Check(FALSE, "unionO")
      BY Zenon, <1>1, <2>1 DEF ReconcileFenceUnion
    <3>. QED  BY Zenon, <2>0, <3>1, CheckSafe DEF Preserved
  <2>2. CASE IdentityPair(op.a, own, op.a.state)
    <3>1. own.kind = "detailed"
      BY <2>2 DEF IdentityPair
    <3>2. PICK q : /\ RestoreUnion(q)
                   /\ op.name = "publish" => q = "attach"
                   /\ op.name = "unpublish" => q \in {"ok", "clear"}
                   /\ op.name = "fences" => q = "ok"
      BY <1>1, <2>2 DEF ReconcileFenceUnion
    <3>3. CASE /\ op.pc = "unionO" /\ Globals'
               /\ op'.pc = q /\ op'.name = op.name /\ op'.n = op.n
               /\ op'.a = op.a /\ own'.fences = op.a.fences
               /\ own'.kind = own.kind
               /\ op'.tgt = IF op.name = "unpublish" THEN UnpublishTargets
                            ELSE {}
               /\ UNCHANGED <<alloc, late, data, mounted>>
      <4>1. CASE op.name = "publish"
        BY Zenon, <1>0, <2>0, <3>2, <3>3, <4>1 DEF Preserved, ReadInv, KnownInv
      <4>2. CASE op.name = "unpublish" /\ q = "clear"
        <5>1. op'.tgt = UnpublishTargets /\ op.a.fences \subseteq Nodes
          BY Zenon, <1>0, <3>3, <4>2, SuccessorFields
        <5>2. \A m \in op'.tgt : m \in Nodes /\ op'.n \in {NoNode, m}
          BY Zenon, <3>3, <5>1 DEF UnpublishTargets
        <5>. QED  BY Zenon, <1>0, <2>0, <3>1, <3>3, <4>2, <5>2
                  DEF Preserved, ReadInv, KnownInv
      <4>3. CASE q = "ok"
        BY <3>3, <4>3, DoneSafe DEF Preserved
      <4>. QED  BY <2>0, <3>2, <4>1, <4>2, <4>3
    <3>. QED  BY Zenon, <3>1, <3>2, <3>3, RestoreUnionSafe
  <2>. QED  BY <2>1, <2>2
<1>2. CASE EnsureAttached
  <2>0. /\ op.pc = "attach" /\ op.name = "publish" /\ op.a.state = "Ready"
        /\ own.fences = op.a.fences
    BY Zenon, <1>0, <1>2 DEF EnsureAttached, ReadInv, KnownInv
  <2>. DEFINE ok == SingleWriter => op.a.fences \subseteq {op.n}
  <2>. DEFINE q == IF op.n \in op.a.fences THEN "ok" ELSE "pubA"
  <2>1. Check(ok, q) /\ q \in {"ok", "pubA"}
    BY <1>2 DEF EnsureAttached
  <2>. HIDE DEF ok, q
  <2>2. CASE ok
    <3>1. /\ Globals' /\ Moved(q) /\ op'.a = op.a
          /\ UNCHANGED <<alloc, late, own, data>>
      BY Zenon, <2>0, <2>1, <2>2, CheckSafe
    <3>. QED  BY Zenon, <1>0, <2>0, <2>1, <3>1 DEF Preserved, ReadInv, KnownInv, Moved
  <2>. QED  BY <2>0, <2>1, <2>2, CheckSafe DEF Preserved
<1>3. CASE PublishAllocation
  <2>0. /\ op.pc = "pubA" /\ op.name = "publish" /\ op.a.state = "Ready"
        /\ own.fences = op.a.fences /\ op.n \in Nodes
    BY <1>0, <1>3 DEF PublishAllocation, ReadInv, KnownInv
  <2>. DEFINE r == [Successor EXCEPT !.fences = @ \cup {op.n}]
  <2>1. /\ r \in Allocation /\ r.kind = op.a.kind
        /\ r.fences = op.a.fences \cup {op.n} /\ r.state = op.a.state
    BY <1>0, <2>0, SuccessorFields DEF Allocation
  <2>. HIDE DEF r
  <2>2. Update(r, "pubO")
    BY <1>3 DEF PublishAllocation, r
  <2>3. CASE op.a.kind = "detailed"
    <3>1. GoodUpdate(r)
      BY <2>0, <2>1, <2>3 DEF GoodUpdate, Retired, Kept
    <3>2. \/ Preserved
          \/ /\ Globals' /\ Moved("pubO") /\ op'.a = r /\ own' = own
             /\ alloc' = r /\ \A w \in late' : w.rev <= alloc'.rev
      BY Zenon, <2>0, <2>2, <3>1, UpdateSafe
    <3>3. CASE /\ Globals' /\ Moved("pubO") /\ op'.a = r /\ own' = own
               /\ alloc' = r /\ \A w \in late' : w.rev <= alloc'.rev
      BY Zenon, <1>0, <2>0, <2>1, <3>3 DEF Preserved, ReadInv, KnownInv, Moved
    <3>. QED  BY <3>2, <3>3
  <2>. QED  BY <2>0, <2>2, <2>3, RefusedUpdateSafe
<1>4. CASE PublishOwnership
  <2>0. /\ op.pc = "pubO" /\ op.a.state = "Ready"
        /\ own.fences \subseteq op.a.fences
    BY <1>0, <1>4 DEF PublishOwnership, ReadInv, KnownInv
  <2>. DEFINE o == [own EXCEPT !.fences = op.a.fences]
  <2>1. o.fences = op.a.fences
    BY <1>0 DEF TypeOK, Ownership
  <2>2. ~Early(op.a.state) /\ op.a.kind # "none"
    BY Zenon, <2>0 DEF FenceSafety, RecordInv, WellFormed, Early, PreReady
  <2>3. WriteOwnership(o, "ok")
    BY <1>4 DEF PublishOwnership
  <2>. HIDE DEF o
  <2>4. Preserved \/ (Globals' /\ Moved("ok"))
    BY Zenon, <2>0, <2>1, <2>2, <2>3, WriteOwnershipSafe
  <2>. QED  BY <2>4, DoneSafe DEF Preserved, Moved
<1>5. CASE ClearOwnership
  <2>0. /\ op.pc = "clear" /\ op.name = "unpublish"
        /\ own.fences = op.a.fences /\ ~Early(op.a.state)
        /\ own.kind = "detailed"
        /\ \A m \in op.tgt : m \in Nodes /\ op.n \in {NoNode, m}
    BY <1>0, <1>5 DEF ClearOwnership, ReadInv, KnownInv
  <2>1. PICK t \in op.tgt :
          IF ~SafeToClear(t) THEN Check(FALSE, "clearA")
          ELSE /\ own' = [own EXCEPT !.fences = op.a.fences \ {t}]
               /\ op' = [op EXCEPT !.pc = "clearA", !.t = t, !.tgt = @ \ {t}]
               /\ UNCHANGED <<api, fs>>
    BY Zenon, <1>5 DEF ClearOwnership
  <2>2. CASE ~SafeToClear(t)
    BY Zenon, <2>0, <2>1, <2>2, CheckSafe DEF Preserved
  <2>3. CASE SafeToClear(t)
    <3>1. t \in Nodes \ mounted
      BY <1>0, <2>0, <2>3 DEF MountInv, SafeToClear
    <3>2. /\ op'.pc = "clearA" /\ op'.t = t /\ op'.tgt = op.tgt \ {t}
          /\ op'.name = op.name /\ op'.n = op.n /\ op'.a = op.a
      BY Zenon, <1>0, <2>1, <2>3 DEF TypeOK, Handler
    <3>3. own'.fences = op.a.fences \ {t} /\ own'.kind = own.kind
      BY <1>0, <2>1, <2>3 DEF TypeOK, Ownership
    <3>4. UNCHANGED <<alloc, late, data, intact, mounted>>
      BY <2>1, <2>3 DEF api, fs, env
    <3>5. Globals'
      BY Zenon, <2>0, <3>1, <3>2, <3>3, <3>4, OwnSafe
    <3>. QED  BY Zenon, <1>0, <2>0, <3>1, <3>2, <3>3, <3>4, <3>5
              DEF Preserved, ReadInv, KnownInv
  <2>. QED  BY <2>2, <2>3
<1>6. CASE ClearAllocation
  <2>0. /\ op.pc = "clearA" /\ op.name = "unpublish" /\ ~Early(op.a.state)
        /\ own.fences = op.a.fences \ {op.t} /\ op.t \notin mounted
        /\ own.kind = "detailed"
        /\ \A m \in op.tgt : m \in Nodes /\ op.n \in {NoNode, m}
    BY <1>0, <1>6 DEF ClearAllocation, ReadInv, KnownInv
  <2>. DEFINE r == [Successor EXCEPT !.fences = @ \ {op.t}]
              q == IF op.tgt = {} THEN "ok" ELSE "clear"
  <2>1. /\ r \in Allocation /\ r.kind = op.a.kind
        /\ r.fences = op.a.fences \ {op.t} /\ r.state = op.a.state
    BY <1>0, SuccessorFields DEF Allocation
  <2>2. Update(r, q) /\ q \in {"ok", "clear"}
    BY <1>6 DEF ClearAllocation
  <2>. HIDE DEF r, q
  <2>3. CASE op.a.kind = "detailed"
    <3>1. GoodUpdate(r)
      BY Zenon, <1>0, <2>0, <2>1, <2>3 DEF GoodUpdate, FenceInv
    <3>2. \/ Preserved
          \/ Globals' /\ Moved(q) /\ op'.a = r /\ own' = own
      BY <2>0, <2>2, <3>1, UpdateSafe
    <3>3. CASE Globals' /\ Moved(q) /\ op'.a = r /\ own' = own
      BY Zenon, <1>0, <2>0, <2>1, <2>2, <3>3
      DEF Preserved, ReadInv, KnownInv, Moved
    <3>. QED  BY <3>2, <3>3
  <2>. QED  BY <2>0, <2>2, <2>3, RefusedUpdateSafe
<1>. QED  BY <1>1, <1>2, <1>3, <1>4, <1>5, <1>6 DEF PublishStep
=============================================================================
