--------------------------- MODULE VolumeInvariant ---------------------------
(***************************************************************************)
(* The inductive invariant behind MountedFenced, MountedDataStable and     *)
(* OnlySuccessors. It relates the record a handler read (op.a), the stored *)
(* record, the writes still in flight, the ownership record and the mounts *)
(* at every step of every handler.                                         *)
(***************************************************************************)
EXTENDS VolumeProperties

Early(s)   == s \in PreReady \cup {"none"}
Retired(s) == s \in Kept \cup {"Deleting", "Deleted"}

\* a may be replaced by w: the first record of a volume, or an update.
Replaces(a, w) ==
  IF a.kind = "none"
  THEN /\ w.kind # "none" /\ w.rev = 1 /\ w.fences = {}
       /\ w.state \in {"Reserved", "Deleted"}
  ELSE AllowedUpdate(a, w)

\* A record is absent exactly at revision 0, and has no fence before Ready.
WellFormed(a) ==
  /\ a.rev = 0 <=> a.kind = "none"
  /\ a.kind = "none" => a = NoAllocation
  /\ a.state = "none" <=> a.kind = "none"
  /\ a.kind \in {"compact", "unknown"} => a.state = "Deleted"
  /\ Early(a.state) => a.fences = {}

\* The records are well formed; a write in flight was computed from a record
\* no newer than the stored one, and one that can still land replaces it.
RecordInv ==
  /\ WellFormed(alloc) /\ WellFormed(op.a)
  /\ \A w \in late :
       /\ w.rev >= 1 /\ w.rev <= alloc.rev + 1 /\ WellFormed(w)
       /\ w.rev = alloc.rev + 1 => Replaces(alloc, w)
  /\ own.kind = "none" => own = NoOwnership

\* What the handler read is the stored record, or it is stale by one write
\* that was in flight, and then nothing more can land.
SnapshotInv ==
  /\ op.a.rev <= alloc.rev
  /\ op.a.rev = alloc.rev => op.a = alloc
  /\ op.a.rev < alloc.rev /\ op.pc # "idle" =>
       /\ \A w \in late : w.rev <= alloc.rev
       /\ op.a.kind # "none" => AllowedUpdate(op.a, alloc)

\* Fences: none before Ready and none once deletion is recorded, on either
\* side, nor when a deletion in flight could still land.
FenceInv ==
  /\ Early(alloc.state) \/ Retired(alloc.state) => own.fences = {}
  /\ Retired(alloc.state) => alloc.fences = {} /\ op.a.fences = {}
  /\ Retired(op.a.state) => op.a.fences = {} /\ own.fences = {}
  /\ \A w \in late : w.rev = alloc.rev + 1 /\ Retired(w.state) =>
       w.fences = {} /\ alloc.fences = {} /\ own.fences = {}

\* Mounts: the kubelet's ordering, the nodes an Unpublish is called for, and
\* the fence that every mount keeps, also if a write in flight lands.
MountInv ==
  /\ \A n \in mounted :
       node[n] # "stopped" /\ (node[n] = "ready" => va[n] = "attached")
  /\ op.name = "unpublish" =>
       \A m \in Nodes : op.n \in {NoNode, m} => va[m] # "attached"
  /\ mounted \subseteq alloc.fences \cup own.fences
  /\ \A w \in late :
       w.rev = alloc.rev + 1 => mounted \subseteq w.fences \cup own.fences

\* The tree is whole at its source path while the volume is Ready, and when a
\* write in flight could make it Ready.
TreeInv ==
  /\ alloc.state = "Ready" => data = SourcePath
  /\ ~Retired(alloc.state) => intact
  /\ \A w \in late :
       w.rev = alloc.rev + 1 /\ w.state = "Ready" => data = SourcePath

RetiredPCs == {"prepO", "dispose", "disposeSync", "termA", "termO", "rmA",
               "rmO", "remove", "removeSync", "deletedA", "compactO",
               "finishDeleted", "submitA", "gcGates", "gcPrepA", "gcPrepO",
               "gcRmA", "gcRmO", "compactA"}

\* What each step of a handler knows: of the record it read ...
ReadInv ==
  /\ op.pc = "idle" => op = Idle
  /\ op.name = "publish" => op.n \in Nodes
  /\ op.pc \in {"reserve", "unknown"} => op.a.kind = "none"
  /\ op.pc \in {"unknown", "pair", "inUse"} => op.name = "delete"
  /\ op.pc = "gcPair" => op.name = "gc"
  /\ op.pc \in {"creating", "ensure", "mkdirSync", "createOwn", "ready"} =>
       op.a.state \in PreReady
  /\ op.pc \in {"unionA", "unionO"} =>
       /\ ~Early(op.a.state)
       /\ op.name = "publish" => op.a.state = "Ready"
       /\ op.name = "gc" => Retired(op.a.state)
  /\ op.pc \in {"attach", "pubA", "pubO"} =>
       op.name = "publish" /\ op.a.state = "Ready"
  /\ op.pc \in {"clear", "clearA"} =>
       op.name = "unpublish" /\ ~Early(op.a.state)
  /\ op.pc = "inUse" => ~Early(op.a.state)
  /\ op.pc = "prepA" => op.a.state = "Ready"
  /\ op.pc \in RetiredPCs => Retired(op.a.state)

\* ... and of the two fence sets, the targets and the tree.
KnownInv ==
  /\ op.name \in {"delete", "gc"} /\ op.pc \in {"inUse", "unionA", "unionO"} =>
       own.kind = "detailed"
  /\ op.pc = "clear" \/ op.pc = "clearA" => own.kind = "detailed"
  /\ op.pc = "mkdirSync" \/ op.pc = "createOwn" => own.fences = {}
  /\ op.pc = "unionO" \/ op.pc = "pubO" => own.fences \subseteq op.a.fences
  /\ op.pc = "attach" \/ op.pc = "pubA" \/ op.pc = "clear" =>
       own.fences = op.a.fences
  /\ op.pc = "pubO" => op.a = alloc /\ \A w \in late : w.rev <= alloc.rev
  /\ op.pc = "clear" \/ op.pc = "clearA" =>
       \A m \in op.tgt : m \in Nodes /\ op.n \in {NoNode, m}
  /\ op.pc = "clearA" =>
       /\ own.fences = op.a.fences \ {op.t}
       /\ op.t \in Nodes \ mounted /\ op.n \in {NoNode, op.t}
  /\ op.pc = "prepA" => op.a.fences = {} /\ own.fences = {}
  /\ op.pc \in {"mkdirSync", "createOwn", "ready"} => data = SourcePath

\* The inductive invariant: what every handler of create.go, publish.go,
\* delete.go and gc.go may rely on between any two of its writes.
FenceSafety ==
  /\ TypeOK /\ RecordInv /\ SnapshotInv /\ FenceInv /\ MountInv /\ TreeInv
  /\ ReadInv /\ KnownInv

\* SINGLE_NODE_WRITER: the fences of both records, of the record that the
\* handler read and of a write that can still land never name two nodes, and
\* a handler that adds a fence has read none.
AtMostOne(S) == \A m, n \in S : m = n
SingleWriterInv ==
  SingleWriter =>
    /\ AtMostOne(alloc.fences \cup own.fences \cup op.a.fences)
    /\ \A w \in late : w.rev = alloc.rev + 1 =>
         AtMostOne(alloc.fences \cup own.fences \cup w.fences)
    /\ op.pc = "pubA" => op.a.fences = {}

\* Every change of the stored allocation replaces the record it was computed
\* from by a permitted successor: whatever was in flight, late or retried, no
\* write lands on a record that its writer had not seen (AllocationStore).
OnlySuccessors == [][alloc' # alloc => Replaces(alloc, alloc')]_vars
==============================================================================
