---------------------------- MODULE VolumeRecords ----------------------------
(***************************************************************************)
(* The two durable records of a logical volume and what each must say      *)
(* about the other: pkg/volume/{allocation,ownership,pairing}.go, the      *)
(* transition validators, and the pair validators of                       *)
(* pkg/driver/{delete,gc,lifecycle_pair}.go.                               *)
(***************************************************************************)
EXTENDS Naturals, FiniteSets

CONSTANTS
  Nodes,        \* node IDs
  NoNode,       \* "no node": the all-nodes ControllerUnpublish
  IDs,          \* operation IDs, request IDs and evidence timestamps
  NoID,         \* the empty ID
  Policies      \* delete policies that CreateVolume may choose

ASSUME RecordsAssumption ==
  /\ NoNode \notin Nodes
  /\ NoID \notin IDs
  /\ Policies \subseteq {"archive", "retain", "delete"}

-----------------------------------------------------------------------------
(* Records.                                                                *)

MaybeID   == IDs \cup {NoID}
MaybeNode == Nodes \cup {NoNode}
PreReady  == {"Reserved", "CreatingDirectory"}
Kept      == {"Archived", "Retained"}
States    == {"none", "Ready", "Deleting", "Deleted"} \cup PreReady \cup Kept

\* volume.AllocationRecord: DetailedAllocationRecord and the two tombstones.
\* rev is both RecordRevision and the object's resourceVersion: they advance
\* together. del and gc are operation IDs; rm and gcrm the remove-start
\* timestamps; req and mode the accepted GC request.
Allocation ==
  [kind : {"none", "detailed", "compact", "unknown"}, rev : Nat,
   state : States, fences : SUBSET Nodes,
   policy : Policies \cup {"none"}, del : MaybeID, rm : MaybeID,
   req : MaybeID, mode : {"none", "dry-run", "execute"},
   gc : MaybeID, gcrm : MaybeID]

\* volume.OwnershipRecord.
Ownership ==
  [kind : {"none", "detailed", "compact"}, state : States,
   fences : SUBSET Nodes, policy : Policies \cup {"none"},
   del : MaybeID, rm : MaybeID, req : MaybeID,
   mode : {"none", "dry-run", "execute"}, gc : MaybeID, gcrm : MaybeID]

NoAllocation ==
  [kind |-> "none", rev |-> 0, state |-> "none", fences |-> {},
   policy |-> "none", del |-> NoID, rm |-> NoID, req |-> NoID,
   mode |-> "none", gc |-> NoID, gcrm |-> NoID]

NoOwnership ==
  [kind |-> "none", state |-> "none", fences |-> {}, policy |-> "none",
   del |-> NoID, rm |-> NoID, req |-> NoID, mode |-> "none", gc |-> NoID,
   gcrm |-> NoID]

\* The path of the tree. Archive and quarantine paths embed the operation ID.
Location == [at : {"absent", "live", "archive", "quarantine"}, id : MaybeID]
Dirs == {"base", "archived", "deleted"}
Absent     == [at |-> "absent", id |-> NoID]
SourcePath == [at |-> "live", id |-> NoID]

DeleteTarget(a) ==
  IF a.policy = "retain" THEN SourcePath
  ELSE [at |-> IF a.policy = "archive" THEN "archive" ELSE "quarantine",
        id |-> a.del]

TerminalDataPath(a) == DeleteTarget(a)
GCQuarantinePath(a) == [at |-> "quarantine", id |-> a.gc]

-----------------------------------------------------------------------------
(* Pairing: what one record must say about the other.                      *)

\* ValidateDetailedIdentityPair: same immutable identity, expected state.
IdentityPair(a, o, state) ==
  o.kind = "detailed" /\ o.state = state /\ o.policy = a.policy

\* ValidateDetailedPair: the published-node fences too.
DetailedPair(a, o, state) == IdentityPair(a, o, state) /\ o.fences = a.fences

\* validateDeleteProgressPair
DeleteProgressPair(a, o) ==
  /\ IdentityPair(a, o, o.state)
  /\ o.del = a.del
  /\ o.rm # NoID => o.rm = a.rm

\* validateDeleteTerminalEvidence
DeleteTerminalEvidence(a, o) == o.del = a.del /\ o.rm = a.rm

\* validatePhysicalDeleteTerminalPredecessor
PhysicalDeletePredecessor(a, o) ==
  /\ a.state = "Deleted" /\ a.gc = NoID /\ a.policy = "delete"
  /\ a.rm # NoID /\ o.rm = a.rm

OwnershipHasGC(o) == o.req # NoID \/ o.gc # NoID \/ o.gcrm # NoID

\* validateInitialGCPair. GCExpectedState is the terminal state at Submit.
InitialGCPair(a, o) ==
  /\ a.state \in Kept
  /\ ~OwnershipHasGC(o)
  /\ IdentityPair(a, o, a.state)
  /\ DeleteTerminalEvidence(a, o)

\* GCExpectedState: the terminal state that the delete policy leads to.
GCExpectedState(a) == IF a.policy = "archive" THEN "Archived" ELSE "Retained"

\* validateGCProgressPair
GCProgressPair(a, o) ==
  /\ IdentityPair(a, o, GCExpectedState(a))
  /\ DeleteTerminalEvidence(a, o)
  /\ IF o.gc = NoID
     THEN ~OwnershipHasGC(o)
     ELSE o.req = a.req /\ o.gc = a.gc /\ (o.gcrm # NoID => o.gcrm = a.gcrm)

\* validateGCOwnershipPredecessor
GCOwnershipPredecessor(a, o) ==
  /\ a.state = "Deleted"
  /\ GCProgressPair(a, o)
  /\ a.gcrm # NoID /\ o.gcrm = a.gcrm

\* CompactDeletedProjection, compactAllocationProjection: identity and audit.
CompactProjection(a) ==
  [a EXCEPT !.kind = "compact", !.rm = NoID, !.req = NoID, !.mode = "none",
            !.gcrm = NoID]

\* compactOwnershipFromDeleted
CompactOwnership(a) ==
  [kind |-> "compact", state |-> "Deleted", fences |-> {},
   policy |-> a.policy, del |-> a.del, rm |-> NoID, req |-> NoID,
   mode |-> "none", gc |-> a.gc, gcrm |-> NoID]

\* ValidateCompactPair
CompactPair(a, o) ==
  o.kind = "compact" /\ o.policy = a.policy /\ o.del = a.del /\ o.gc = a.gc

\* Fault seeded for a mutant: a deletion recorded by the allocation only is
\* taken for a conflict.
LifecyclePairStrict(a, o) ==
  CASE o.kind = "none" -> a.state \in PreReady
    [] o.kind = "compact" -> a.state = "Deleted" /\ CompactPair(a, o)
    [] OTHER -> IdentityPair(a, o, a.state)
                \/ a.state = "CreatingDirectory"

\* ValidateLifecyclePairForStartup
LifecyclePair(a, o) ==
  CASE o.kind = "none" -> a.state \in PreReady
    [] o.kind = "compact" ->
         a.state = "Deleted" /\ a.fences = {} /\ CompactPair(a, o)
    [] o.kind = "detailed" ->
         CASE a.state = "Reserved" -> FALSE
           [] a.state \in {"CreatingDirectory", "Ready"} ->
                IdentityPair(a, o, "Ready")
           [] a.state = "Deleting" ->
                \/ IdentityPair(a, o, "Ready")
                \/ o.state = "Deleting" /\ DeleteProgressPair(a, o)
           [] a.state \in Kept ->
                \/ o.state = "Deleting" /\ DeleteProgressPair(a, o)
                \/ /\ IdentityPair(a, o, a.state)
                   /\ DeleteTerminalEvidence(a, o)
                   /\ CASE a.req = NoID -> ~OwnershipHasGC(o)
                        [] a.req # NoID /\ a.gc = NoID -> InitialGCPair(a, o)
                        [] OTHER -> GCProgressPair(a, o)
           [] a.state = "Deleted" ->
                IF a.gc # NoID THEN GCOwnershipPredecessor(a, o)
                ELSE /\ o.state = "Deleting"
                     /\ DeleteProgressPair(a, o)
                     /\ PhysicalDeletePredecessor(a, o)
           [] OTHER -> FALSE

-----------------------------------------------------------------------------
(* Successors.                                                             *)

\* allowedAllocationStateTransition
AllowedTransition(from, to) ==
  \/ from = to /\ from # "none"
  \/ <<from, to>> \in {<<"Reserved", "CreatingDirectory">>,
                       <<"CreatingDirectory", "Ready">>,
                       <<"Ready", "Deleting">>, <<"Deleting", "Archived">>,
                       <<"Deleting", "Retained">>, <<"Deleting", "Deleted">>,
                       <<"Archived", "Deleted">>, <<"Retained", "Deleted">>}

\* validateGCFields: request, progress and evidence appear in that order.
ValidGCFields(a) ==
  /\ a.req = NoID <=> a.mode = "none"
  /\ a.gc # NoID =>
       a.mode = "execute" /\ a.state \in {GCExpectedState(a), "Deleted"}
  /\ a.gc = NoID /\ a.req # NoID => a.state = GCExpectedState(a)
  /\ a.gcrm # NoID => a.gc # NoID

\* validatePreparedDelete
ValidPreparedDelete(a) == a.del # NoID /\ (a.rm # NoID => a.policy = "delete")

\* DetailedAllocationRecord.validateLifecycle, which the ownership record's
\* validatePayload applies to its own fields too.
ValidLifecycle(a) ==
  /\ ValidGCFields(a)
  /\ CASE a.state \in PreReady -> a.del = NoID /\ a.rm = NoID /\ a.gc = NoID
                                 /\ a.fences = {}
       [] a.state = "Ready"    -> a.del = NoID /\ a.rm = NoID /\ a.gc = NoID
       [] a.state = "Deleting" -> ValidPreparedDelete(a)
       [] a.state \in Kept ->
            /\ ValidPreparedDelete(a)
            /\ a.policy = IF a.state = "Archived" THEN "archive" ELSE "retain"
       [] a.state = "Deleted" ->
            IF a.gc # NoID THEN a.gcrm # NoID
            ELSE a.policy = "delete" /\ a.del # NoID /\ a.rm # NoID
       [] OTHER -> FALSE

\* ValidateAllocationUpdate
AllowedUpdate(cur, next) ==
  /\ cur.kind = "detailed" /\ ValidLifecycle(cur)
  /\ next.rev = cur.rev + 1
  /\ next.policy = cur.policy
  /\ \/ /\ next.kind = "detailed" /\ ValidLifecycle(next)
        /\ AllowedTransition(cur.state, next.state)
     \/ next.kind = "compact" /\ cur.state = "Deleted"

\* ValidateOwnershipUpdate
AllowedOwnershipUpdate(cur, next) ==
  /\ cur.kind = "detailed"
  /\ next.policy = cur.policy
  /\ \/ /\ next.kind = "detailed" /\ ValidLifecycle(next)
        /\ next.state \notin PreReady \cup {"Deleted"}
        /\ \/ next.state = cur.state
           \/ cur.state = "Ready" /\ next.state = "Deleting"
           \/ cur.state = "Deleting" /\ next.state \in Kept
     \/ next.kind = "compact" /\ cur.state \in Kept \cup {"Deleting"}

=============================================================================
