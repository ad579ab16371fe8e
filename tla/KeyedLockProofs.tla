---------------------------- MODULE KeyedLockProofs ----------------------------
(***************************************************************************)
(* LockSafety is inductive, for any number of callers, keys and entries.   *)
(* Mutual exclusion alone is not: what keeps two callers of a key apart is *)
(* that both refer to the entry the map has, which rests on the exact      *)
(* count of references.                                                    *)
(***************************************************************************)
EXTENDS KeyedLock, FiniteSetTheorems, TLAPS

USE LockAssumption

\* The users of an entry are a finite set; one is a user exactly when the
\* count is positive, and the only one when it is 1.
LEMMA UsersCounted ==
  ASSUME NEW e
  PROVE  /\ IsFiniteSet(Users(e)) /\ Cardinality(Users(e)) \in Nat
         /\ Cardinality(Users(e)) = 0 <=> Users(e) = {}
         /\ \A c \in Users(e) :
              Cardinality(Users(e)) = 1 => Users(e) = {c}
<1>1. Users(e) \in SUBSET Lockers  BY DEF Users
<1>2. IsFiniteSet(Users(e))  BY <1>1, FS_Subset
<1>3. Cardinality(Users(e)) \in Nat /\ (Cardinality(Users(e)) = 0 <=> Users(e) = {})
  BY <1>2, FS_CardinalityType, FS_EmptySet
<1>4. ASSUME NEW c \in Users(e), Cardinality(Users(e)) = 1
      PROVE  Users(e) = {c}
  <2>1. IsFiniteSet(Users(e) \ {c}) /\ Cardinality(Users(e) \ {c}) = 0
    BY <1>2, <1>4, FS_RemoveElement
  <2>2. Users(e) \ {c} = {}  BY <2>1, FS_EmptySet
  <2>. QED  BY <2>2
<1>. QED  BY <1>2, <1>3, <1>4

\* A caller that comes to an entry counts for one more, and one that leaves
\* it for one less.
LEMMA UsersMoved ==
  ASSUME NEW e, NEW c,
         \/ c \notin Users(e) /\ Users(e)' = Users(e) \cup {c}
         \/ c \in Users(e) /\ Users(e)' = Users(e) \ {c}
  PROVE  /\ c \notin Users(e) => Cardinality(Users(e)') = Cardinality(Users(e)) + 1
         /\ c \in Users(e) => Cardinality(Users(e)') = Cardinality(Users(e)) - 1
<1>1. IsFiniteSet(Users(e))  BY UsersCounted
<1>2. c \notin Users(e) => Cardinality(Users(e) \cup {c}) = Cardinality(Users(e)) + 1
  BY Zenon, <1>1, FS_AddElement
<1>3. c \in Users(e) => Cardinality(Users(e) \ {c}) = Cardinality(Users(e)) - 1
  BY Zenon, <1>1, FS_RemoveElement
<1>. QED  BY <1>2, <1>3

\* Lock keeps the invariant, whether it finds the entry or makes it.
LEMMA LockSafe ==
  ASSUME LockSafety, NEW c \in Lockers, NEW k \in Keys, Lock(c, k)
  PROVE  LockSafety'
<1>t. LockTypeOK  BY DEF LockSafety
<1>1. CASE entries[k] = NoEntry
  <2>1. PICK e \in Fresh :
          /\ entries' = [entries EXCEPT ![k] = e]
          /\ token' = [token EXCEPT ![e] = TRUE]
          /\ refs' = [refs EXCEPT ![e] = 1]
          /\ entry' = [entry EXCEPT ![c] = e]
    BY <1>1 DEF Lock
  <2>2. /\ e \in Entries /\ Users(e) = {} /\ \A l \in Keys : entries[l] # e
        /\ state[c] = "idle"
        /\ key' = [key EXCEPT ![c] = k]
        /\ state' = [state EXCEPT ![c] = "waiting"]
    BY DEF Fresh, Lock, Move
  <2>3. LockTypeOK'  BY <1>t, <2>1, <2>2 DEF LockTypeOK
  <2>4. Users(e)' = {c} /\ \A f \in Entries \ {e} : Users(f)' = Users(f)
    BY <1>t, <2>1, <2>2 DEF LockTypeOK, Users
  <2>5. EntriesInUse'
    BY <1>1, <1>t, <2>1, <2>2, <2>4 DEF LockSafety, EntriesInUse, LockTypeOK
  <2>6. \A f \in Entries : refs'[f] = Cardinality(Users(f)')
    <3>1. Cardinality({c}) = 1  BY FS_Singleton
    <3>. QED  BY Zenon, <1>t, <2>1, <2>2, <2>4, <3>1 DEF LockSafety, LockTypeOK
  <2>7. \A m, l \in Keys : entries'[m] # NoEntry /\ entries'[m] = entries'[l] => m = l
    BY <1>t, <2>1, <2>2 DEF LockSafety, LockTypeOK
  <2>8. \A a, b \in Lockers :
          state'[a] = "holding" /\ state'[b] = "holding" /\ entry'[a] = entry'[b] => a = b
    BY <1>t, <2>1, <2>2 DEF LockSafety, LockTypeOK
  <2>9. \A l \in Keys : entries'[l] # NoEntry =>
          (token'[entries'[l]] <=>
             \A a \in Lockers : ~(state'[a] = "holding" /\ entry'[a] = entries'[l]))
    <3>1. \A a \in Lockers : ~(state'[a] = "holding" /\ entry'[a] = e)
      BY <1>t, <2>1, <2>2 DEF Users, LockTypeOK
    <3>. QED  BY <1>t, <2>1, <2>2, <3>1 DEF LockSafety, LockTypeOK
  <2>. QED  BY <2>3, <2>5, <2>6, <2>7, <2>8, <2>9 DEF LockSafety
<1>2. CASE entries[k] # NoEntry
  <2>0. PICK e \in Entries : e = entries[k]
    BY <1>2, <1>t DEF LockTypeOK
  <2>1. /\ state[c] = "idle"
        /\ refs' = [refs EXCEPT ![e] = @ + 1]
        /\ entry' = [entry EXCEPT ![c] = e]
        /\ entries' = entries /\ token' = token
        /\ key' = [key EXCEPT ![c] = k]
        /\ state' = [state EXCEPT ![c] = "waiting"]
    BY <1>2, <1>t, <2>0 DEF Lock, Move, LockTypeOK
  <2>2. LockTypeOK'  BY <1>t, <2>1 DEF LockTypeOK
  <2>3. /\ c \notin Users(e) /\ Users(e)' = Users(e) \cup {c}
        /\ \A f \in Entries \ {e} : Users(f)' = Users(f)
    BY <1>t, <2>1 DEF LockTypeOK, Users
  <2>4. EntriesInUse'
    <3>1. \A l \in Keys : entries'[l] # NoEntry =>
            \E a \in Lockers : state'[a] # "idle" /\ entry'[a] = entries'[l]
      BY <1>t, <2>0, <2>1 DEF LockSafety, EntriesInUse, LockTypeOK
    <3>2. \A a \in Lockers : state'[a] # "idle" => entries'[key'[a]] = entry'[a]
      BY <1>t, <2>0, <2>1 DEF LockSafety, EntriesInUse, LockTypeOK
    <3>. QED  BY <3>1, <3>2 DEF EntriesInUse
  <2>5. \A f \in Entries : refs'[f] = Cardinality(Users(f)')
    <3>1. Cardinality(Users(e)') = Cardinality(Users(e)) + 1
      BY Zenon, <2>3, UsersMoved
    <3>. QED  BY Zenon, <1>t, <2>1, <2>3, <3>1 DEF LockSafety, LockTypeOK
  <2>6. \A m, l \in Keys : entries'[m] # NoEntry /\ entries'[m] = entries'[l] => m = l
    BY <2>1 DEF LockSafety
  <2>7. \A a, b \in Lockers :
          state'[a] = "holding" /\ state'[b] = "holding" /\ entry'[a] = entry'[b] => a = b
    BY <1>t, <2>1 DEF LockSafety, LockTypeOK
  <2>8. \A l \in Keys : entries'[l] # NoEntry =>
          (token'[entries'[l]] <=>
             \A a \in Lockers : ~(state'[a] = "holding" /\ entry'[a] = entries'[l]))
    BY <1>t, <2>1 DEF LockSafety, LockTypeOK
  <2>. QED  BY <2>2, <2>4, <2>5, <2>6, <2>7, <2>8 DEF LockSafety
<1>. QED  BY <1>1, <1>2

\* The token changes hands, or the caller gives up: nobody's references
\* change.
LEMMA TokenSafe ==
  ASSUME LockSafety, NEW c \in Lockers, TakeLock(c) \/ Cancel(c) \/ Unlock(c)
  PROVE  LockSafety'
<1>t. LockTypeOK  BY DEF LockSafety
<1>1. /\ entries' = entries /\ refs' = refs /\ key' = key /\ entry' = entry
      /\ \E pc \in {"holding", "dropping"} : state' = [state EXCEPT ![c] = pc]
      /\ state[c] # "idle"
      /\ token' \in [Entries -> BOOLEAN]
  BY Zenon, <1>t DEF TakeLock, Cancel, Unlock, Move, LockTypeOK
<1>2. LockTypeOK'  BY <1>t, <1>1 DEF LockTypeOK
<1>3. \A e : Users(e)' = Users(e)  BY <1>t, <1>1 DEF Users, LockTypeOK
<1>4. EntriesInUse'  BY <1>t, <1>1, <1>3 DEF LockSafety, EntriesInUse, LockTypeOK
<1>5. \A e \in Entries : refs'[e] = Cardinality(Users(e)')
  BY <1>1, <1>3 DEF LockSafety
<1>6. entries[key[c]] = entry[c] /\ key[c] \in Keys /\ entry[c] \in Entries
      /\ entry[c] # NoEntry
  BY <1>t, <1>1 DEF LockSafety, EntriesInUse, LockTypeOK
<1>7. \A a, b \in Lockers :
        state'[a] = "holding" /\ state'[b] = "holding" /\ entry'[a] = entry'[b] => a = b
  BY <1>t, <1>1, <1>6 DEF LockSafety, LockTypeOK, TakeLock, Cancel, Unlock, Move
<1>8. \A l \in Keys : entries'[l] # NoEntry =>
        (token'[entries'[l]] <=>
           \A a \in Lockers : ~(state'[a] = "holding" /\ entry'[a] = entries'[l]))
  <2>. SUFFICES ASSUME NEW l \in Keys, entries[l] # NoEntry
                PROVE  token'[entries[l]] <=>
                         \A a \in Lockers : ~(state'[a] = "holding" /\ entry[a] = entries[l])
    BY <1>1
  <2>1. entries[l] \in Entries  BY <1>t DEF LockTypeOK
  <2>2. token[entries[l]] <=>
          \A a \in Lockers : ~(state[a] = "holding" /\ entry[a] = entries[l])
    BY DEF LockSafety
  <2>3. CASE TakeLock(c)
    BY <1>t, <2>1, <2>2, <2>3 DEF TakeLock, Move, LockTypeOK
  <2>4. CASE Cancel(c)
    BY <1>t, <2>1, <2>2, <2>4 DEF Cancel, Move, LockTypeOK
  <2>5. CASE Unlock(c)
    <3>1. \A a \in Lockers \ {c} : ~(state[a] = "holding" /\ entry[a] = entry[c])
      BY <2>5 DEF LockSafety, Unlock
    <3>. QED  BY <1>t, <2>1, <2>2, <2>5, <3>1 DEF Unlock, Move, LockTypeOK
  <2>. QED  BY <2>3, <2>4, <2>5
<1>. QED  BY <1>1, <1>2, <1>4, <1>5, <1>7, <1>8 DEF LockSafety

\* dropReference keeps the invariant: the entry goes with its last user.
LEMMA DropSafe ==
  ASSUME LockSafety, NEW c \in Lockers, DropReference(c)
  PROVE  LockSafety'
<1>t. LockTypeOK  BY DEF LockSafety
<1>0. PICK e \in Entries, k \in Keys : e = entry[c] /\ k = key[c]
  BY <1>t DEF LockTypeOK
<1>1. /\ entries[k] = e /\ e # NoEntry
      /\ state[c] = "dropping"
      /\ refs' = [refs EXCEPT ![e] = @ - 1]
      /\ entries' = IF refs[e] = 1 THEN [entries EXCEPT ![k] = NoEntry] ELSE entries
      /\ state' = [state EXCEPT ![c] = "idle"]
      /\ token' = token /\ key' = key /\ entry' = entry
  BY <1>t, <1>0 DEF LockSafety, EntriesInUse, LockTypeOK, DropReference, Move
<1>2. /\ c \in Users(e) /\ Users(e)' = Users(e) \ {c}
      /\ \A f \in Entries \ {e} : Users(f)' = Users(f)
  BY <1>t, <1>0, <1>1 DEF LockTypeOK, Users
<1>e. \A a \in Lockers : a \in Users(e) <=> state[a] # "idle" /\ entry[a] = e
  BY DEF Users
<1>3. /\ refs[e] = Cardinality(Users(e)) /\ Cardinality(Users(e)) \in Nat
      /\ Cardinality(Users(e)) # 0
      /\ refs[e] = 1 => Users(e) = {c}
  <2>1. Users(e) # {}  BY <1>2
  <2>2. refs[e] = Cardinality(Users(e))  BY DEF LockSafety
  <2>. QED  BY <1>2, <2>1, <2>2, UsersCounted
<1>4. Cardinality(Users(e)') = Cardinality(Users(e)) - 1
  BY Zenon, <1>2, UsersMoved
<1>5. LockTypeOK'  BY <1>t, <1>1, <1>3 DEF LockTypeOK
<1>6. \A f \in Entries : refs'[f] = Cardinality(Users(f)')
  <2>1. refs'[e] = Cardinality(Users(e)')  BY <1>t, <1>1, <1>3, <1>4 DEF LockTypeOK
  <2>2. \A f \in Entries \ {e} : refs'[f] = refs[f] /\ refs[f] = Cardinality(Users(f))
    BY <1>t, <1>1 DEF LockSafety, LockTypeOK
  <2>. QED  BY <1>2, <2>1, <2>2
<1>7. \A l \in Keys : entries'[l] # NoEntry => entries'[l] = entries[l] /\ (refs[e] = 1 => l # k)
  BY <1>t, <1>1 DEF LockTypeOK
<1>8. \A m, l \in Keys : entries'[m] # NoEntry /\ entries'[m] = entries'[l] => m = l
  BY <1>7 DEF LockSafety
<1>9. EntriesInUse'
  <2>1. ASSUME NEW l \in Keys, entries'[l] # NoEntry
        PROVE  \E a \in Lockers : state'[a] # "idle" /\ entry'[a] = entries'[l]
    <3>1. PICK a \in Lockers : state[a] # "idle" /\ entry[a] = entries[l]
      BY <1>7, <2>1 DEF LockSafety, EntriesInUse
    <3>2. CASE entries[l] = e
      <4>1. l = k  BY <1>1, <3>2 DEF LockSafety
      <4>2. refs[e] # 1  BY <1>7, <2>1, <4>1
      <4>3. Cardinality(Users(e)') # 0  BY <1>3, <1>4, <4>2
      <4>4. Users(e)' # {}  BY <4>3, FS_EmptySet
      <4>. QED  BY <1>7, <2>1, <3>2, <4>4 DEF Users
    <3>3. CASE entries[l] # e
      BY <1>t, <1>0, <1>1, <1>7, <2>1, <3>1, <3>3 DEF LockTypeOK
    <3>. QED  BY <3>2, <3>3
  <2>2. ASSUME NEW a \in Lockers, state'[a] # "idle"
        PROVE  entries'[key'[a]] = entry'[a]
    <3>1. /\ a # c /\ state[a] # "idle" /\ entries[key[a]] = entry[a]
          /\ key[a] \in Keys /\ entry[a] \in Entries
      BY <1>t, <1>1, <2>2 DEF LockSafety, EntriesInUse, LockTypeOK
    <3>2. key[a] = k => refs[e] # 1
      BY <1>1, <1>3, <1>e, <3>1
    <3>. QED  BY <1>t, <1>1, <3>1, <3>2 DEF LockTypeOK
  <2>. QED  BY <2>1, <2>2 DEF EntriesInUse
<1>10. \A a, b \in Lockers :
         state'[a] = "holding" /\ state'[b] = "holding" /\ entry'[a] = entry'[b] => a = b
  BY <1>t, <1>1 DEF LockSafety, LockTypeOK
<1>11. \A l \in Keys : entries'[l] # NoEntry =>
         (token'[entries'[l]] <=>
            \A a \in Lockers : ~(state'[a] = "holding" /\ entry'[a] = entries'[l]))
  BY <1>t, <1>1, <1>7 DEF LockSafety, LockTypeOK
<1>. QED  BY <1>5, <1>6, <1>8, <1>9, <1>10, <1>11 DEF LockSafety

\* LockSafety always holds: the references are counted exactly and the map
\* has the entry of every caller in Lock (Lock, dropReference).
THEOREM LockIsSafe == LockSpec => []LockSafety
<1>1. LockInit => LockSafety
  <2>. SUFFICES ASSUME LockInit PROVE LockSafety  OBVIOUS
  <2>1. LockTypeOK  BY DEF LockInit, LockTypeOK
  <2>2. \A e : Users(e) = {}  BY DEF LockInit, Users
  <2>3. Cardinality({}) = 0  BY FS_EmptySet
  <2>. QED  BY <2>1, <2>2, <2>3 DEF LockSafety, EntriesInUse, LockInit
<1>2. LockSafety /\ [LockNext]_lockVars => LockSafety'
  <2>. SUFFICES ASSUME LockSafety, [LockNext]_lockVars PROVE LockSafety'  OBVIOUS
  <2>1. CASE LockNext
    BY <2>1, LockSafe, TokenSafe, DropSafe DEF LockNext
  <2>2. CASE UNCHANGED lockVars
    BY <2>2 DEF lockVars, LockSafety, LockTypeOK, EntriesInUse, Users
  <2>. QED  BY <2>1, <2>2
<1>. QED  BY <1>1, <1>2, PTL DEF LockSpec

\* At most one caller holds the lock of a key, for any number of callers and
\* keys (Lock and its unlock function).
THEOREM LockExcludes == LockSpec => []MutualExclusion
<1>1. LockSafety => MutualExclusion
  BY DEF LockSafety, EntriesInUse, MutualExclusion, LockTypeOK
<1>. QED  BY <1>1, LockIsSafe, PTL

\* The unlock function never blocks on its channel.
THEOREM UnlockIsPrompt == LockSpec => []UnlockNeverBlocks
<1>1. LockSafety => UnlockNeverBlocks
  BY DEF LockSafety, EntriesInUse, UnlockNeverBlocks, LockTypeOK
<1>. QED  BY <1>1, LockIsSafe, PTL
=============================================================================
