------------------------------- MODULE KeyedLock -------------------------------
(***************************************************************************)
(* pkg/coordination/lock.go: one lock per key, made when somebody asks for *)
(* it and dropped when nobody does. Every controller holds the lock of its *)
(* logical volume, which is why VolumeLifecycle has one handler in flight; *)
(* placement holds the lock of its pool.                                   *)
(***************************************************************************)
EXTENDS Integers, FiniteSets

CONSTANTS
  Lockers,  \* calls of Lock, by the goroutine and its level
  Keys,     \* logical volume IDs, or pool names
  Entries,  \* addresses of a lockEntry; one that is garbage is used again
  NoEntry   \* nil

ASSUME LockAssumption ==
  /\ IsFiniteSet(Lockers)
  /\ NoEntry \notin Entries

VARIABLES
  entries,  \* locks.entries: the entry of each key
  refs,     \* entry.refs
  token,    \* entry.token is in its channel
  state,    \* each caller: where it is in Lock or in the unlock function
  key,      \* the key it named
  entry     \* the entry it got

lockVars == <<entries, refs, token, state, key, entry>>

LockTypeOK ==
  /\ entries \in [Keys -> Entries \cup {NoEntry}]
  /\ refs \in [Entries -> Nat]
  /\ token \in [Entries -> BOOLEAN]
  /\ state \in [Lockers -> {"idle", "waiting", "holding", "dropping"}]
  /\ key \in [Lockers -> Keys]
  /\ entry \in [Lockers -> Entries]

LockInit ==
  /\ entries = [k \in Keys |-> NoEntry]
  /\ refs = [e \in Entries |-> 0]
  /\ token = [e \in Entries |-> FALSE]
  /\ state = [c \in Lockers |-> "idle"]
  /\ key \in [Lockers -> Keys]
  /\ entry \in [Lockers -> Entries]

-----------------------------------------------------------------------------
Move(c, pc) == state' = [state EXCEPT ![c] = pc]

\* The callers that hold a pointer to an entry.
Users(e) == {c \in Lockers : state[c] # "idle" /\ entry[c] = e}

\* make(lockEntry): an address that nothing refers to, its token inside.
Fresh == {e \in Entries : Users(e) = {} /\ \A k \in Keys : entries[k] # e}

\* Lock, in the critical section: find or make the entry, and refer to it.
Lock(c, k) ==
  /\ state[c] = "idle"
  /\ IF entries[k] = NoEntry
     THEN \E e \in Fresh :
            /\ entries' = [entries EXCEPT ![k] = e]
            /\ token' = [token EXCEPT ![e] = TRUE]
            /\ refs' = [refs EXCEPT ![e] = 1]
            /\ entry' = [entry EXCEPT ![c] = e]
     ELSE /\ refs' = [refs EXCEPT ![entries[k]] = @ + 1]
          /\ entry' = [entry EXCEPT ![c] = entries[k]]
          /\ UNCHANGED <<entries, token>>
  /\ key' = [key EXCEPT ![c] = k]
  /\ Move(c, "waiting")

\* The token arrives.
TakeLock(c) ==
  /\ state[c] = "waiting"
  /\ token[entry[c]]
  /\ token' = [token EXCEPT ![entry[c]] = FALSE]
  /\ Move(c, "holding")
  /\ UNCHANGED <<entries, refs, key, entry>>

\* The context ends first, or at the same time: select may choose either.
Cancel(c) ==
  /\ state[c] = "waiting"
  /\ Move(c, "dropping")
  /\ UNCHANGED <<entries, refs, token, key, entry>>

\* Fault seeded for a mutant: the token is kept when the reference goes.
UnlockKeepsToken(c) ==
  /\ state[c] = "holding"
  /\ Move(c, "dropping")
  /\ UNCHANGED <<entries, refs, token, key, entry>>

\* The unlock function sends the token back. The channel has room for one.
Unlock(c) ==
  /\ state[c] = "holding"
  /\ ~token[entry[c]]
  /\ token' = [token EXCEPT ![entry[c]] = TRUE]
  /\ Move(c, "dropping")
  /\ UNCHANGED <<entries, refs, key, entry>>

\* dropReference: the last one out removes the entry.
DropReference(c) ==
  /\ state[c] = "dropping"
  /\ refs' = [refs EXCEPT ![entry[c]] = @ - 1]
  /\ entries' = IF refs[entry[c]] = 1 /\ entries[key[c]] = entry[c]
                THEN [entries EXCEPT ![key[c]] = NoEntry] ELSE entries
  /\ Move(c, "idle")
  /\ UNCHANGED <<token, key, entry>>

LockNext ==
  \E c \in Lockers :
    \/ \E k \in Keys : Lock(c, k)
    \/ TakeLock(c) \/ Cancel(c) \/ Unlock(c) \/ DropReference(c)

LockSpec == LockInit /\ [][LockNext]_lockVars

-----------------------------------------------------------------------------
\* At most one caller is between Lock and unlock on one key, although the
\* entry of the key is dropped and made again under the callers' feet.
MutualExclusion ==
  \A c, d \in Lockers :
    state[c] = "holding" /\ state[d] = "holding" /\ key[c] = key[d] => c = d

\* The map holds what is in use and nothing else: it does not grow with the
\* volumes ever seen (EntryCount), and no caller waits on an entry that a
\* later caller of the same key would not find.
EntriesInUse ==
  /\ \A k \in Keys : entries[k] # NoEntry =>
       \E c \in Lockers : state[c] # "idle" /\ entry[c] = entries[k]
  /\ \A c \in Lockers : state[c] # "idle" => entries[key[c]] = entry[c]

\* The unlock function never blocks: its channel has room.
UnlockNeverBlocks ==
  \A c \in Lockers : state[c] = "holding" => ~token[entry[c]]

\* The reference counts are exact, keys share no entry, and the token of an
\* entry in the map is either inside or with its one holder: the inductive
\* invariant of lock.go.
LockSafety ==
  /\ LockTypeOK /\ EntriesInUse
  /\ \A e \in Entries : refs[e] = Cardinality(Users(e))
  /\ \A k, l \in Keys : entries[k] # NoEntry /\ entries[k] = entries[l] => k = l
  /\ \A c, d \in Lockers :
       state[c] = "holding" /\ state[d] = "holding" /\ entry[c] = entry[d]
         => c = d
  /\ \A k \in Keys : entries[k] # NoEntry =>
       (token[entries[k]] <=>
          \A c \in Lockers : ~(state[c] = "holding" /\ entry[c] = entries[k]))
=============================================================================
