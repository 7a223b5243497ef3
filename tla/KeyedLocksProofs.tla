--------------------------- MODULE KeyedLocksProofs ---------------------------
(***************************************************************************)
(* Proofs about KeyedLocks, for every set of workers, keys and locks.      *)
(*                                                                         *)
(* A worker's reference keeps the key's entry in the map, because the      *)
(* count of an entry is the number of its users: that is RefsCountUsers,   *)
(* and with it a worker's lock is its key's entry for as long as the       *)
(* worker is inside withLock.  Two workers under one key therefore share   *)
(* one lock object, whose mutex has one owner.                             *)
(***************************************************************************)
EXTENDS KeyedLocks, FiniteSetTheorems, TLAPS

\* Every worker inside withLock uses the lock object the map has for its key.
UserHasEntry ==
  \A w \in Workers :
    pc[w] # "idle" => /\ key[w] \in Keys
                      /\ lock[w] \in Locks
                      /\ locks[key[w]] = lock[w]

RefsCountUsers == \A o \in Locks : refs[o] = Cardinality(Users(o))

EntryHasUser == \A k \in Keys : locks[k] # Nil => Users(locks[k]) # {}

EntriesDiffer ==
  \A k1, k2 \in Keys : locks[k1] = locks[k2] /\ locks[k1] # Nil => k1 = k2

OwnerIsLocked ==
  \A o \in Locks, w \in Workers :
    owner[o] = w <=> pc[w] = "locked" /\ lock[w] = o

CachedIsCreated ==
  \A k \in Keys :
    locks[k] # Nil => created[k] = IF certificate[locks[k]] THEN 1 ELSE 0

IInv ==
  /\ TypeOK
  /\ UserHasEntry
  /\ RefsCountUsers
  /\ EntryHasUser
  /\ EntriesDiffer
  /\ OwnerIsLocked
  /\ CachedIsCreated

USE DEF Stages

----------------------------------------------------------------------------
\* The users of a lock object are finitely many, so their count is a number
\* that is zero only when there is none.
LEMMA UsersFinite ==
  ASSUME NEW o
  PROVE  /\ IsFiniteSet(Users(o))
         /\ Cardinality(Users(o)) \in Nat
         /\ Cardinality(Users(o)) = 0 <=> Users(o) = {}
<1>1. Users(o) \subseteq Workers
  BY DEF Users
<1>2. IsFiniteSet(Users(o))
  BY <1>1, KeyedLocksAssumption, FS_Subset
<1>. QED
  BY <1>2, FS_CardinalityType, FS_EmptySet

\* The inductive invariant holds initially: no worker is inside withLock.
LEMMA InitIInv == Init => IInv
<1>. SUFFICES ASSUME Init PROVE IInv
  OBVIOUS
<1>. USE DEF Init
<1>1. TypeOK
  BY DEF TypeOK
<1>2. \A o : Users(o) = {}
  BY DEF Users
<1>3. RefsCountUsers
  BY <1>2, FS_EmptySet DEF RefsCountUsers
<1>4. UserHasEntry /\ EntryHasUser /\ EntriesDiffer /\ CachedIsCreated
  BY DEF UserHasEntry, EntryHasUser, EntriesDiffer, CachedIsCreated
<1>5. OwnerIsLocked
  BY KeyedLocksAssumption DEF OwnerIsLocked
<1>. QED
  BY <1>1, <1>3, <1>4, <1>5 DEF IInv

\* acquire adds one user to the entry it found, and one to its count.
LEMMA AcquireKnownIInv ==
  ASSUME IInv, NEW w \in Workers, NEW k \in Keys, AcquireKnown(w, k)
  PROVE  IInv'
<1>. DEFINE o == locks[k]
<1>. USE DEF IInv, AcquireKnown
<1>1. o \in Locks
  BY DEF TypeOK
<1>2. TypeOK'
  BY DEF TypeOK
<1>3. \A p \in Locks : Users(p)' = IF p = o THEN Users(p) \cup {w} ELSE Users(p)
  BY <1>1, KeyedLocksAssumption DEF Users, TypeOK
<1>4. w \notin Users(o)
  BY DEF Users
<1>5. RefsCountUsers'
  BY <1>1, <1>3, <1>4, UsersFinite, FS_AddElement DEF RefsCountUsers, TypeOK
<1>6. UserHasEntry'
  BY <1>1 DEF UserHasEntry, TypeOK
<1>7. EntryHasUser'
  BY <1>3 DEF EntryHasUser, TypeOK
<1>8. EntriesDiffer'
  BY DEF EntriesDiffer
<1>9. OwnerIsLocked'
  BY DEF OwnerIsLocked, TypeOK
<1>10. CachedIsCreated'
  BY DEF CachedIsCreated
<1>. QED
  BY <1>2, <1>5, <1>6, <1>7, <1>8, <1>9, <1>10

\* acquire installs a lock object no one can reach; the worker is its only user.
LEMMA AcquireNewIInv ==
  ASSUME IInv, NEW w \in Workers, NEW k \in Keys, AcquireNew(w, k)
  PROVE  IInv'
<1>. USE DEF IInv
<1>1. PICK o \in Locks :
        /\ Fresh(o)
        /\ locks' = [locks EXCEPT ![k] = o]
        /\ refs' = [refs EXCEPT ![o] = 1]
        /\ owner' = [owner EXCEPT ![o] = Nil]
        /\ certificate' = [certificate EXCEPT ![o] = FALSE]
        /\ lock' = [lock EXCEPT ![w] = o]
  BY DEF AcquireNew
<1>2. /\ pc[w] = "idle"
      /\ locks[k] = Nil
      /\ created' = [created EXCEPT ![k] = 0]
      /\ key' = [key EXCEPT ![w] = k]
      /\ pc' = [pc EXCEPT ![w] = "acquired"]
  BY DEF AcquireNew
<1>3. TypeOK'
  BY <1>1, <1>2 DEF TypeOK
<1>4. \A p \in Locks : Users(p)' = IF p = o THEN {w} ELSE Users(p)
  BY <1>1, <1>2 DEF Users, TypeOK, Fresh
<1>5. RefsCountUsers'
  BY <1>1, <1>4, FS_Singleton DEF RefsCountUsers, TypeOK
<1>6. UserHasEntry'
  BY <1>1, <1>2, KeyedLocksAssumption DEF UserHasEntry, TypeOK
<1>7. EntryHasUser'
  BY <1>1, <1>2, <1>4 DEF EntryHasUser, TypeOK
<1>8. EntriesDiffer'
  BY <1>1, <1>2 DEF EntriesDiffer, TypeOK, Fresh
<1>9. OwnerIsLocked'
  BY <1>1, <1>2, KeyedLocksAssumption DEF OwnerIsLocked, TypeOK, Fresh, Users
<1>10. CachedIsCreated'
  BY <1>1, <1>2 DEF CachedIsCreated, TypeOK, Fresh
<1>. QED
  BY <1>3, <1>5, <1>6, <1>7, <1>8, <1>9, <1>10

\* Locking, running the operation and unlocking leave the users as they are.
LEMMA LockIInv ==
  ASSUME IInv, NEW w \in Workers, Lock(w)
  PROVE  IInv'
<1>. USE DEF IInv, Lock
<1>1. lock[w] \in Locks
  BY DEF UserHasEntry
<1>2. TypeOK'
  BY <1>1 DEF TypeOK
<1>3. \A p : Users(p)' = Users(p)
  BY DEF Users, TypeOK
<1>4. RefsCountUsers' /\ EntryHasUser'
  BY <1>3 DEF RefsCountUsers, EntryHasUser
<1>5. UserHasEntry' /\ EntriesDiffer' /\ CachedIsCreated'
  BY DEF UserHasEntry, EntriesDiffer, CachedIsCreated, TypeOK
<1>6. OwnerIsLocked'
  BY <1>1, KeyedLocksAssumption DEF OwnerIsLocked, TypeOK
<1>. QED
  BY <1>2, <1>4, <1>5, <1>6

\* An operation that succeeds leaves the certificate it created on the entry,
\* and only the first one to do so created it.
LEMMA SucceedIInv ==
  ASSUME IInv, NEW w \in Workers, Succeed(w)
  PROVE  IInv'
<1>. USE DEF IInv, Succeed, Unlock, Cached
<1>1. lock[w] \in Locks /\ key[w] \in Keys /\ locks[key[w]] = lock[w]
  BY DEF UserHasEntry
<1>2. TypeOK'
  BY <1>1 DEF TypeOK
<1>3. \A p : Users(p)' = Users(p)
  BY DEF Users, TypeOK
<1>4. RefsCountUsers' /\ EntryHasUser'
  BY <1>3 DEF RefsCountUsers, EntryHasUser
<1>5. UserHasEntry' /\ EntriesDiffer'
  BY DEF UserHasEntry, EntriesDiffer, TypeOK
<1>6. CachedIsCreated'
  BY <1>1, KeyedLocksAssumption DEF CachedIsCreated, EntriesDiffer, TypeOK
<1>7. OwnerIsLocked'
  BY <1>1, KeyedLocksAssumption DEF OwnerIsLocked, TypeOK
<1>. QED
  BY <1>2, <1>4, <1>5, <1>6, <1>7

\* An operation that fails changes nothing but the mutex.
LEMMA FailIInv ==
  ASSUME IInv, NEW w \in Workers, Fail(w)
  PROVE  IInv'
<1>. USE DEF IInv, Fail, Unlock
<1>1. lock[w] \in Locks
  BY DEF UserHasEntry
<1>2. TypeOK'
  BY <1>1 DEF TypeOK
<1>3. \A p : Users(p)' = Users(p)
  BY DEF Users, TypeOK
<1>4. RefsCountUsers' /\ EntryHasUser'
  BY <1>3 DEF RefsCountUsers, EntryHasUser
<1>5. UserHasEntry' /\ EntriesDiffer' /\ CachedIsCreated'
  BY DEF UserHasEntry, EntriesDiffer, CachedIsCreated, TypeOK
<1>6. OwnerIsLocked'
  BY <1>1, KeyedLocksAssumption DEF OwnerIsLocked, TypeOK
<1>. QED
  BY <1>2, <1>4, <1>5, <1>6

\* release removes one user from the entry and, when that was the last, the
\* entry itself: no worker is left that counts on it.
LEMMA ReleaseIInv ==
  ASSUME IInv, NEW w \in Workers, Release(w)
  PROVE  IInv'
<1>. DEFINE o == lock[w]
<1>. USE DEF IInv, Release, Remaining
<1>1. /\ o \in Locks /\ key[w] \in Keys /\ locks[key[w]] = o
      /\ w \in Users(o)
  BY DEF UserHasEntry, Users
<1>2. \A p \in Locks : Users(p)' = IF p = o THEN Users(p) \ {w} ELSE Users(p)
  BY <1>1 DEF Users, TypeOK
<1>3. /\ refs[o] = Cardinality(Users(o))
      /\ Cardinality(Users(o) \ {w}) = refs[o] - 1
      /\ Cardinality(Users(o) \ {w}) \in Nat
      /\ Cardinality(Users(o) \ {w}) = 0 <=> Users(o) \ {w} = {}
  <2>1. refs[o] = Cardinality(Users(o))
    BY <1>1 DEF RefsCountUsers
  <2>2. IsFiniteSet(Users(o))
    BY UsersFinite
  <2>3. /\ IsFiniteSet(Users(o) \ {w})
        /\ Cardinality(Users(o) \ {w}) = Cardinality(Users(o)) - 1
    BY <1>1, <2>2, FS_RemoveElement, Zenon
  <2>4. Cardinality(Users(o) \ {w}) \in Nat
    BY <2>3, FS_CardinalityType
  <2>5. Cardinality(Users(o) \ {w}) = 0 <=> Users(o) \ {w} = {}
    BY <2>3, FS_EmptySet
  <2>. QED
    BY <2>1, <2>3, <2>4, <2>5
<1>4. TypeOK'
  BY <1>1, <1>3 DEF TypeOK
<1>5. RefsCountUsers'
  BY <1>1, <1>2, <1>3 DEF RefsCountUsers, TypeOK
<1>6. LastReference(w) <=> Users(o) \ {w} = {}
  BY <1>1, <1>3 DEF LastReference, EntryIsOurs
<1>7. UserHasEntry'
  <2>. SUFFICES ASSUME NEW v \in Workers, pc'[v] # "idle"
                PROVE  /\ key'[v] \in Keys
                       /\ lock'[v] \in Locks
                       /\ locks'[key'[v]] = lock'[v]
    BY DEF UserHasEntry
  <2>1. /\ v # w /\ pc[v] # "idle" /\ key'[v] = key[v] /\ lock'[v] = lock[v]
        /\ key[v] \in Keys /\ lock[v] \in Locks /\ locks[key[v]] = lock[v]
    BY DEF TypeOK, UserHasEntry
  <2>2. LastReference(w) => key[v] # key[w]
    BY <1>1, <1>6, <2>1 DEF Users
  <2>. QED
    BY <1>1, <2>1, <2>2 DEF TypeOK
<1>8. EntryHasUser'
  BY <1>1, <1>2, <1>6, KeyedLocksAssumption DEF EntryHasUser, EntriesDiffer, TypeOK
<1>9. EntriesDiffer'
  BY <1>1 DEF EntriesDiffer, TypeOK
<1>10. OwnerIsLocked'
  BY <1>1, KeyedLocksAssumption DEF OwnerIsLocked, TypeOK
<1>11. CachedIsCreated'
  BY <1>1 DEF CachedIsCreated, TypeOK
<1>. QED
  BY <1>4, <1>5, <1>7, <1>8, <1>9, <1>10, <1>11

\* Every step preserves the inductive invariant.
LEMMA NextIInv == IInv /\ [Next]_vars => IInv'
<1>. SUFFICES ASSUME IInv, [Next]_vars PROVE IInv'
  OBVIOUS
<1>1. ASSUME NEW w \in Workers, Acquire(w) PROVE IInv'
  BY <1>1, AcquireKnownIInv, AcquireNewIInv DEF Acquire
<1>2. ASSUME NEW w \in Workers, Lock(w) \/ Succeed(w) \/ Fail(w) \/ Release(w)
      PROVE  IInv'
  BY <1>2, LockIInv, SucceedIInv, FailIInv, ReleaseIInv
<1>3. CASE UNCHANGED vars
  BY <1>3 DEF vars, IInv, TypeOK, UserHasEntry, RefsCountUsers, EntryHasUser,
     EntriesDiffer, OwnerIsLocked, CachedIsCreated, Users
<1>. QED
  BY <1>1, <1>2, <1>3 DEF Next

\* The inductive invariant holds in every reachable state.
LEMMA SpecIInv == Spec => []IInv
  BY InitIInv, NextIInv, PTL DEF Spec

----------------------------------------------------------------------------
\* The variables keep their types; in particular release never counts below 0.
THEOREM TypeCorrect == Spec => []TypeOK
<1>1. IInv => TypeOK
  BY DEF IInv
<1>. QED
  BY <1>1, SpecIInv, PTL

\* What MutualExclusion needs of the invariant: workers under one key hold one
\* lock object, and its mutex has one owner.
LEMMA IInvExcludes == IInv => MutualExclusion
BY DEF IInv, MutualExclusion, UserHasEntry, OwnerIsLocked

\* No two operations run under the same key at once, whatever the number of
\* workers, keys and lock objects.
THEOREM MutualExclusionHolds == Spec => []MutualExclusion
BY SpecIInv, IInvExcludes, PTL

\* The map has an entry exactly for the keys in use.
THEOREM EntriesAreInUseHolds == Spec => []EntriesAreInUse
<1>1. IInv => EntriesAreInUse
  <2>. SUFFICES ASSUME IInv, NEW k \in Keys
                PROVE  locks[k] # Nil <=> \E w \in Workers : pc[w] # "idle" /\ key[w] = k
    BY DEF EntriesAreInUse
  <2>1. ASSUME locks[k] # Nil
        PROVE  \E w \in Workers : pc[w] # "idle" /\ key[w] = k
    <3>1. PICK w \in Workers : pc[w] # "idle" /\ lock[w] = locks[k]
      BY <2>1 DEF IInv, EntryHasUser, Users
    <3>2. key[w] \in Keys /\ locks[key[w]] = locks[k]
      BY <3>1 DEF IInv, UserHasEntry
    <3>. QED
      BY <2>1, <3>1, <3>2 DEF IInv, EntriesDiffer
  <2>2. ASSUME NEW w \in Workers, pc[w] # "idle", key[w] = k
        PROVE  locks[k] # Nil
    BY <2>2, KeyedLocksAssumption DEF IInv, UserHasEntry
  <2>. QED
    BY <2>1, <2>2
<1>. QED
  BY <1>1, SpecIInv, PTL

\* A certificate is created at most once while its entry lives.
THEOREM CreatedAtMostOnceHolds == Spec => []CreatedAtMostOnce
<1>1. IInv => CreatedAtMostOnce
  BY DEF IInv, CreatedAtMostOnce, CachedIsCreated, TypeOK
<1>. QED
  BY <1>1, SpecIInv, PTL

----------------------------------------------------------------------------
\* w runs an operation under k.
RunsUnder(w, k) == pc[w] = "locked" /\ key[w] = k

\* What the refinement mapping says: the holder of a key is the worker running
\* under it, and Nil when none is.
HolderRuns ==
  /\ holderOf = [k \in Keys |-> holderOf[k]]
  /\ \A k \in Keys, w \in Workers : RunsUnder(w, k) => holderOf[k] = w
  /\ \A k \in Keys : (\A w \in Workers : ~RunsUnder(w, k)) => holderOf[k] = Nil

\* With mutual exclusion the mapping is well defined.
LEMMA HolderRunsNow == MutualExclusion => HolderRuns
BY DEF MutualExclusion, HolderRuns, RunsUnder, holderOf

\* The same, after a step.
LEMMA HolderRunsNext == MutualExclusion' => HolderRuns'
BY DEF MutualExclusion, HolderRuns, RunsUnder, holderOf

\* A step that leaves alone who runs under which key is a stutter of KeyedMutex.
LEMMA SameRunners ==
  ASSUME HolderRuns, HolderRuns',
         \A w \in Workers, k \in Keys : RunsUnder(w, k)' <=> RunsUnder(w, k)
  PROVE  holderOf' = holderOf
<1>1. ASSUME NEW k \in Keys PROVE holderOf'[k] = holderOf[k]
  <2>1. CASE \E w \in Workers : RunsUnder(w, k)
    BY <2>1 DEF HolderRuns
  <2>2. CASE \A w \in Workers : ~RunsUnder(w, k)
    BY <2>2 DEF HolderRuns
  <2>. QED
    BY <2>1, <2>2
<1>. QED
  BY <1>1 DEF HolderRuns

\* Taking the lock of a key's entry is entering the key's mutex.
LEMMA LockEnters ==
  ASSUME IInv, HolderRuns, HolderRuns', NEW w \in Workers, Lock(w)
  PROVE  Mutex!Enter(w, key[w])
<1>. DEFINE k == key[w]
<1>1. k \in Keys /\ lock[w] \in Locks /\ locks[k] = lock[w] /\ owner[lock[w]] = Nil
  BY DEF IInv, UserHasEntry, Lock
<1>2. \A v \in Workers : ~RunsUnder(v, k)
  BY <1>1, KeyedLocksAssumption DEF IInv, UserHasEntry, OwnerIsLocked, RunsUnder
<1>3. holderOf[k] = Nil
  BY <1>1, <1>2 DEF HolderRuns
<1>4. \A v \in Workers, j \in Keys :
        RunsUnder(v, j)' <=> RunsUnder(v, j) \/ (v = w /\ j = k)
  BY <1>1 DEF RunsUnder, Lock, IInv, TypeOK
<1>5. holderOf'[k] = w
  BY <1>1, <1>4 DEF HolderRuns
<1>6. ASSUME NEW j \in Keys, j # k PROVE holderOf'[j] = holderOf[j]
  <2>1. CASE \E v \in Workers : RunsUnder(v, j)
    BY <1>4, <1>6, <2>1 DEF HolderRuns
  <2>2. CASE \A v \in Workers : ~RunsUnder(v, j)
    BY <1>4, <1>6, <2>2 DEF HolderRuns
  <2>. QED
    BY <2>1, <2>2
<1>. QED
  BY <1>1, <1>3, <1>5, <1>6 DEF HolderRuns, Mutex!Enter

\* Ending an operation, with or without success, is leaving the key's mutex.
LEMMA EndLeaves ==
  ASSUME IInv, HolderRuns, HolderRuns', NEW w \in Workers, Succeed(w) \/ Fail(w)
  PROVE  Mutex!Leave(w, key[w])
<1>. DEFINE k == key[w]
<1>1. k \in Keys /\ RunsUnder(w, k)
  BY DEF IInv, UserHasEntry, Succeed, Fail, RunsUnder
<1>2. \A v \in Workers, j \in Keys :
        RunsUnder(v, j)' <=> RunsUnder(v, j) /\ ~(v = w /\ j = k)
  BY <1>1 DEF RunsUnder, Succeed, Fail, IInv, TypeOK
<1>3. holderOf[k] = w
  BY <1>1 DEF HolderRuns
<1>4. \A v \in Workers : RunsUnder(v, k) => v = w
  BY <1>1, <1>3 DEF HolderRuns
<1>5. holderOf'[k] = Nil
  BY <1>1, <1>2, <1>4 DEF HolderRuns
<1>6. ASSUME NEW j \in Keys, j # k PROVE holderOf'[j] = holderOf[j]
  <2>1. CASE \E v \in Workers : RunsUnder(v, j)
    BY <1>2, <1>6, <2>1 DEF HolderRuns
  <2>2. CASE \A v \in Workers : ~RunsUnder(v, j)
    BY <1>2, <1>6, <2>2 DEF HolderRuns
  <2>. QED
    BY <2>1, <2>2
<1>. QED
  BY <1>1, <1>3, <1>5, <1>6 DEF HolderRuns, Mutex!Leave

\* Every step of the reference-counted locks is a step of the plain mutexes or a
\* stutter: acquire and release are invisible.
LEMMA StepSimulation ==
  IInv /\ IInv' /\ [Next]_vars => [Mutex!Next]_holderOf
<1>. SUFFICES ASSUME IInv, IInv', [Next]_vars PROVE [Mutex!Next]_holderOf
  OBVIOUS
<1>1. MutualExclusion /\ MutualExclusion'
  BY DEF IInv, MutualExclusion, UserHasEntry, OwnerIsLocked
<1>2. HolderRuns /\ HolderRuns'
  BY <1>1, HolderRunsNow, HolderRunsNext
<1>3. ASSUME NEW w \in Workers, Lock(w) PROVE Mutex!Next
  BY <1>2, <1>3, LockEnters DEF IInv, UserHasEntry, Lock, Mutex!Next
<1>4. ASSUME NEW w \in Workers, Succeed(w) \/ Fail(w) PROVE Mutex!Next
  BY <1>2, <1>4, EndLeaves DEF IInv, UserHasEntry, Succeed, Fail, Mutex!Next
<1>5. ASSUME NEW w \in Workers, Acquire(w) \/ Release(w) PROVE holderOf' = holderOf
  <2>1. \A v \in Workers, j \in Keys : RunsUnder(v, j)' <=> RunsUnder(v, j)
    BY <1>5 DEF Acquire, AcquireKnown, AcquireNew, Release, RunsUnder, IInv, TypeOK
  <2>. QED
    BY <1>2, <2>1, SameRunners
<1>6. CASE UNCHANGED vars
  BY <1>6 DEF vars, holderOf
<1>. QED
  BY <1>3, <1>4, <1>5, <1>6 DEF Next

\* The reference-counted, deleted and recreated lock objects implement one plain
\* mutex per key, for every set of workers, keys and lock objects.
THEOREM LocksImplementMutex == Spec => ImplementsMutex
<1>1. Init => Mutex!Init
  BY DEF Init, Mutex!Init, holderOf
<1>. QED
  BY <1>1, SpecIInv, StepSimulation, PTL DEF Spec, ImplementsMutex, Mutex!Spec

=============================================================================
