------------------------- MODULE DistributedLockProofs -------------------------
(***************************************************************************)
(* Exclusion for any keys, tokens, snapshots, renewals and restarts.       *)
(*                                                                         *)
(* The argument: a token that is still valid stands at its place in the    *)
(* tables (ValidHeld), where two mutexes or two writers of a key cannot    *)
(* both be, and a writer with a lease has no reader with a lease beside it *)
(* (WriterAlone).  Leases come back only to mutexes, by a late renewal, so *)
(* nobody who was overwritten while expired becomes valid again; and what  *)
(* a restart reads from the snapshot had the same shape when it was saved, *)
(* for no lease of a reader or a writer has been lengthened since.         *)
(***************************************************************************)
EXTENDS DistributedLock, SequenceTheorems, TLAPS

LeaseTypes ==
    /\ tables \in Tables
    /\ saved \in Tables
    /\ leases \subseteq Tokens
    /\ granted \subseteq Tokens
    /\ unsaved \subseteq granted

\* Every entry of T is a token handed out for that key and that kind of lock.
Placed(T) ==
    /\ \A k \in Keys : T.mutex[k] # NoToken =>
         T.mutex[k] \in granted /\ KeyOf[T.mutex[k]] = k /\ KindOf[T.mutex[k]] = "mutex"
    /\ \A k \in Keys : T.writer[k] # NoToken =>
         T.writer[k] \in granted /\ KeyOf[T.writer[k]] = k /\ KindOf[T.writer[k]] = "write"
    /\ \A k \in Keys : \A t \in T.readers[k] :
         t \in granted /\ KeyOf[t] = k /\ KindOf[t] = "read"
    /\ \A k \in Keys : \A t \in T.holders[k] :
         t \in granted /\ KeyOf[t] = k /\ KindOf[t] = "permit"

WriterAlone(T) ==
    \A k \in Keys : T.writer[k] \in leases => T.readers[k] \cap leases = {}

Held(T, t) ==
    /\ KindOf[t] = "mutex" => T.mutex[KeyOf[t]] = t
    /\ KindOf[t] = "write" => T.writer[KeyOf[t]] = t
    /\ KindOf[t] = "read" => t \in T.readers[KeyOf[t]]

ValidHeld == \A t \in Valid : Held(tables, t)

\* Of what the snapshot holds only mutexes have been renewed since.
RenewedAreMutexes == \A t \in unsaved : t \in InTables(saved) => KindOf[t] = "mutex"

SavedInv == Placed(saved) /\ WriterAlone(saved) /\ RenewedAreMutexes

TablesInv == Placed(tables) /\ WriterAlone(tables) /\ ValidHeld

LockInv == LeaseTypes /\ SavedInv /\ TablesInv

-----------------------------------------------------------------------------
\* The tokens in a table, one place at a time.
LEMMA InTablesMeans ==
    ASSUME NEW T \in Tables, NEW t \in Tokens, t \in InTables(T)
    PROVE  \E k \in Keys : T.mutex[k] = t \/ T.writer[k] = t
                             \/ t \in T.readers[k] \/ t \in T.holders[k]
BY DEF InTables, Tables

LEMMA InTablesFrom ==
    ASSUME NEW T \in Tables, NEW t \in Tokens, NEW k \in Keys,
           T.writer[k] = t \/ t \in T.readers[k]
    PROVE  t \in InTables(T)
<1>1. t # NoToken
  BY LockAssumption
<1>2. t \in {T.mutex[k], T.writer[k]} \cup T.readers[k] \cup T.holders[k]
  OBVIOUS
<1> QED BY <1>1, <1>2 DEF InTables

\* What is in a table stands at its place.
LEMMA InTablesHeld ==
    ASSUME NEW T \in Tables, Placed(T), NEW t \in Tokens, t \in InTables(T)
    PROVE  t \in granted /\ Held(T, t)
<1>1. PICK k \in Keys : T.mutex[k] = t \/ T.writer[k] = t
                          \/ t \in T.readers[k] \/ t \in T.holders[k]
  BY InTablesMeans
<1>2. t # NoToken
  BY LockAssumption
<1> QED BY <1>1, <1>2 DEF Placed, Held

\* Exclusion follows from the inductive invariant.
LEMMA InvImpliesExclusion == LockInv => Exclusion
<1> SUFFICES ASSUME LockInv, NEW t \in Valid, NEW u \in Valid, Conflict(t, u)
             PROVE  FALSE
  BY DEF Exclusion
<1>1. Held(tables, t) /\ Held(tables, u)
  BY DEF LockInv, TablesInv, ValidHeld
<1>2. t \in leases /\ u \in leases /\ t \in Tokens
  BY DEF Valid, LockInv, LeaseTypes
<1>3. KeyOf[t] \in Keys
  BY <1>2, LockAssumption
<1>4. CASE KindOf[t] = "mutex" /\ KindOf[u] = "mutex"
  BY <1>1, <1>4 DEF Held, Conflict
<1>5. CASE KindOf[t] = "write" /\ KindOf[u] = "write"
  BY <1>1, <1>5 DEF Held, Conflict
<1>6. CASE KindOf[t] = "write" /\ KindOf[u] = "read"
  <2>1. tables.writer[KeyOf[t]] \in leases /\ u \in tables.readers[KeyOf[t]]
    BY <1>1, <1>2, <1>6 DEF Held, Conflict
  <2> QED BY <1>2, <1>3, <2>1 DEF LockInv, TablesInv, WriterAlone
<1> QED BY <1>4, <1>5, <1>6 DEF Conflict

-----------------------------------------------------------------------------
\* No reader or writer handed out before gets a new lease.
LeasesKept ==
    /\ granted \subseteq granted'
    /\ \A t \in Tokens : t \in leases' => t \in leases \/ t \notin granted \/ KindOf[t] = "mutex"

\* A table keeps its shape while it does not change.
LEMMA TableKept ==
    ASSUME NEW T \in Tables, Placed(T), WriterAlone(T), LeasesKept,
           granted \subseteq Tokens
    PROVE  /\ \A k \in Keys : T.mutex[k] # NoToken =>
                T.mutex[k] \in granted' /\ KeyOf[T.mutex[k]] = k
                  /\ KindOf[T.mutex[k]] = "mutex"
           /\ \A k \in Keys : T.writer[k] # NoToken =>
                T.writer[k] \in granted' /\ KeyOf[T.writer[k]] = k
                  /\ KindOf[T.writer[k]] = "write"
           /\ \A k \in Keys : \A t \in T.readers[k] :
                t \in granted' /\ KeyOf[t] = k /\ KindOf[t] = "read"
           /\ \A k \in Keys : \A t \in T.holders[k] :
                t \in granted' /\ KeyOf[t] = k /\ KindOf[t] = "permit"
           /\ leases' \subseteq Tokens =>
                \A k \in Keys : T.writer[k] \in leases' => T.readers[k] \cap leases' = {}
<1>1. granted \subseteq granted'
  BY DEF LeasesKept
<1>2. ASSUME leases' \subseteq Tokens, NEW k \in Keys, T.writer[k] \in leases',
             NEW t \in T.readers[k], t \in leases'
      PROVE  FALSE
  <2>1. T.writer[k] # NoToken
    BY <1>2, LockAssumption
  <2>2. T.writer[k] \in leases
    BY <1>2, <2>1 DEF LeasesKept, Placed
  <2>3. t \in leases
    BY <1>2 DEF LeasesKept, Placed
  <2> QED BY <2>2, <2>3 DEF WriterAlone
<1> QED BY <1>1, <1>2 DEF Placed

\* A step that leaves the snapshot alone and renews at most mutexes.
LEMMA SavedKept ==
    ASSUME LeaseTypes, SavedInv, LeasesKept, leases' \subseteq Tokens, saved' = saved,
           \A t \in unsaved' : t \in unsaved \/ t \notin granted \/ KindOf[t] = "mutex",
           unsaved' \subseteq Tokens
    PROVE  SavedInv'
<1>1. saved \in Tables /\ granted \subseteq Tokens
  BY DEF LeaseTypes
<1>2. Placed(saved)' /\ WriterAlone(saved)'
  BY <1>1, TableKept DEF SavedInv, Placed, WriterAlone
<1>3. ASSUME NEW t \in unsaved', t \in InTables(saved')
      PROVE  KindOf[t] = "mutex"
  <2>1. t \in InTables(saved)
    BY <1>3 DEF InTables
  <2>2. t \in granted
    BY <1>1, <2>1, InTablesHeld DEF SavedInv
  <2> QED BY <2>1, <2>2 DEF SavedInv, RenewedAreMutexes
<1>4. RenewedAreMutexes'
  BY <1>3 DEF RenewedAreMutexes
<1> QED BY <1>2, <1>4 DEF SavedInv

-----------------------------------------------------------------------------
\* Entries are only taken out of the tables.
Pruning ==
    \A k \in Keys :
        /\ tables'.mutex[k] \in {tables.mutex[k], NoToken}
        /\ tables'.writer[k] \in {tables.writer[k], NoToken}
        /\ tables'.readers[k] \subseteq tables.readers[k]
        /\ tables'.holders[k] \subseteq tables.holders[k]

\* A step that grants nothing, prunes the tables and leaves the valid tokens in.
LEMMA TablesPruned ==
    ASSUME LockInv, Pruning, LeasesKept, granted' = granted, leases' \subseteq Tokens,
           \A t \in Valid' : Held(tables', t)
    PROVE  TablesInv'
<1>1. /\ Placed(tables)
      /\ WriterAlone(tables)
      /\ tables \in Tables
      /\ granted \subseteq Tokens
  BY DEF LockInv, TablesInv, LeaseTypes
<1>2. Placed(tables)'
  BY <1>1 DEF Pruning, Placed
<1>3. \A k \in Keys : tables.writer[k] \in leases' => tables.readers[k] \cap leases' = {}
  BY <1>1, TableKept
<1>4. ASSUME NEW k \in Keys, tables'.writer[k] \in leases'
      PROVE  tables'.readers[k] \cap leases' = {}
  <2>1. tables'.writer[k] = tables.writer[k]
    BY <1>4, LockAssumption DEF Pruning
  <2> QED BY <1>3, <1>4, <2>1 DEF Pruning
<1>5. WriterAlone(tables)'
  BY <1>4 DEF WriterAlone
<1>6. ValidHeld'
  BY DEF ValidHeld, Held
<1> QED BY <1>2, <1>5, <1>6 DEF TablesInv

\* Nothing of what the argument speaks of changes.
LEMMA Unchanged ==
    ASSUME LockInv, UNCHANGED <<tables, leases, saved, granted, ended, unsaved, forgotten>>
    PROVE  LockInv'
<1>1. LeaseTypes'
  BY DEF LockInv, LeaseTypes
<1>2. SavedInv'
  BY DEF LockInv, SavedInv, Placed, WriterAlone, RenewedAreMutexes, InTables
<1>3. TablesInv'
  BY DEF LockInv, TablesInv, Placed, WriterAlone, ValidHeld, Valid, Held
<1> QED BY <1>1, <1>2, <1>3 DEF LockInv

\* The snapshot's part for the steps that hand out at most the fresh token t.
LEMMA SavedAfter ==
    ASSUME LockInv, saved' = saved, NEW t \in Tokens, t \notin granted \/ KindOf[t] = "mutex",
           granted \subseteq granted', leases' \subseteq leases \cup {t},
           unsaved' \subseteq unsaved \cup {t}
    PROVE  SavedInv' /\ LeasesKept
<1>1. LeasesKept
  BY DEF LeasesKept
<1>2. LeaseTypes /\ SavedInv /\ leases' \subseteq Tokens /\ unsaved' \subseteq Tokens
  BY DEF LockInv, LeaseTypes
<1>3. \A u \in unsaved' : u \in unsaved \/ u \notin granted \/ KindOf[u] = "mutex"
  OBVIOUS
<1> QED BY <1>1, <1>2, <1>3, SavedKept

-----------------------------------------------------------------------------
\* acquire() overwrites only what has no lease.
LEMMA AcquireInv == ASSUME LockInv, NEW t \in Tokens, Acquire(t) PROVE LockInv'
<1> DEFINE k == KeyOf[t]
<1>1. /\ k \in Keys
      /\ t # NoToken
      /\ t \notin granted
      /\ KindOf[t] = "mutex"
      /\ tables.mutex[k] \notin leases
  BY LockAssumption DEF Acquire, Unused, Free, Locked
<1>2. /\ tables' = [tables EXCEPT !.mutex[k] = t]
      /\ leases' = leases \cup {t}
      /\ granted' = granted \cup {t}
      /\ unsaved' = unsaved \cup {t}
      /\ UNCHANGED <<saved, ended, forgotten>>
  BY DEF Acquire, Grant
<1> HIDE DEF k
<1>3. LeaseTypes'
  BY <1>1, <1>2 DEF LockInv, LeaseTypes, Tables
<1>4. SavedInv' /\ LeasesKept
  BY <1>1, <1>2, SavedAfter
<1>5. /\ tables'.mutex = [tables.mutex EXCEPT ![k] = t]
      /\ tables'.writer = tables.writer
      /\ tables'.readers = tables.readers
      /\ tables'.holders = tables.holders
      /\ tables.mutex \in [Keys -> Tokens \cup {NoToken}]
  BY <1>2 DEF LockInv, LeaseTypes, Tables
<1>6. Placed(tables) /\ WriterAlone(tables) /\ ValidHeld /\ LeaseTypes
  BY DEF LockInv, TablesInv
<1>7. Placed(tables)'
  BY <1>1, <1>2, <1>5, <1>6 DEF Placed, k
<1>8. WriterAlone(tables)'
  BY <1>3, <1>4, <1>5, <1>6, TableKept DEF WriterAlone, LeaseTypes
<1>9. ASSUME NEW u \in Valid' PROVE Held(tables', u)
  <2>1. CASE u = t
    BY <1>1, <1>5, <2>1 DEF Held, k
  <2>2. CASE u # t
    <3>1. u \in Valid
      BY <1>2, <2>2 DEF Valid
    <3>2. Held(tables, u) /\ u \in leases
      BY <1>6, <3>1 DEF ValidHeld, Valid
    <3> QED BY <1>1, <1>5, <3>2 DEF Held
  <2> QED BY <2>1, <2>2
<1>10. ValidHeld'
  BY <1>9 DEF ValidHeld, Held
<1> QED BY <1>3, <1>4, <1>7, <1>8, <1>10 DEF LockInv, TablesInv

\* acquireRead() goes ahead only when the writer, if any, has no lease.
LEMMA AcquireReadInv == ASSUME LockInv, NEW t \in Tokens, AcquireRead(t) PROVE LockInv'
<1> DEFINE k == KeyOf[t]
<1>1. /\ k \in Keys
      /\ t # NoToken
      /\ t \notin granted
      /\ KindOf[t] = "read"
      /\ tables.writer[k] \notin leases
  BY LockAssumption DEF AcquireRead, Unused, Written
<1>2. /\ tables' = [tables EXCEPT !.readers[k] = @ \cup {t}]
      /\ leases' = leases \cup {t}
      /\ granted' = granted \cup {t}
      /\ unsaved' = unsaved \cup {t}
      /\ UNCHANGED <<saved, ended, forgotten>>
  BY DEF AcquireRead, Grant
<1> HIDE DEF k
<1>3. LeaseTypes'
  BY <1>1, <1>2 DEF LockInv, LeaseTypes, Tables
<1>4. SavedInv' /\ LeasesKept
  BY <1>1, <1>2, SavedAfter
<1>5. /\ tables'.mutex = tables.mutex
      /\ tables'.writer = tables.writer
      /\ tables'.readers = [tables.readers EXCEPT ![k] = @ \cup {t}]
      /\ tables'.holders = tables.holders
      /\ tables.readers \in [Keys -> SUBSET Tokens]
  BY <1>2 DEF LockInv, LeaseTypes, Tables
<1>6. Placed(tables) /\ WriterAlone(tables) /\ ValidHeld /\ LeaseTypes
  BY DEF LockInv, TablesInv
<1>7. Placed(tables)'
  BY <1>1, <1>2, <1>5, <1>6 DEF Placed, k
<1>8. ASSUME NEW j \in Keys, tables'.writer[j] \in leases'
      PROVE  tables'.readers[j] \cap leases' = {}
  <2>1. tables.writer[j] # NoToken
    BY <1>3, <1>5, <1>8, LockAssumption DEF LeaseTypes
  <2>2. tables.writer[j] # t
    BY <1>1, <1>6, <2>1 DEF Placed
  <2>3. tables.writer[j] \in leases
    BY <1>2, <1>5, <1>8, <2>2
  <2>4. j # k
    BY <1>1, <2>3
  <2>5. tables'.readers[j] = tables.readers[j] /\ t \notin tables.readers[j]
    BY <1>1, <1>5, <1>6, <2>4 DEF Placed
  <2> QED BY <1>2, <1>6, <2>3, <2>5 DEF WriterAlone
<1>9. ASSUME NEW u \in Valid' PROVE Held(tables', u)
  <2>1. CASE u = t
    BY <1>1, <1>5, <2>1 DEF Held, k
  <2>2. CASE u # t
    <3>1. u \in Valid
      BY <1>2, <2>2 DEF Valid
    <3>2. Held(tables, u) /\ KeyOf[u] \in Keys
      BY <1>6, <3>1, LockAssumption DEF ValidHeld, Valid, LeaseTypes
    <3> QED BY <1>1, <1>5, <3>2 DEF Held
  <2> QED BY <2>1, <2>2
<1>10. WriterAlone(tables)' /\ ValidHeld'
  BY <1>8, <1>9 DEF WriterAlone, ValidHeld, Held
<1> QED BY <1>3, <1>4, <1>7, <1>10 DEF LockInv, TablesInv

\* acquireWrite() succeeds without readers or a writer that have a lease.
LEMMA AcquireWriteInv == ASSUME LockInv, NEW t \in Tokens, AcquireWrite(t) PROVE LockInv'
<1> DEFINE k == KeyOf[t]
<1>1. /\ k \in Keys
      /\ t # NoToken
      /\ t \notin granted
      /\ KindOf[t] = "write"
      /\ UNCHANGED <<saved, ended, forgotten>>
  BY LockAssumption DEF AcquireWrite, Unused, Grant, pastVars
<1>2. Placed(tables) /\ WriterAlone(tables) /\ ValidHeld /\ LeaseTypes
  BY DEF LockInv, TablesInv
<1>3. CASE NoReaders(k) /\ ~Written(k)
  <2>1. /\ tables' = [[tables EXCEPT !.readers[k] = @ \cap leases] EXCEPT !.writer[k] = t]
        /\ leases' = leases \cup {t}
        /\ granted' = granted \cup {t}
        /\ unsaved' = unsaved \cup {t}
        /\ tables.readers[k] \cap leases = {}
        /\ tables.writer[k] \notin leases
    BY <1>3 DEF AcquireWrite, Grant, NoReaders, Written
  <2> HIDE DEF k
  <2>2. LeaseTypes'
    BY <1>1, <1>2, <2>1 DEF LeaseTypes, Tables
  <2>3. SavedInv' /\ LeasesKept
    BY <1>1, <2>1, SavedAfter
  <2>4. /\ tables'.mutex = tables.mutex
        /\ tables'.writer = [tables.writer EXCEPT ![k] = t]
        /\ tables'.readers = [tables.readers EXCEPT ![k] = @ \cap leases]
        /\ tables'.holders = tables.holders
        /\ tables.readers \in [Keys -> SUBSET Tokens]
        /\ tables.writer \in [Keys -> Tokens \cup {NoToken}]
    BY <1>2, <2>1 DEF LeaseTypes, Tables
  <2>5. Placed(tables)'
    BY <1>1, <1>2, <2>1, <2>4 DEF Placed, k
  <2>6. ASSUME NEW j \in Keys, tables'.writer[j] \in leases'
        PROVE  tables'.readers[j] \cap leases' = {}
    <3>1. t \notin tables.readers[j]
      BY <1>1, <1>2 DEF Placed
    <3>2. CASE j = k
      BY <1>1, <2>1, <2>4, <3>1, <3>2
    <3>3. CASE j # k
      <4>1. tables.writer[j] # t
        BY <1>1, <1>2 DEF Placed
      <4>2. tables.writer[j] \in leases
        BY <2>1, <2>4, <2>6, <3>3, <4>1
      <4> QED BY <1>2, <2>1, <2>4, <3>1, <3>3, <4>2 DEF WriterAlone
    <3> QED BY <3>2, <3>3
  <2>7. ASSUME NEW u \in Valid' PROVE Held(tables', u)
    <3>1. CASE u = t
      BY <1>1, <2>4, <3>1 DEF Held, k
    <3>2. CASE u # t
      <4>1. u \in Valid
        BY <1>1, <2>1, <3>2 DEF Valid
      <4>2. Held(tables, u) /\ u \in leases /\ KeyOf[u] \in Keys
        BY <1>2, <4>1, LockAssumption DEF ValidHeld, Valid, LeaseTypes
      <4> QED BY <1>1, <2>1, <2>4, <4>2 DEF Held
    <3> QED BY <3>1, <3>2
  <2>8. WriterAlone(tables)' /\ ValidHeld'
    BY <2>6, <2>7 DEF WriterAlone, ValidHeld, Held
  <2> QED BY <2>2, <2>3, <2>5, <2>8 DEF LockInv, TablesInv
<1>4. CASE ~(NoReaders(k) /\ ~Written(k))
  <2>1. /\ tables' = [tables EXCEPT !.readers[k] = @ \cap leases]
        /\ UNCHANGED <<leases, granted, unsaved>>
    BY <1>4 DEF AcquireWrite, pastVars
  <2> HIDE DEF k
  <2>2. LeaseTypes'
    BY <1>1, <1>2, <2>1 DEF LeaseTypes, Tables
  <2>3. SavedInv' /\ LeasesKept
    BY <1>1, <2>1, SavedAfter
  <2>4. /\ tables'.mutex = tables.mutex
        /\ tables'.writer = tables.writer
        /\ tables'.readers = [tables.readers EXCEPT ![k] = @ \cap leases]
        /\ tables'.holders = tables.holders
        /\ tables.readers \in [Keys -> SUBSET Tokens]
    BY <1>2, <2>1 DEF LeaseTypes, Tables
  <2>5. Pruning
    BY <2>4 DEF Pruning
  <2>6. ASSUME NEW u \in Valid' PROVE Held(tables', u)
    <3>1. Held(tables, u) /\ u \in leases /\ KeyOf[u] \in Keys
      BY <1>1, <1>2, <2>1, LockAssumption DEF ValidHeld, Valid, LeaseTypes
    <3> QED BY <2>4, <3>1 DEF Held
  <2>7. TablesInv'
    BY <1>2, <2>1, <2>3, <2>5, <2>6, TablesPruned DEF LeaseTypes
  <2> QED BY <2>2, <2>3, <2>7 DEF LockInv
<1> QED BY <1>3, <1>4

\* A permit has no lease, so nobody's validity depends on it.
LEMMA AcquirePermitInv == ASSUME LockInv, NEW t \in Tokens, AcquirePermit(t) PROVE LockInv'
<1> DEFINE k == KeyOf[t]
<1>1. /\ k \in Keys
      /\ t \notin granted
      /\ KindOf[t] = "permit"
  BY LockAssumption DEF AcquirePermit, Unused
<1>2. /\ tables' = [tables EXCEPT !.holders[k] = @ \cup {t}]
      /\ granted' = granted \cup {t}
      /\ unsaved' = unsaved \cup {t}
      /\ UNCHANGED <<leases, saved, ended, forgotten>>
  BY DEF AcquirePermit, Grant
<1> HIDE DEF k
<1>3. LeaseTypes'
  BY <1>1, <1>2 DEF LockInv, LeaseTypes, Tables
<1>4. SavedInv' /\ LeasesKept
  BY <1>1, <1>2, SavedAfter
<1>5. /\ tables'.mutex = tables.mutex
      /\ tables'.writer = tables.writer
      /\ tables'.readers = tables.readers
      /\ tables'.holders = [tables.holders EXCEPT ![k] = @ \cup {t}]
      /\ tables.holders \in [Keys -> SUBSET Tokens]
  BY <1>2 DEF LockInv, LeaseTypes, Tables
<1>6. Placed(tables) /\ WriterAlone(tables) /\ ValidHeld
  BY DEF LockInv, TablesInv
<1>7. Placed(tables)'
  BY <1>1, <1>2, <1>5, <1>6 DEF Placed, k
<1>8. WriterAlone(tables)'
  BY <1>2, <1>5, <1>6 DEF WriterAlone
<1>9. ASSUME NEW u \in Valid' PROVE Held(tables', u)
  <2>1. CASE KindOf[u] = "permit"
    BY <2>1 DEF Held
  <2>2. CASE KindOf[u] # "permit"
    <3>1. u \in Valid
      BY <1>1, <1>2, <2>2 DEF Valid
    <3> QED BY <1>5, <1>6, <3>1 DEF ValidHeld, Held
  <2> QED BY <2>1, <2>2
<1>10. ValidHeld'
  BY <1>9 DEF ValidHeld, Held
<1> QED BY <1>3, <1>4, <1>7, <1>8, <1>10 DEF LockInv, TablesInv

-----------------------------------------------------------------------------
\* A release takes its token out of the tables and out of the valid ones.
LEMMA TakenOut ==
    ASSUME LockInv, tables' \in Tables, Pruning, NEW x,
           \A k \in Keys : \/ tables'.mutex[k] = tables.mutex[k]
                           \/ tables.mutex[k] = x,
           \A k \in Keys : \/ tables'.writer[k] = tables.writer[k]
                           \/ tables.writer[k] = x,
           \A k \in Keys : tables.readers[k] \subseteq tables'.readers[k] \cup {x},
           ended' = ended \cup {x},
           UNCHANGED <<leases, saved, granted, unsaved, forgotten>>
    PROVE  LockInv'
<1>1. LeaseTypes'
  BY DEF LockInv, LeaseTypes
<1>2. SavedInv'
  BY DEF LockInv, SavedInv, Placed, WriterAlone, RenewedAreMutexes, InTables
<1>3. LeasesKept
  BY DEF LeasesKept
<1>4. ASSUME NEW u \in Valid' PROVE Held(tables', u)
  <2>1. u \in Valid /\ u # x
    BY DEF Valid
  <2>2. Held(tables, u) /\ KeyOf[u] \in Keys
    BY <2>1, LockAssumption DEF LockInv, TablesInv, ValidHeld, Valid, LeaseTypes
  <2> QED BY <2>1, <2>2 DEF Held
<1>5. TablesInv'
  BY <1>1, <1>3, <1>4, TablesPruned DEF LeaseTypes
<1> QED BY <1>1, <1>2, <1>5 DEF LockInv

LEMMA UnlockInv ==
    ASSUME LockInv, NEW k \in Keys, Unlock(k), End(tables.mutex[k]) PROVE LockInv'
<1>1. /\ tables' = [tables EXCEPT !.mutex[k] = NoToken]
      /\ ended' = ended \cup {tables.mutex[k]}
      /\ UNCHANGED <<leases, saved, granted, unsaved, forgotten>>
  BY DEF Unlock, End
<1>2. tables' \in Tables
  BY <1>1 DEF LockInv, LeaseTypes, Tables
<1>3. /\ tables'.mutex = [tables.mutex EXCEPT ![k] = NoToken]
      /\ tables'.writer = tables.writer
      /\ tables'.readers = tables.readers
      /\ tables'.holders = tables.holders
      /\ tables.mutex \in [Keys -> Tokens \cup {NoToken}]
  BY <1>1 DEF LockInv, LeaseTypes, Tables
<1>4. Pruning
  BY <1>3 DEF Pruning
<1> QED BY <1>1, <1>2, <1>3, <1>4, TakenOut

\* releaseRead(), releaseWrite() and releaseSemaphore().
LEMMA ReleaseSharedInv ==
    ASSUME LockInv, NEW t \in Tokens,
           ReleaseRead(t) \/ ReleaseWrite(t) \/ ReleasePermit(t)
    PROVE  LockInv'
<1> DEFINE k == KeyOf[t]
<1>1. k \in Keys /\ tables \in Tables
  BY LockAssumption DEF LockInv, LeaseTypes
<1>2. /\ ended' = ended \cup {t}
      /\ UNCHANGED <<leases, saved, granted, unsaved, forgotten>>
  BY DEF ReleaseRead, ReleaseWrite, ReleasePermit, End
<1>3. CASE ReleaseRead(t)
  <2>1. tables' = [tables EXCEPT !.readers[k] = @ \ {t}]
    BY <1>3 DEF ReleaseRead
  <2> HIDE DEF k
  <2>2. tables' \in Tables
    BY <1>1, <2>1 DEF Tables
  <2>3. /\ tables'.mutex = tables.mutex
        /\ tables'.writer = tables.writer
        /\ tables'.readers = [tables.readers EXCEPT ![k] = @ \ {t}]
        /\ tables'.holders = tables.holders
        /\ tables.readers \in [Keys -> SUBSET Tokens]
    BY <1>1, <2>1 DEF Tables
  <2>4. Pruning
    BY <2>3 DEF Pruning
  <2>5. \A j \in Keys : tables.readers[j] \subseteq tables'.readers[j] \cup {t}
    BY <2>3
  <2> QED BY <1>2, <2>2, <2>3, <2>4, <2>5, TakenOut
<1>4. CASE ReleaseWrite(t)
  <2>1. tables' = [tables EXCEPT !.writer[k] = NoToken] /\ tables.writer[k] = t
    BY <1>4 DEF ReleaseWrite
  <2> HIDE DEF k
  <2>2. tables' \in Tables
    BY <1>1, <2>1 DEF Tables
  <2>3. /\ tables'.mutex = tables.mutex
        /\ tables'.writer = [tables.writer EXCEPT ![k] = NoToken]
        /\ tables'.readers = tables.readers
        /\ tables'.holders = tables.holders
        /\ tables.writer \in [Keys -> Tokens \cup {NoToken}]
    BY <1>1, <2>1 DEF Tables
  <2>4. Pruning
    BY <2>3 DEF Pruning
  <2> QED BY <1>2, <2>1, <2>2, <2>3, <2>4, TakenOut
<1>5. CASE ReleasePermit(t)
  <2>1. tables' = [tables EXCEPT !.holders[k] = @ \ {t}]
    BY <1>5 DEF ReleasePermit
  <2> HIDE DEF k
  <2>2. tables' \in Tables
    BY <1>1, <2>1 DEF Tables
  <2>3. /\ tables'.mutex = tables.mutex
        /\ tables'.writer = tables.writer
        /\ tables'.readers = tables.readers
        /\ tables'.holders = [tables.holders EXCEPT ![k] = @ \ {t}]
        /\ tables.holders \in [Keys -> SUBSET Tokens]
    BY <1>1, <2>1 DEF Tables
  <2>4. Pruning
    BY <2>3 DEF Pruning
  <2> QED BY <1>2, <2>2, <2>3, <2>4, TakenOut
<1> QED BY <1>3, <1>4, <1>5

-----------------------------------------------------------------------------
\* renew() and the renewal interval lengthen only the lease of the mutex that
\* is in the table, so even a late renewal finds no other holder beside it.
LEMMA RenewInv ==
    ASSUME LockInv, NEW t \in Tokens, Renew(t) \/ RenewalTick(t)
    PROVE  LockInv'
<1> DEFINE Lengthens == /\ tables.mutex[KeyOf[t]] = t
                        /\ leases' = leases \cup {t}
                        /\ unsaved' = unsaved \cup {t}
                        /\ UNCHANGED <<tables, saved, granted, ended, forgotten>>
           Idles == UNCHANGED <<tables, leases, saved, granted, ended, unsaved, forgotten>>
<1>1. CASE Lengthens
  <2>1. KeyOf[t] \in Keys /\ t # NoToken
    BY LockAssumption
  <2>2. KindOf[t] = "mutex" /\ t \in granted
    BY <1>1, <2>1 DEF LockInv, TablesInv, Placed
  <2>3. LeaseTypes'
    BY <1>1, <2>2 DEF LockInv, LeaseTypes
  <2>4. SavedInv' /\ LeasesKept
    BY <1>1, <2>2, SavedAfter
  <2>5. Pruning
    BY <1>1 DEF Pruning
  <2>6. ASSUME NEW u \in Valid' PROVE Held(tables', u)
    <3>1. CASE u = t
      BY <1>1, <2>2, <3>1 DEF Held
    <3>2. CASE u # t
      <4>1. u \in Valid
        BY <1>1, <3>2 DEF Valid
      <4> QED BY <1>1, <4>1 DEF LockInv, TablesInv, ValidHeld, Held
    <3> QED BY <3>1, <3>2
  <2>7. TablesInv'
    BY <1>1, <2>3, <2>4, <2>5, <2>6, TablesPruned DEF LeaseTypes
  <2> QED BY <2>3, <2>4, <2>7 DEF LockInv
<1>2. CASE Idles
  BY <1>2, Unchanged
<1>3. Renew(t) => Lengthens
  BY DEF Renew, Extend
<1>4. RenewalTick(t) => Lengthens \/ Idles
  BY DEF RenewalTick, Extend
<1> QED BY <1>1, <1>2, <1>3, <1>4

\* A lease that runs out takes nothing from the others.
LEMMA ExpireInv == ASSUME LockInv, NEW t \in Tokens, Expire(t) PROVE LockInv'
<1>1. leases' = leases \ {t} /\ UNCHANGED <<tables, saved, granted, ended, unsaved, forgotten>>
  BY DEF Expire, pastVars
<1>2. LeaseTypes'
  BY <1>1 DEF LockInv, LeaseTypes
<1>3. LeasesKept /\ Pruning
  BY <1>1 DEF LeasesKept, Pruning
<1>4. SavedInv'
  BY <1>1, <1>2, <1>3, SavedKept DEF LockInv, LeaseTypes
<1>5. \A u \in Valid' : Held(tables', u)
  BY <1>1 DEF LockInv, TablesInv, ValidHeld, Valid, Held
<1>6. TablesInv'
  BY <1>1, <1>2, <1>3, <1>5, TablesPruned DEF LeaseTypes
<1> QED BY <1>2, <1>4, <1>6 DEF LockInv

\* The expiry checker removes only what has no lease.
LEMMA SweepInv == ASSUME LockInv, Sweep PROVE LockInv'
<1> DEFINE mutexes == Expired(tables.mutex)
           writers == Expired(tables.writer)
<1>1. /\ tables' =
           [tables EXCEPT
              !.mutex = [k \in Keys |-> IF k \in mutexes THEN NoToken ELSE @[k]],
              !.writer = [k \in Keys |-> IF k \in writers THEN NoToken ELSE @[k]],
              !.readers = [k \in Keys |-> @[k] \cap leases]]
      /\ UNCHANGED <<leases, saved, granted, ended, unsaved, forgotten>>
  BY DEF Sweep, pastVars
<1>2. tables \in Tables
  BY DEF LockInv, LeaseTypes
<1>3. /\ \A k \in mutexes : tables.mutex[k] \notin leases
      /\ \A k \in writers : tables.writer[k] \notin leases
  BY DEF Expired
<1> HIDE DEF mutexes, writers
<1>4. tables' \in Tables
  BY <1>1, <1>2 DEF Tables
<1>5. \A k \in Keys :
        /\ tables'.mutex[k] = IF k \in mutexes THEN NoToken ELSE tables.mutex[k]
        /\ tables'.writer[k] = IF k \in writers THEN NoToken ELSE tables.writer[k]
        /\ tables'.readers[k] = tables.readers[k] \cap leases
        /\ tables'.holders[k] = tables.holders[k]
  BY <1>1, <1>2 DEF Tables
<1>6. LeasesKept /\ Pruning
  BY <1>1, <1>5 DEF LeasesKept, Pruning
<1>7. LeaseTypes'
  BY <1>1, <1>4 DEF LockInv, LeaseTypes
<1>8. SavedInv'
  BY <1>1, <1>6, <1>7, SavedKept DEF LockInv, LeaseTypes
<1>9. ASSUME NEW u \in Valid' PROVE Held(tables', u)
  <2>1. u \in Valid /\ u \in leases
    BY <1>1 DEF Valid
  <2>2. Held(tables, u) /\ KeyOf[u] \in Keys
    BY <2>1, LockAssumption DEF LockInv, TablesInv, ValidHeld, LeaseTypes
  <2> QED BY <1>3, <1>5, <2>1, <2>2 DEF Held
<1>10. TablesInv'
  BY <1>1, <1>6, <1>7, <1>9, TablesPruned DEF LeaseTypes
<1> QED BY <1>7, <1>8, <1>10 DEF LockInv

\* A snapshot has the shape the tables have, and all of it is as saved.
LEMMA SaveInv == ASSUME LockInv, Save PROVE LockInv'
<1>1. saved' = tables /\ unsaved' = {}
        /\ UNCHANGED <<tables, leases, granted, ended, forgotten>>
  BY DEF Save, lockVars
<1>2. LeaseTypes'
  BY <1>1 DEF LockInv, LeaseTypes
<1>3. TablesInv'
  BY <1>1 DEF LockInv, TablesInv, Placed, WriterAlone, ValidHeld, Valid, Held
<1>4. Placed(saved)' /\ WriterAlone(saved)'
  BY <1>1 DEF LockInv, TablesInv, Placed, WriterAlone
<1>5. RenewedAreMutexes'
  BY <1>1 DEF RenewedAreMutexes
<1> QED BY <1>2, <1>3, <1>4, <1>5 DEF LockInv, SavedInv

\* The empty tables have the shape of any.
LEMMA EmptyShape ==
    EmptyTables \in Tables /\ Placed(EmptyTables) /\ WriterAlone(EmptyTables)
BY LockAssumption DEF EmptyTables, Tables, Placed, WriterAlone

\* After a restart, from a snapshot or without one, a token is valid only if it
\* is in the tables that were read and nothing has happened to it since.
LEMMA ReloadInv == ASSUME LockInv, Reload PROVE LockInv'
<1>1. PICK T \in {saved, EmptyTables} :
        LET renewed == unsaved \cap InTables(T)
        IN  /\ tables' = T
            /\ \E S \in SUBSET renewed : leases' = (leases \ renewed) \cup S
            /\ forgotten' = forgotten \cup unsaved \cup (granted \ InTables(T))
            /\ unsaved' = {}
            /\ UNCHANGED <<saved, granted, ended>>
  BY DEF Reload
<1>2. T \in Tables /\ Placed(T) /\ WriterAlone(T)
  BY <1>1, EmptyShape DEF LockInv, LeaseTypes, SavedInv
<1>3. leases' \subseteq leases \cup (unsaved \cap InTables(T))
  BY <1>1
<1>4. InTables(T) = InTables(saved) \/ InTables(T) = {}
  BY <1>1 DEF InTables, EmptyTables
<1>5. \A t \in unsaved \cap InTables(T) : KindOf[t] = "mutex"
  BY <1>4 DEF LockInv, SavedInv, RenewedAreMutexes
<1>6. LeasesKept
  BY <1>1, <1>3, <1>5 DEF LeasesKept
<1>7. LeaseTypes'
  BY <1>1, <1>2, <1>3 DEF LockInv, LeaseTypes
<1>8. SavedInv'
  BY <1>1, <1>6, <1>7, SavedKept DEF LockInv, LeaseTypes
<1>9. Placed(tables)' /\ WriterAlone(tables)'
  BY <1>1, <1>2, <1>6, <1>7, TableKept DEF LockInv, LeaseTypes, Placed, WriterAlone
<1>10. ASSUME NEW t \in Valid' PROVE Held(tables', t)
  <2>1. t \in InTables(T) /\ t \in Tokens
    BY <1>1, <1>7 DEF Valid, LeaseTypes
  <2> QED BY <1>1, <1>2, <2>1, InTablesHeld
<1>11. ValidHeld'
  BY <1>10 DEF ValidHeld, Held
<1> QED BY <1>7, <1>8, <1>9, <1>11 DEF LockInv, TablesInv

-----------------------------------------------------------------------------
LEMMA InitInv == Init => LockInv
<1> SUFFICES ASSUME Init PROVE LockInv
  OBVIOUS
<1>1. LeaseTypes
  BY EmptyShape DEF Init, LeaseTypes
<1>2. SavedInv /\ Placed(tables) /\ WriterAlone(tables)
  BY EmptyShape DEF Init, SavedInv, RenewedAreMutexes
<1>3. ValidHeld
  BY DEF Init, ValidHeld, Valid
<1> QED BY <1>1, <1>2, <1>3 DEF LockInv, TablesInv

LEMMA NextInv == LockInv /\ [Next]_vars => LockInv'
<1> SUFFICES ASSUME LockInv, [Next]_vars PROVE LockInv'
  OBVIOUS
<1>1. ASSUME NEW t \in Tokens, Acquire(t) PROVE LockInv'
  BY <1>1, AcquireInv
<1>2. ASSUME NEW t \in Tokens, Release(t) PROVE LockInv'
  <2>1. KeyOf[t] \in Keys
    BY LockAssumption
  <2> QED BY <1>2, <2>1, UnlockInv DEF Release
<1>3. ASSUME NEW t \in Tokens, Renew(t) \/ RenewalTick(t) PROVE LockInv'
  BY <1>3, RenewInv
<1>4. ASSUME NEW t \in Tokens, AcquireRead(t) PROVE LockInv'
  BY <1>4, AcquireReadInv
<1>5. ASSUME NEW t \in Tokens, AcquireWrite(t) PROVE LockInv'
  BY <1>5, AcquireWriteInv
<1>6. ASSUME NEW t \in Tokens, AcquirePermit(t) PROVE LockInv'
  BY <1>6, AcquirePermitInv
<1>7. ASSUME NEW t \in Tokens, ReleaseRead(t) \/ ReleaseWrite(t) \/ ReleasePermit(t)
      PROVE  LockInv'
  BY <1>7, ReleaseSharedInv
<1>8. ASSUME NEW t \in Tokens, Expire(t) PROVE LockInv'
  BY <1>8, ExpireInv
<1>9. ASSUME NEW k \in Keys, ForceRelease(k) PROVE LockInv'
  BY <1>9, UnlockInv DEF ForceRelease
<1>10. ASSUME NEW w \in Waiters, WaitForLock(w) \/ WaitTimesOut(w) PROVE LockInv'
  BY <1>10, Unchanged DEF WaitForLock, WaitTimesOut, lockVars, pastVars
<1>11. CASE Sweep
  BY <1>11, SweepInv
<1>12. CASE Save
  BY <1>12, SaveInv
<1>13. CASE Restart \/ SweepThrows
  BY <1>13, ReloadInv DEF Restart, SweepThrows
<1>14. CASE UNCHANGED vars
  BY <1>14, Unchanged DEF vars
<1> QED BY <1>1, <1>2, <1>3, <1>4, <1>5, <1>6, <1>7, <1>8, <1>9, <1>10,
           <1>11, <1>12, <1>13, <1>14 DEF Next

\* Two tokens that their holders may rely on never conflict, through expiry,
\* overwriting of expired entries, late renewals, forced releases and restarts
\* from any snapshot (DistributedLock.ts:61-262 and the expiry checker).
THEOREM ExclusionHolds == Spec => []Exclusion
<1>1. Spec => []LockInv
  BY InitInv, NextInv, PTL DEF Spec
<1> QED BY <1>1, InvImpliesExclusion, PTL
-----------------------------------------------------------------------------
(***************************************************************************)
(* Renewal timers.  renewalTimers keeps one timer of a key, and acquiring  *)
(* or releasing by others may replace or clear it while an older interval  *)
(* runs on.  What saves the holder's release is that the token in the      *)
(* table, if its interval runs, is the one the key's timer is for.         *)
(***************************************************************************)
TimerOfHolder ==
    \A k \in Keys : tables.mutex[k] \in ticking => timer[k] = tables.mutex[k]

RenewalInv ==
    /\ ticking \subseteq granted
    /\ \A t \in ticking : KindOf[t] = "mutex"
    /\ ended \subseteq granted
    /\ TimerOfHolder
    /\ ReleaseStopsRenewal

(***************************************************************************)
(* Waiters and the counters.                                               *)
(***************************************************************************)
WaitTypes ==
    /\ queue \in [Keys -> Seq(Waiters)]
    /\ waiting \in [Waiters -> {"idle", "waiting", "woken", "timeout", "gone"}]

WaitInv == WaitTypes /\ WakeupsReachWaiters

OtherTypes ==
    /\ undated \subseteq Keys
    /\ timer \in [Keys -> Tokens \cup {NoToken}]
    /\ forgotten \subseteq granted
    /\ renewals \in 0..MaxRenewals
    /\ restarts \in 0..MaxRestarts
    /\ cast \in Casts

-----------------------------------------------------------------------------
LEMMA OtherInit == Init => OtherTypes
BY LockAssumption DEF Init, OtherTypes

\* The remaining variables keep their shape.
LEMMA OtherStep == LockInv /\ OtherTypes /\ [Next]_vars => OtherTypes'
<1> SUFFICES ASSUME LockInv, OtherTypes, [Next]_vars PROVE OtherTypes'
  OBVIOUS
<1> DEFINE Past == /\ forgotten' = forgotten /\ granted \subseteq granted'
                   /\ UNCHANGED <<renewals, restarts, cast>>
<1>a. /\ undated \subseteq Keys
      /\ timer \in [Keys -> Tokens \cup {NoToken}]
      /\ forgotten \subseteq granted
      /\ renewals \in 0..MaxRenewals /\ restarts \in 0..MaxRestarts /\ cast \in Casts
      /\ MaxRenewals \in Nat /\ MaxRestarts \in Nat
      /\ unsaved \subseteq granted
  BY LockAssumption DEF OtherTypes, LockInv, LeaseTypes
<1>b. ASSUME Past, undated' \subseteq Keys, timer' \in [Keys -> Tokens \cup {NoToken}]
      PROVE  OtherTypes'
  BY <1>a, <1>b DEF OtherTypes
<1>1. ASSUME NEW t \in Tokens, Acquire(t) PROVE OtherTypes'
  BY <1>1, <1>a, <1>b DEF Acquire, Grant
<1>2. ASSUME NEW k \in Keys, Unlock(k), End(tables.mutex[k]) PROVE OtherTypes'
  BY <1>2, <1>a, <1>b DEF Unlock, ClearAutoRenewal, End
<1>3. ASSUME NEW t \in Tokens, Renew(t) PROVE OtherTypes'
  <2>1. UNCHANGED <<granted, forgotten, restarts, cast, timer>> /\ undated' \subseteq undated
    BY <1>3 DEF Renew, Extend
  <2>2. renewals < MaxRenewals /\ renewals' = renewals + 1
    BY <1>3 DEF Renew
  <2> QED BY <1>a, <2>1, <2>2 DEF OtherTypes
<1>4. ASSUME NEW t \in Tokens, RenewalTick(t) PROVE OtherTypes'
  BY <1>4, <1>a, <1>b DEF RenewalTick, Extend, ClearAutoRenewal
<1>5. ASSUME NEW t \in Tokens, AcquireRead(t) \/ AcquireWrite(t) \/ AcquirePermit(t)
      PROVE  OtherTypes'
  BY <1>5, <1>a, <1>b DEF AcquireRead, AcquireWrite, AcquirePermit, Grant, pastVars
<1>6. ASSUME NEW t \in Tokens, ReleaseRead(t) \/ ReleaseWrite(t) \/ ReleasePermit(t)
      PROVE  OtherTypes'
  BY <1>6, <1>a, <1>b DEF ReleaseRead, ReleaseWrite, ReleasePermit, End
<1>7. ASSUME NEW t \in Tokens, Expire(t) PROVE OtherTypes'
  BY <1>7, <1>a, <1>b DEF Expire, pastVars
<1>8. ASSUME NEW w \in Waiters, WaitForLock(w) \/ WaitTimesOut(w) PROVE OtherTypes'
  BY <1>8, <1>a, <1>b DEF WaitForLock, WaitTimesOut, lockVars, pastVars
<1>9. CASE Sweep
  BY <1>9, <1>a, <1>b DEF Sweep, ClearAutoRenewal, pastVars
<1>10. CASE Save
  BY <1>10, <1>a, <1>b DEF Save, lockVars
<1>11. ASSUME Reload, restarts' \in 0..MaxRestarts PROVE OtherTypes'
  <2>1. /\ undated' \subseteq Keys /\ timer' \in [Keys -> Tokens \cup {NoToken}]
        /\ UNCHANGED <<granted, renewals, cast>>
        /\ forgotten' \subseteq forgotten \cup unsaved \cup granted
    BY <1>11 DEF Reload
  <2> QED BY <1>11, <1>a, <2>1 DEF OtherTypes
<1>12. CASE Restart
  BY <1>12, <1>11, <1>a DEF Restart
<1>13. CASE SweepThrows
  BY <1>13, <1>11, <1>a DEF SweepThrows
<1>14. CASE UNCHANGED vars
  BY <1>14, <1>a, <1>b DEF vars
<1>15. ASSUME NEW t \in Tokens, Release(t) PROVE OtherTypes'
  BY <1>2, <1>15, LockAssumption DEF Release
<1>16. ASSUME NEW k \in Keys, ForceRelease(k) PROVE OtherTypes'
  BY <1>2, <1>16 DEF ForceRelease
<1> QED BY <1>1, <1>3, <1>4, <1>5, <1>6, <1>7, <1>8, <1>9, <1>10,
           <1>12, <1>13, <1>14, <1>15, <1>16 DEF Next

LEMMA RenewalInvInit == Init => RenewalInv
<1> SUFFICES ASSUME Init PROVE RenewalInv
  OBVIOUS
<1> QED BY DEF Init, RenewalInv, TimerOfHolder, ReleaseStopsRenewal

\* Nobody's interval starts, and those of ended tokens were cleared or never ran.
LEMMA RenewalUnlock ==
    ASSUME LockInv, RenewalInv, NEW k \in Keys, Unlock(k), End(tables.mutex[k]),
           tables.mutex[k] # NoToken
    PROVE  RenewalInv'
<1> DEFINE t == tables.mutex[k]
<1>1. /\ t \in granted
      /\ tables.mutex \in [Keys -> Tokens \cup {NoToken}]
      /\ \A j \in Keys : tables.mutex[j] # NoToken => KeyOf[tables.mutex[j]] = j
  BY DEF LockInv, LeaseTypes, Tables, TablesInv, Placed
<1>2. /\ tables'.mutex = [tables.mutex EXCEPT ![k] = NoToken]
      /\ ticking' = ticking \ {timer[k]}
      /\ timer' = [j \in Keys |-> IF j \in {k} THEN NoToken ELSE timer[j]]
      /\ ended' = ended \cup {t}
      /\ granted' = granted
  BY DEF Unlock, End, ClearAutoRenewal, LockInv, LeaseTypes, Tables
<1>3. t \notin ticking'
  BY <1>2 DEF RenewalInv, TimerOfHolder
<1>4. NoToken \notin ticking
  BY LockAssumption DEF RenewalInv, LockInv, LeaseTypes
<1> HIDE DEF t
<1>5. TimerOfHolder'
  BY <1>1, <1>2, <1>4 DEF RenewalInv, TimerOfHolder
<1>6. ReleaseStopsRenewal'
  BY <1>2, <1>3 DEF RenewalInv, ReleaseStopsRenewal
<1> QED BY <1>1, <1>2, <1>5, <1>6 DEF RenewalInv

\* The steps that give up a reader, a writer or a permit have no interval to stop.
LEMMA RenewalEnd ==
    ASSUME LockInv, RenewalInv, NEW t \in Tokens,
           ReleaseRead(t) \/ ReleaseWrite(t) \/ ReleasePermit(t)
    PROVE  RenewalInv'
<1>1. KeyOf[t] \in Keys /\ t # NoToken
  BY LockAssumption
<1>2. t \in granted /\ KindOf[t] # "mutex"
  BY <1>1 DEF LockInv, TablesInv, Placed, ReleaseRead, ReleaseWrite, ReleasePermit
<1>3. /\ tables'.mutex = tables.mutex
      /\ ended' = ended \cup {t}
      /\ UNCHANGED <<granted, ticking, timer>>
  BY DEF ReleaseRead, ReleaseWrite, ReleasePermit, End, LockInv, LeaseTypes, Tables
<1> QED BY <1>2, <1>3 DEF RenewalInv, TimerOfHolder, ReleaseStopsRenewal

LEMMA RenewalStep == LockInv /\ OtherTypes /\ RenewalInv /\ [Next]_vars => RenewalInv'
<1> SUFFICES ASSUME LockInv, OtherTypes, RenewalInv, [Next]_vars PROVE RenewalInv'
  OBVIOUS
<1> DEFINE Rests == /\ UNCHANGED <<ticking, timer, ended>>
                    /\ granted \subseteq granted'
                    /\ \A k \in Keys : tables'.mutex[k] \in {tables.mutex[k], NoToken}
<1>a. NoToken \notin ticking /\ tables \in Tables
  BY LockAssumption DEF RenewalInv, LockInv, LeaseTypes
<1>b. Rests => RenewalInv'
  BY <1>a DEF RenewalInv, TimerOfHolder, ReleaseStopsRenewal
<1>1. ASSUME NEW t \in Tokens, Acquire(t) PROVE RenewalInv'
  <2> DEFINE k == KeyOf[t]
  <2>1. /\ k \in Keys /\ t \notin granted /\ KindOf[t] = "mutex"
        /\ tables'.mutex = [tables.mutex EXCEPT ![k] = t]
        /\ tables.mutex \in [Keys -> Tokens \cup {NoToken}]
        /\ granted' = granted \cup {t} /\ ended' = ended
    BY <1>1, <1>a, LockAssumption DEF Acquire, Unused, Grant, Tables
  <2>2. t \notin ticking /\ t \notin ended
    BY <2>1 DEF RenewalInv
  <2>3. CASE t \in AutoRenewed
    <3>1. ticking' = ticking \cup {t} /\ timer' = [timer EXCEPT ![k] = t]
      BY <1>1, <2>3 DEF Acquire
    <3>2. \A j \in Keys : tables.mutex[j] # t
      BY <2>1, LockAssumption DEF LockInv, TablesInv, Placed
    <3> HIDE DEF k
    <3>3. TimerOfHolder'
      <4> SUFFICES ASSUME NEW j \in Keys, tables'.mutex[j] \in ticking'
                   PROVE  timer'[j] = tables'.mutex[j]
        BY DEF TimerOfHolder
      <4>1. CASE j = k
        BY <2>1, <3>1, <4>1 DEF OtherTypes
      <4>2. CASE j # k
        BY <2>1, <3>1, <3>2, <4>2 DEF RenewalInv, TimerOfHolder
      <4> QED BY <4>1, <4>2
    <3> QED BY <2>1, <2>2, <3>1, <3>3 DEF RenewalInv, ReleaseStopsRenewal
  <2>4. CASE t \notin AutoRenewed
    <3>1. UNCHANGED <<ticking, timer>>
      BY <1>1, <2>4 DEF Acquire
    <3> HIDE DEF k
    <3> QED BY <2>1, <2>2, <3>1 DEF RenewalInv, TimerOfHolder, ReleaseStopsRenewal
  <2> QED BY <2>3, <2>4
<1>2. ASSUME NEW t \in Tokens, Release(t) PROVE RenewalInv'
  BY <1>2, RenewalUnlock, LockAssumption DEF Release
<1>3. ASSUME NEW t \in Tokens, Renew(t) PROVE RenewalInv'
  BY <1>3, <1>b DEF Renew
<1>4. ASSUME NEW t \in Tokens, RenewalTick(t) PROVE RenewalInv'
  <2> DEFINE k == KeyOf[t]
  <2>1. k \in Keys /\ UNCHANGED <<tables, granted, ended>>
    BY <1>4, LockAssumption DEF RenewalTick
  <2>2. CASE tables.mutex[k] = t
    BY <1>4, <1>b, <2>1, <2>2 DEF RenewalTick
  <2>3. CASE tables.mutex[k] # t
    <3>1. /\ ticking' = ticking \ {timer[k]}
          /\ timer' = [j \in Keys |-> IF j \in {k} THEN NoToken ELSE timer[j]]
      BY <1>4, <2>3 DEF RenewalTick, ClearAutoRenewal
    <3> HIDE DEF k
    <3> QED BY <1>a, <2>1, <3>1 DEF RenewalInv, TimerOfHolder, ReleaseStopsRenewal
  <2> QED BY <2>2, <2>3
<1>5. ASSUME NEW t \in Tokens, AcquireRead(t) \/ AcquirePermit(t) PROVE RenewalInv'
  BY <1>5, <1>a, <1>b DEF AcquireRead, AcquirePermit, Grant, Tables
<1>6. ASSUME NEW t \in Tokens, AcquireWrite(t) PROVE RenewalInv'
  <2>1. /\ UNCHANGED <<ticking, timer, ended>>
        /\ granted \subseteq granted'
    BY <1>6 DEF AcquireWrite, Grant, pastVars
  <2>2. tables'.mutex = tables.mutex
    BY <1>6, <1>a DEF AcquireWrite, Tables
  <2> QED BY <1>b, <2>1, <2>2
<1>7. ASSUME NEW t \in Tokens, ReleaseRead(t) \/ ReleaseWrite(t) \/ ReleasePermit(t)
      PROVE  RenewalInv'
  BY <1>7, RenewalEnd
<1>8. ASSUME NEW t \in Tokens, Expire(t) PROVE RenewalInv'
  BY <1>8, <1>b DEF Expire, pastVars
<1>9. ASSUME NEW k \in Keys, ForceRelease(k) PROVE RenewalInv'
  BY <1>9, RenewalUnlock DEF ForceRelease
<1>10. ASSUME NEW w \in Waiters, WaitForLock(w) \/ WaitTimesOut(w) PROVE RenewalInv'
  BY <1>10, <1>b DEF WaitForLock, WaitTimesOut, lockVars, pastVars
<1>11. CASE Sweep
  <2> DEFINE mutexes == Expired(tables.mutex)
  <2>1. /\ ticking' = ticking \ {timer[k] : k \in mutexes}
        /\ timer' = [k \in Keys |-> IF k \in mutexes THEN NoToken ELSE timer[k]]
        /\ UNCHANGED <<granted, ended>>
    BY <1>11 DEF Sweep, ClearAutoRenewal, pastVars
  <2>2. \A k \in Keys : tables'.mutex[k] = IF k \in mutexes THEN NoToken ELSE tables.mutex[k]
    BY <1>11, <1>a DEF Sweep, Tables
  <2> HIDE DEF mutexes
  <2> QED BY <1>a, <2>1, <2>2 DEF RenewalInv, TimerOfHolder, ReleaseStopsRenewal
<1>12. CASE Save
  BY <1>12, <1>b DEF Save, lockVars
<1>13. CASE Restart \/ SweepThrows
  <2>1. ticking' = {} /\ UNCHANGED <<granted, ended>>
    BY <1>13 DEF Restart, SweepThrows, Reload
  <2> QED BY <2>1 DEF RenewalInv, TimerOfHolder, ReleaseStopsRenewal
<1>14. CASE UNCHANGED vars
  BY <1>14, <1>b DEF vars
<1> QED BY <1>1, <1>2, <1>3, <1>4, <1>5, <1>6, <1>7, <1>8, <1>9, <1>10,
           <1>11, <1>12, <1>13, <1>14 DEF Next

\* A lock that was released, by its holder or by force, is never renewed again,
\* whoever replaced or cleared the key's registered timer meanwhile.
THEOREM ReleaseStopsRenewalHolds == Spec => []ReleaseStopsRenewal
<1>1. RenewalInv => ReleaseStopsRenewal
  BY DEF RenewalInv
<1> QED BY <1>1, InitInv, NextInv, OtherInit, OtherStep, RenewalInvInit, RenewalStep, PTL DEF Spec

-----------------------------------------------------------------------------
\* The sequence without the element at i: the others stay, in order.
LEMMA RemoveAtMeans ==
    ASSUME NEW S, NEW s \in Seq(S), NEW i \in 1..Len(s)
    PROVE  /\ RemoveAt(s, i) \in Seq(S)
           /\ Len(RemoveAt(s, i)) = Len(s) - 1
           /\ \A x \in 1..(Len(s) - 1) :
                RemoveAt(s, i)[x] = IF x < i THEN s[x] ELSE s[x + 1]
<1> DEFINE a == SubSeq(s, 1, i - 1)
           b == SubSeq(s, i + 1, Len(s))
           r == RemoveAt(s, i)
<1>1. Len(s) \in Nat /\ i \in Nat /\ 1 <= i /\ i <= Len(s)
  BY LenProperties
<1>2. a \in Seq(S) /\ Len(a) = i - 1 /\ \A x \in 1..(i - 1) : a[x] = s[x]
  <2>1. \A x \in 1..(i - 1) : s[x] \in S
    BY <1>1, LenProperties
  <2> QED BY <1>1, <2>1, SubSeqProperties
<1>3. b \in Seq(S) /\ Len(b) = Len(s) - i /\ \A x \in 1..(Len(s) - i) : b[x] = s[x + i]
  <2>1. \A x \in (i + 1)..Len(s) : s[x] \in S
    BY <1>1, LenProperties
  <2> QED BY <1>1, <2>1, SubSeqProperties
<1>4. r = a \o b
  BY DEF RemoveAt
<1> HIDE DEF a, b, r
<1>5. /\ r \in Seq(S) /\ Len(r) = Len(a) + Len(b)
      /\ \A x \in 1..(Len(a) + Len(b)) : r[x] = IF x <= Len(a) THEN a[x] ELSE b[x - Len(a)]
  BY <1>2, <1>3, <1>4, ConcatProperties
<1>6. Len(r) = Len(s) - 1
  BY <1>1, <1>2, <1>3, <1>5
<1>7. ASSUME NEW x \in 1..(Len(s) - 1) PROVE r[x] = IF x < i THEN s[x] ELSE s[x + 1]
  <2>1. CASE x < i
    BY <1>1, <1>2, <1>3, <1>5, <2>1
  <2>2. CASE ~(x < i)
    <3>a. x \in 1..(Len(a) + Len(b)) /\ ~(x <= Len(a))
      BY <1>1, <1>2, <1>3, <2>2
    <3>1. r[x] = b[x - (i - 1)] /\ x - (i - 1) \in 1..(Len(s) - i)
      BY <1>1, <1>2, <1>3, <1>5, <3>a
    <3>2. b[x - (i - 1)] = s[(x - (i - 1)) + i]
      BY <1>3, <3>1
    <3>3. (x - (i - 1)) + i = x + 1
      BY <1>1
    <3> QED BY <2>2, <3>1, <3>2, <3>3
  <2> QED BY <2>1, <2>2
<1> QED BY <1>5, <1>6, <1>7 DEF r

\* removeWaiter() on a queue that holds nobody twice.
LEMMA RemoveFirstMeans ==
    ASSUME NEW s \in Seq(Waiters), IsInjective(s), NEW w \in ToSet(s)
    PROVE  /\ RemoveFirst(s, w) \in Seq(Waiters)
           /\ IsInjective(RemoveFirst(s, w))
           /\ ToSet(RemoveFirst(s, w)) = ToSet(s) \ {w}
<1>a. Len(s) \in Nat /\ DOMAIN s = 1..Len(s)
  BY LenProperties
<1>1. PICK i \in 1..Len(s) : s[i] = w
  BY <1>a DEF ToSet
<1>2. {x \in 1..Len(s) : s[x] = w} = {i}
  BY <1>1, <1>a DEF IsInjective
<1>3. Min({i}) = i
  BY <1>1, <1>a DEF Min
<1>4. SelectInSeq(s, LAMBDA v : v = w) = i
  BY <1>2, <1>3 DEF SelectInSeq
<1>5. RemoveFirst(s, w) = RemoveAt(s, i)
  BY <1>1, <1>4 DEF RemoveFirst
<1> DEFINE r == RemoveAt(s, i)
<1>6. /\ r \in Seq(Waiters)
      /\ Len(r) = Len(s) - 1
      /\ \A x \in 1..(Len(s) - 1) : r[x] = IF x < i THEN s[x] ELSE s[x + 1]
  BY RemoveAtMeans
<1> HIDE DEF r
<1>7. DOMAIN r = 1..(Len(s) - 1)
  BY <1>6, LenProperties
<1>8. IsInjective(r)
  <2> SUFFICES ASSUME NEW x \in DOMAIN r, NEW y \in DOMAIN r, r[x] = r[y] PROVE x = y
    BY DEF IsInjective
  <2> DEFINE u == IF x < i THEN x ELSE x + 1
             v == IF y < i THEN y ELSE y + 1
  <2>1. u \in DOMAIN s /\ v \in DOMAIN s /\ s[u] = s[v]
    BY <1>a, <1>6, <1>7
  <2>2. u = v
    BY <2>1 DEF IsInjective
  <2> QED BY <1>7, <2>2
<1>9. ASSUME NEW v \in ToSet(r) PROVE v \in ToSet(s) \ {w}
  <2>1. PICK x \in DOMAIN r : v = r[x]
    BY DEF ToSet
  <2> DEFINE u == IF x < i THEN x ELSE x + 1
  <2>2. u \in DOMAIN s /\ u # i /\ v = s[u]
    BY <1>a, <1>6, <1>7, <2>1
  <2> QED BY <1>1, <1>a, <2>2 DEF ToSet, IsInjective
<1>10. ASSUME NEW v \in ToSet(s) \ {w} PROVE v \in ToSet(r)
  <2>1. PICK u \in DOMAIN s : v = s[u]
    BY DEF ToSet
  <2>2. u # i
    BY <1>1, <2>1
  <2> DEFINE x == IF u < i THEN u ELSE u - 1
  <2>3. x \in DOMAIN r /\ r[x] = s[u]
    BY <1>1, <1>a, <1>6, <1>7, <2>2
  <2> QED BY <2>1, <2>3 DEF ToSet
<1>11. ToSet(r) = ToSet(s) \ {w}
  BY <1>9, <1>10
<1> QED BY <1>5, <1>6, <1>8, <1>11 DEF r

\* A waiter that comes is the last of a queue it was not in.
LEMMA AppendedWaiter ==
    ASSUME NEW s \in Seq(Waiters), IsInjective(s), NEW w \in Waiters, w \notin ToSet(s)
    PROVE  /\ Append(s, w) \in Seq(Waiters)
           /\ IsInjective(Append(s, w))
           /\ ToSet(Append(s, w)) = ToSet(s) \cup {w}
<1> DEFINE a == Append(s, w)
<1>1. /\ a \in Seq(Waiters) /\ Len(a) = Len(s) + 1 /\ Len(s) \in Nat
      /\ \A i \in 1..Len(s) : a[i] = s[i]
      /\ a[Len(s) + 1] = w
  BY AppendProperties, LenProperties
<1> HIDE DEF a
<1>2. DOMAIN a = 1..(Len(s) + 1) /\ DOMAIN s = 1..Len(s)
  BY <1>1, LenProperties
<1>3. \A i \in DOMAIN s : s[i] # w
  BY DEF ToSet
<1>4. IsInjective(a)
  BY <1>1, <1>2, <1>3 DEF IsInjective
<1>5. ToSet(a) = ToSet(s) \cup {w}
  <2>1. ASSUME NEW v \in ToSet(a) PROVE v \in ToSet(s) \cup {w}
    <3>1. PICK i \in DOMAIN a : v = a[i]
      BY DEF ToSet
    <3>2. i \in 1..Len(s) \/ i = Len(s) + 1
      BY <1>1, <1>2
    <3> QED BY <1>1, <1>2, <3>1, <3>2 DEF ToSet
  <2>2. ASSUME NEW v \in ToSet(s) PROVE v \in ToSet(a)
    <3>1. PICK i \in DOMAIN s : v = s[i]
      BY DEF ToSet
    <3>2. i \in DOMAIN a /\ a[i] = v
      BY <1>1, <1>2, <3>1
    <3> QED BY <3>2 DEF ToSet
  <2>3. w \in ToSet(a)
    <3>1. Len(s) + 1 \in DOMAIN a
      BY <1>1, <1>2
    <3> QED BY <1>1, <3>1 DEF ToSet
  <2> QED BY <2>1, <2>2, <2>3
<1> QED BY <1>1, <1>4, <1>5 DEF a

\* What is left of a queue when the first c of it have been woken.
LEMMA RestOfQueue ==
    ASSUME NEW s \in Seq(Waiters), IsInjective(s), NEW c \in Nat
    PROVE  /\ SubSeq(s, c + 1, Len(s)) \in Seq(Waiters)
           /\ IsInjective(SubSeq(s, c + 1, Len(s)))
           /\ ToSet(SubSeq(s, c + 1, Len(s))) \subseteq ToSet(s)
<1> DEFINE r == SubSeq(s, c + 1, Len(s))
<1>1. Len(s) \in Nat /\ DOMAIN s = 1..Len(s) /\ \A x \in (c + 1)..Len(s) : s[x] \in Waiters
  BY LenProperties
<1>2. /\ r \in Seq(Waiters)
      /\ Len(r) = IF c + 1 <= Len(s) THEN Len(s) - c ELSE 0
      /\ \A x \in 1..(Len(s) - c) : r[x] = s[x + c]
  BY <1>1, SubSeqProperties
<1> HIDE DEF r
<1>3. /\ DOMAIN r = 1..Len(r)
      /\ \A x \in DOMAIN r : x + c \in DOMAIN s /\ r[x] = s[x + c]
  <2>1. DOMAIN r = 1..Len(r)
    BY <1>2, LenProperties
  <2> QED BY <1>1, <1>2, <2>1
<1>4. IsInjective(r)
  <2> SUFFICES ASSUME NEW x \in DOMAIN r, NEW y \in DOMAIN r, r[x] = r[y] PROVE x = y
    BY DEF IsInjective
  <2>1. x + c = y + c
    BY <1>3 DEF IsInjective
  <2>2. Len(r) \in Nat
    BY <1>2, LenProperties
  <2>3. x \in Nat /\ y \in Nat
    BY <1>3, <2>2
  <2> QED BY <2>1, <2>3
<1>5. ToSet(r) \subseteq ToSet(s)
  BY <1>3 DEF ToSet
<1> QED BY <1>2, <1>4, <1>5 DEF r

\* notifyWaiters() resolves the promises it takes from the queues, and no others.
LEMMA NotifyWaits ==
    ASSUME WaitInv, NEW S, NEW again, Notify(S, again) PROVE WaitInv'
<1> DEFINE calls(k) == (IF k \in S THEN 1 ELSE 0) + (IF k \in again THEN 1 ELSE 0)
           rest(k) == SubSeq(queue[k], calls(k) + 1, Len(queue[k]))
<1>1. /\ queue' = [k \in Keys |-> rest(k)]
      /\ waiting' = [w \in Waiters |->
           IF w \in ToSet(queue[AwaitedBy[w]]) \ ToSet(rest(AwaitedBy[w]))
           THEN "woken" ELSE waiting[w]]
  BY DEF Notify
<1>2. \A k \in Keys : /\ rest(k) \in Seq(Waiters)
                      /\ IsInjective(rest(k))
                      /\ ToSet(rest(k)) \subseteq ToSet(queue[k])
  <2> SUFFICES ASSUME NEW k \in Keys
               PROVE  /\ rest(k) \in Seq(Waiters)
                      /\ IsInjective(rest(k))
                      /\ ToSet(rest(k)) \subseteq ToSet(queue[k])
    OBVIOUS
  <2>1. calls(k) \in Nat
    OBVIOUS
  <2>2. queue[k] \in Seq(Waiters) /\ IsInjective(queue[k])
    BY DEF WaitInv, WaitTypes, WakeupsReachWaiters
  <2> HIDE DEF calls
  <2> QED BY <2>1, <2>2, RestOfQueue
<1> HIDE DEF rest
<1>3. \A w \in Waiters : AwaitedBy[w] \in Keys
  BY LockAssumption
<1>4. WaitTypes'
  BY <1>1, <1>2 DEF WaitInv, WaitTypes
<1>5. \A k \in Keys : IsInjective(queue'[k])
  BY <1>1, <1>2
<1>6. ASSUME NEW w \in Waiters
      PROVE  waiting'[w] = "waiting" <=> w \in ToSet(queue'[AwaitedBy[w]])
  <2>1. waiting[w] = "waiting" <=> w \in ToSet(queue[AwaitedBy[w]])
    BY DEF WaitInv, WakeupsReachWaiters
  <2>2. queue'[AwaitedBy[w]] = rest(AwaitedBy[w])
    BY <1>1, <1>3
  <2>3. ToSet(rest(AwaitedBy[w])) \subseteq ToSet(queue[AwaitedBy[w]])
    BY <1>2, <1>3
  <2> QED BY <1>1, <2>1, <2>2, <2>3
<1> QED BY <1>4, <1>5, <1>6 DEF WaitInv, WakeupsReachWaiters

\* The one queue that a step of w changes, and what that makes of the others.
LEMMA OneQueueWaits ==
    ASSUME WaitInv, NEW w \in Waiters, NEW how \in {"waiting", "timeout"},
           NEW s \in Seq(Waiters), IsInjective(s),
           \A v \in Waiters \ {w} : v \in ToSet(s) <=> v \in ToSet(queue[AwaitedBy[w]]),
           how = "waiting" <=> w \in ToSet(s),
           waiting' = [waiting EXCEPT ![w] = how],
           queue' = [queue EXCEPT ![AwaitedBy[w]] = s]
    PROVE  WaitInv'
<1>1. /\ queue \in [Keys -> Seq(Waiters)]
      /\ waiting \in [Waiters -> {"idle", "waiting", "woken", "timeout", "gone"}]
      /\ \A v \in Waiters : AwaitedBy[v] \in Keys
  BY LockAssumption DEF WaitInv, WaitTypes
<1>2. WaitTypes'
  BY <1>1 DEF WaitTypes
<1>3. \A k \in Keys : IsInjective(queue'[k])
  BY <1>1 DEF WaitInv, WakeupsReachWaiters
<1>4. ASSUME NEW v \in Waiters
      PROVE  waiting'[v] = "waiting" <=> v \in ToSet(queue'[AwaitedBy[v]])
  <2>1. CASE v = w
    BY <1>1, <2>1
  <2>2. CASE v # w /\ AwaitedBy[v] = AwaitedBy[w]
    <3>1. queue'[AwaitedBy[v]] = s /\ waiting'[v] = waiting[v]
      BY <1>1, <2>2
    <3> QED BY <2>2, <3>1 DEF WaitInv, WakeupsReachWaiters
  <2>3. CASE v # w /\ AwaitedBy[v] # AwaitedBy[w]
    <3>1. queue'[AwaitedBy[v]] = queue[AwaitedBy[v]] /\ waiting'[v] = waiting[v]
      BY <1>1, <2>3
    <3> QED BY <3>1 DEF WaitInv, WakeupsReachWaiters
  <2> QED BY <2>1, <2>2, <2>3
<1> QED BY <1>2, <1>3, <1>4 DEF WaitInv, WakeupsReachWaiters

LEMMA WaitInit == Init => WaitInv
<1> SUFFICES ASSUME Init PROVE WaitInv
  OBVIOUS
<1>1. /\ queue = [k \in Keys |-> <<>>] /\ waiting = [w \in Waiters |-> "idle"]
      /\ \A v \in Waiters : AwaitedBy[v] \in Keys
  BY LockAssumption DEF Init
<1>2. <<>> \in Seq(Waiters) /\ ToSet(<<>>) = {} /\ IsInjective(<<>>)
  BY DEF ToSet, IsInjective
<1> QED BY <1>1, <1>2 DEF WaitInv, WaitTypes, WakeupsReachWaiters

LEMMA WaitStep == WaitInv /\ [Next]_vars => WaitInv'
<1> SUFFICES ASSUME WaitInv, [Next]_vars PROVE WaitInv'
  OBVIOUS
<1>a. /\ queue \in [Keys -> Seq(Waiters)]
      /\ \A k \in Keys : IsInjective(queue[k])
      /\ \A v \in Waiters : AwaitedBy[v] \in Keys
      /\ \A v \in Waiters : waiting[v] = "waiting" <=> v \in ToSet(queue[AwaitedBy[v]])
  BY LockAssumption DEF WaitInv, WaitTypes, WakeupsReachWaiters
<1>1. ASSUME UNCHANGED waitVars PROVE WaitInv'
  BY <1>1 DEF waitVars, WaitInv, WaitTypes, WakeupsReachWaiters
<1>2. ASSUME NEW w \in Waiters, WaitForLock(w) PROVE WaitInv'
  <2> DEFINE s == Append(queue[AwaitedBy[w]], w)
  <2>1. /\ waiting' = [waiting EXCEPT ![w] = "waiting"]
        /\ queue' = [queue EXCEPT ![AwaitedBy[w]] = s]
        /\ w \notin ToSet(queue[AwaitedBy[w]])
    BY <1>2, <1>a DEF WaitForLock
  <2>2. /\ s \in Seq(Waiters) /\ IsInjective(s)
        /\ ToSet(s) = ToSet(queue[AwaitedBy[w]]) \cup {w}
    BY <1>a, <2>1, AppendedWaiter
  <2> HIDE DEF s
  <2> QED BY <2>1, <2>2, OneQueueWaits
<1>3. ASSUME NEW w \in Waiters, WaitTimesOut(w) PROVE WaitInv'
  <2> DEFINE s == RemoveFirst(queue[AwaitedBy[w]], w)
  <2>1. /\ waiting' = [waiting EXCEPT ![w] = "timeout"]
        /\ queue' = [queue EXCEPT ![AwaitedBy[w]] = s]
        /\ w \in ToSet(queue[AwaitedBy[w]])
    BY <1>3, <1>a DEF WaitTimesOut
  <2>2. /\ s \in Seq(Waiters) /\ IsInjective(s)
        /\ ToSet(s) = ToSet(queue[AwaitedBy[w]]) \ {w}
    BY <1>a, <2>1, RemoveFirstMeans
  <2> HIDE DEF s
  <2> QED BY <2>1, <2>2, OneQueueWaits
<1>4. ASSUME Reload PROVE WaitInv'
  <2>1. /\ queue' = [k \in Keys |-> <<>>]
        /\ waiting' = [w \in Waiters |->
                         IF waiting[w] = "waiting" THEN "gone" ELSE waiting[w]]
    BY <1>4 DEF Reload
  <2>2. <<>> \in Seq(Waiters) /\ ToSet(<<>>) = {} /\ IsInjective(<<>>)
    BY DEF ToSet, IsInjective
  <2> QED BY <1>a, <2>1, <2>2 DEF WaitInv, WaitTypes, WakeupsReachWaiters
<1>5. ASSUME NEW S, NEW again, Notify(S, again) PROVE WaitInv'
  BY <1>5, NotifyWaits
<1>6. ASSUME NEW t \in Tokens,
             \/ Acquire(t) \/ Renew(t) \/ RenewalTick(t) \/ AcquireRead(t)
             \/ AcquireWrite(t) \/ AcquirePermit(t) \/ Expire(t)
      PROVE  WaitInv'
  BY <1>1, <1>6 DEF Acquire, Renew, RenewalTick, AcquireRead, AcquireWrite,
                    AcquirePermit, Expire
<1>7. ASSUME NEW t \in Tokens,
             Release(t) \/ ReleaseRead(t) \/ ReleaseWrite(t) \/ ReleasePermit(t)
      PROVE  WaitInv'
  BY <1>5, <1>7 DEF Release, Unlock, ReleaseRead, ReleaseWrite, ReleasePermit
<1>8. ASSUME NEW k \in Keys, ForceRelease(k) PROVE WaitInv'
  BY <1>5, <1>8 DEF ForceRelease, Unlock
<1>9. CASE Sweep
  BY <1>5, <1>9 DEF Sweep
<1>10. CASE Save
  BY <1>1, <1>10 DEF Save
<1>11. CASE Restart \/ SweepThrows
  BY <1>4, <1>11 DEF Restart, SweepThrows
<1>12. CASE UNCHANGED vars
  BY <1>1, <1>12 DEF vars, waitVars
<1> QED BY <1>2, <1>3, <1>6, <1>7, <1>8, <1>9, <1>10, <1>11, <1>12 DEF Next

\* No wake-up is spent on a waiter that has settled: lockWaiters holds exactly
\* the pending promises, each once, for any number of waiters and keys.
THEOREM WakeupsReachWaitersHolds == Spec => []WakeupsReachWaiters
<1>1. WaitInv => WakeupsReachWaiters
  BY DEF WaitInv
<1> QED BY <1>1, WaitInit, WaitStep, PTL DEF Spec

(* Type correctness: every variable keeps the shape the code gives it.     *)
THEOREM LockTypeCorrect == Spec => []TypeOK
<1>1. LockInv /\ OtherTypes /\ RenewalInv /\ WaitInv => TypeOK
  BY DEF LockInv, LeaseTypes, OtherTypes, RenewalInv, WaitInv, WaitTypes, TypeOK
<1> QED BY <1>1, InitInv, NextInv, OtherInit, OtherStep, RenewalInvInit, RenewalStep,
           WaitInit, WaitStep, PTL DEF Spec
=============================================================================
