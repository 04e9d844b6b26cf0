--------------------------- MODULE SyncListProofs ---------------------------
(***************************************************************************)
(* The safe LBA list is correct for every number of threads and entries:   *)
(* the invariants of SyncList, and that it implements LbaLocks.            *)
(***************************************************************************)
EXTENDS SyncList, TLAPS

\* A thread is between lock and unlock exactly while it owns the mutex.
MutexOK == \A t \in Threads : pc[t] \in Critical <=> m_mtx = t

\* A caller deletes only what it holds, from its call to the erase.
DeletesOwn ==
    \A t \in Threads :
        pc[t] \in {"del_lock", "del_find", "del_erase"} => entry[t] \in held[t]

\* The inductive invariant: FindStaysTrue needs MutexOK, because what a thread
\* found stays true only while it keeps every other thread out; Exclusion
\* needs FindStaysTrue when an entry is inserted and DeletesOwn when one is
\* erased.
IInv == TypeOK /\ MutexOK /\ DeletesOwn /\ Exclusion /\ NoLostWakeup /\ FindStaysTrue

\* The initial states of the list satisfy the inductive invariant.
LEMMA InitIInv == Init => IInv
  BY SyncListAssumption
     DEF Init, IInv, TypeOK, MutexOK, DeletesOwn, Exclusion, NoLostWakeup, FindStaysTrue,
         Locations, Critical

\* Every step of a caller, of insert_entry or of delete_entry leaves the
\* variables in their sets.
LEMMA TypeStep == TypeOK /\ [Next]_vars => TypeOK'
<1> SUFFICES ASSUME TypeOK, [Next]_vars PROVE TypeOK'
  OBVIOUS
<1> USE SyncListAssumption DEF TypeOK, Locations, Critical, Goto, Lock
<1>1. ASSUME NEW t \in Threads, NEW e \in Entries, CallInsert(t, e)
      PROVE TypeOK'
  BY <1>1 DEF CallInsert
<1>2. ASSUME NEW t \in Threads, NEW e \in Entries, CallDelete(t, e)
      PROVE TypeOK'
  BY <1>2 DEF CallDelete
<1>3. ASSUME NEW t \in Threads, InsLock(t) PROVE TypeOK'
  BY <1>3 DEF InsLock
<1>4. ASSUME NEW t \in Threads, InsWait(t) PROVE TypeOK'
  BY <1>4 DEF InsWait
<1>5. ASSUME NEW t \in Threads, InsFindNone(t) PROVE TypeOK'
  BY <1>5 DEF InsFindNone
<1>6. ASSUME NEW t \in Threads, InsInsert(t) PROVE TypeOK'
  BY <1>6 DEF InsInsert
<1>7. ASSUME NEW t \in Threads, InsUnlock(t) PROVE TypeOK'
  BY <1>7 DEF InsUnlock
<1>8. ASSUME NEW t \in Threads, DelLock(t) PROVE TypeOK'
  BY <1>8 DEF DelLock
<1>9. ASSUME NEW t \in Threads, DelFind(t) PROVE TypeOK'
  BY <1>9 DEF DelFind
<1>10. ASSUME NEW t \in Threads, DelErase(t) PROVE TypeOK'
  BY <1>10 DEF DelErase, Woken
<1>11. ASSUME NEW t \in Threads, DelUnlock(t) PROVE TypeOK'
  BY <1>11 DEF DelUnlock
<1>12. ASSUME NEW t \in Threads, SpuriousWakeup(t) PROVE TypeOK'
  BY <1>12 DEF SpuriousWakeup
<1>13. CASE UNCHANGED vars
  BY <1>13 DEF vars
<1> QED
  BY <1>1, <1>2, <1>3, <1>4, <1>5, <1>6, <1>7, <1>8, <1>9, <1>10, <1>11,
     <1>12, <1>13 DEF Next, Step

\* Only the owner of the mutex moves inside the critical section, and a thread
\* enters it only when the mutex is free.
LEMMA MutexStep == TypeOK /\ MutexOK /\ [Next]_vars => MutexOK'
<1> SUFFICES ASSUME TypeOK, MutexOK, [Next]_vars PROVE MutexOK'
  OBVIOUS
<1> USE SyncListAssumption DEF TypeOK, MutexOK, Locations, Critical, Goto, Lock
<1>1. ASSUME NEW t \in Threads, NEW e \in Entries,
             CallInsert(t, e) \/ CallDelete(t, e)
      PROVE MutexOK'
  BY <1>1 DEF CallInsert, CallDelete
<1>2. ASSUME NEW t \in Threads, InsLock(t) \/ DelLock(t) PROVE MutexOK'
  BY <1>2 DEF InsLock, DelLock
<1>3. ASSUME NEW t \in Threads, InsWait(t) PROVE MutexOK'
  BY <1>3 DEF InsWait
<1>4. ASSUME NEW t \in Threads,
             InsFindNone(t) \/ InsInsert(t) \/ DelFind(t) \/ DelErase(t)
      PROVE MutexOK'
  BY <1>4 DEF InsFindNone, InsInsert, DelFind, DelErase
<1>5. ASSUME NEW t \in Threads, InsUnlock(t) \/ DelUnlock(t) PROVE MutexOK'
  BY <1>5 DEF InsUnlock, DelUnlock
<1>6. ASSUME NEW t \in Threads, SpuriousWakeup(t) PROVE MutexOK'
  BY <1>6 DEF SpuriousWakeup
<1>7. CASE UNCHANGED vars
  BY <1>7 DEF vars
<1> QED
  BY <1>1, <1>2, <1>3, <1>4, <1>5, <1>6, <1>7 DEF Next, Step

\* Between the call of delete_entry and the erase only the caller itself could
\* give up the entry.
LEMMA DeletesOwnStep == TypeOK /\ DeletesOwn /\ [Next]_vars => DeletesOwn'
<1> SUFFICES ASSUME TypeOK, DeletesOwn, [Next]_vars PROVE DeletesOwn'
  OBVIOUS
<1> USE DEF TypeOK, DeletesOwn, Locations, Critical, Goto, Lock
<1>1. ASSUME NEW t \in Threads, NEW e \in Entries,
             CallInsert(t, e) \/ CallDelete(t, e)
      PROVE DeletesOwn'
  BY <1>1 DEF CallInsert, CallDelete
<1>2. ASSUME NEW t \in Threads,
             \/ InsLock(t) \/ InsWait(t) \/ InsFindNone(t) \/ InsUnlock(t)
             \/ DelLock(t) \/ DelFind(t) \/ DelUnlock(t)
      PROVE DeletesOwn'
  BY <1>2 DEF InsLock, InsWait, InsFindNone, InsUnlock, DelLock, DelFind, DelUnlock
<1>3. ASSUME NEW t \in Threads, InsInsert(t) \/ DelErase(t)
      PROVE DeletesOwn'
  BY <1>3 DEF InsInsert, DelErase
<1>4. ASSUME NEW t \in Threads, SpuriousWakeup(t) PROVE DeletesOwn'
  BY <1>4 DEF SpuriousWakeup
<1>5. CASE UNCHANGED vars
  BY <1>5 DEF vars
<1> QED
  BY <1>1, <1>2, <1>3, <1>4, <1>5 DEF Next, Step

\* insert_entry adds to the list what its caller then holds, and only if the
\* find before it still holds; delete_entry takes away what it held.
LEMMA ExclusionStep ==
    TypeOK /\ DeletesOwn /\ Exclusion /\ FindStaysTrue /\ [Next]_vars
        => Exclusion'
<1> SUFFICES ASSUME TypeOK, DeletesOwn, Exclusion, FindStaysTrue, [Next]_vars
             PROVE Exclusion'
  OBVIOUS
<1> USE DEF TypeOK, Exclusion
<1>1. ASSUME NEW t \in Threads, InsInsert(t) PROVE Exclusion'
  <2>1. entry[t] \notin m_list
    BY <1>1 DEF InsInsert, Goto, FindStaysTrue
  <2>2. \A u \in Threads :
          held'[u] = IF u = t THEN held[t] \cup {entry[t]} ELSE held[u]
    BY <1>1 DEF InsInsert
  <2>3. m_list' = m_list \cup {entry[t]}
    BY <1>1 DEF InsInsert
  <2>4. m_list' = UNION {held'[u] : u \in Threads}
    BY <2>2, <2>3
  <2>5. \A u, v \in Threads : held'[u] \cap held'[v] # {} => u = v
    BY <2>1, <2>2
  <2> QED
    BY <2>4, <2>5
<1>2. ASSUME NEW t \in Threads, DelErase(t) PROVE Exclusion'
  <2>1. entry[t] \in held[t]
    BY <1>2 DEF DelErase, Goto, DeletesOwn
  <2>2. \A u \in Threads :
          held'[u] = IF u = t THEN held[t] \ {entry[t]} ELSE held[u]
    BY <1>2 DEF DelErase
  <2>3. \A u \in Threads : u # t => entry[t] \notin held[u]
    BY <2>1
  <2>4. m_list' = m_list \ {entry[t]}
    BY <1>2 DEF DelErase
  <2>5. m_list' = UNION {held'[u] : u \in Threads}
    BY <2>2, <2>3, <2>4
  <2>6. \A u, v \in Threads : held'[u] \cap held'[v] # {} => u = v
    BY <2>2
  <2> QED
    BY <2>5, <2>6
<1>3. ASSUME NEW t \in Threads, NEW e \in Entries,
             CallInsert(t, e) \/ CallDelete(t, e)
      PROVE Exclusion'
  BY <1>3 DEF CallInsert, CallDelete
<1>4. ASSUME NEW t \in Threads,
             \/ InsLock(t) \/ InsWait(t) \/ InsFindNone(t) \/ InsUnlock(t)
             \/ DelLock(t) \/ DelFind(t) \/ DelUnlock(t)
             \/ SpuriousWakeup(t)
      PROVE Exclusion'
  BY <1>4 DEF InsLock, InsWait, InsFindNone, InsUnlock, DelLock, DelFind,
              DelUnlock, SpuriousWakeup
<1>5. CASE UNCHANGED vars
  BY <1>5 DEF vars
<1> QED
  BY <1>1, <1>2, <1>3, <1>4, <1>5 DEF Next, Step

\* A thread goes to sleep on an entry it has just found; the erase that could
\* make its sleep pointless wakes every sleeper.
LEMMA WakeupStep == TypeOK /\ NoLostWakeup /\ [Next]_vars => NoLostWakeup'
<1> SUFFICES ASSUME TypeOK, NoLostWakeup, [Next]_vars PROVE NoLostWakeup'
  OBVIOUS
<1> USE DEF TypeOK, NoLostWakeup, Locations, Critical, Goto, Lock
<1>1. ASSUME NEW t \in Threads, NEW e \in Entries,
             CallInsert(t, e) \/ CallDelete(t, e)
      PROVE NoLostWakeup'
  BY <1>1 DEF CallInsert, CallDelete
<1>2. ASSUME NEW t \in Threads, InsWait(t) PROVE NoLostWakeup'
  BY <1>2 DEF InsWait
<1>3. ASSUME NEW t \in Threads, InsInsert(t) PROVE NoLostWakeup'
  BY <1>3 DEF InsInsert
<1>4. ASSUME NEW t \in Threads, DelErase(t) PROVE NoLostWakeup'
  BY <1>4 DEF DelErase, Woken
<1>5. ASSUME NEW t \in Threads,
             \/ InsLock(t) \/ InsFindNone(t) \/ InsUnlock(t)
             \/ DelLock(t) \/ DelFind(t) \/ DelUnlock(t)
      PROVE NoLostWakeup'
  BY <1>5 DEF InsLock, InsFindNone, InsUnlock, DelLock, DelFind, DelUnlock
<1>6. ASSUME NEW t \in Threads, SpuriousWakeup(t) PROVE NoLostWakeup'
  BY <1>6 DEF SpuriousWakeup
<1>7. CASE UNCHANGED vars
  BY <1>7 DEF vars
<1> QED
  BY <1>1, <1>2, <1>3, <1>4, <1>5, <1>6, <1>7 DEF Next, Step

\* What a thread found holds until it acts on it: m_list changes only under
\* the mutex, which the thread has kept since the find.
LEMMA FindStep ==
    TypeOK /\ MutexOK /\ FindStaysTrue /\ [Next]_vars => FindStaysTrue'
<1> SUFFICES ASSUME TypeOK, MutexOK, FindStaysTrue, [Next]_vars
             PROVE FindStaysTrue'
  OBVIOUS
<1> USE DEF TypeOK, FindStaysTrue, Locations, Critical, Goto, Lock
<1>1. ASSUME NEW t \in Threads, InsInsert(t) \/ DelErase(t)
      PROVE FindStaysTrue'
  <2>1. \A u \in Threads : u # t => pc[u] \notin {"ins_insert", "del_erase"}
    BY <1>1 DEF InsInsert, DelErase, MutexOK
  <2> QED
    BY <1>1, <2>1 DEF InsInsert, DelErase
<1>2. ASSUME NEW t \in Threads, NEW e \in Entries,
             CallInsert(t, e) \/ CallDelete(t, e)
      PROVE FindStaysTrue'
  BY <1>2 DEF CallInsert, CallDelete
<1>3. ASSUME NEW t \in Threads,
             \/ InsLock(t) \/ InsWait(t) \/ InsFindNone(t) \/ InsUnlock(t)
             \/ DelLock(t) \/ DelFind(t) \/ DelUnlock(t)
             \/ SpuriousWakeup(t)
      PROVE FindStaysTrue'
  BY <1>3 DEF InsLock, InsWait, InsFindNone, InsUnlock, DelLock, DelFind,
              DelUnlock, SpuriousWakeup
<1>4. CASE UNCHANGED vars
  BY <1>4 DEF vars
<1> QED
  BY <1>1, <1>2, <1>3, <1>4 DEF Next, Step

\* The invariant is inductive.
LEMMA Inductive == Spec => []IInv
<1>1. IInv /\ [Next]_vars => IInv'
  BY TypeStep, MutexStep, DeletesOwnStep, ExclusionStep, WakeupStep, FindStep
     DEF IInv
<1> QED
  BY InitIInv, <1>1, PTL DEF Spec

\* The variables of the safe LBA list stay in their sets.
THEOREM TypeCorrect == Spec => []TypeOK
  BY Inductive, PTL DEF IInv

\* At most one thread works on an LBA, and the list holds exactly what its
\* callers inserted and have not deleted.
THEOREM ExclusionHolds == Spec => []Exclusion
  BY Inductive, PTL DEF IInv

\* No thread sleeps in insert_entry for an entry that is already gone.
THEOREM NoLostWakeupHolds == Spec => []NoLostWakeup
  BY Inductive, PTL DEF IInv

\* Neither insert_entry nor delete_entry acts on a find that went stale.
THEOREM FindStaysTrueHolds == Spec => []FindStaysTrue
  BY Inductive, PTL DEF IInv

-----------------------------------------------------------------------------
\* One step of the list is a step of LbaLocks or leaves its variables alone.
LEMMA StepSimulation == IInv /\ [Next]_vars => [Locks!Next]_Locks!vars
<1> SUFFICES ASSUME IInv, [Next]_vars
             PROVE Locks!Next \/ UNCHANGED Locks!vars
  OBVIOUS
<1> USE DEF IInv, TypeOK, Locations, Critical, Goto, Lock, abstractCall
<1>1. ASSUME NEW t \in Threads, NEW e \in Entries, CallInsert(t, e)
      PROVE Locks!CallInsert(t, e)
  BY <1>1 DEF CallInsert, Locks!CallInsert
<1>2. ASSUME NEW t \in Threads, NEW e \in Entries, CallDelete(t, e)
      PROVE Locks!CallDelete(t, e)
  BY <1>2 DEF CallDelete, Locks!CallDelete
<1>3. ASSUME NEW t \in Threads, InsWait(t) PROVE Locks!Contend(t)
  BY <1>3 DEF InsWait, Locks!Contend
<1>4. ASSUME NEW t \in Threads, InsInsert(t) PROVE Locks!Insert(t)
  BY <1>4 DEF InsInsert, FindStaysTrue, Locks!Insert
<1>5. ASSUME NEW t \in Threads, DelErase(t) PROVE Locks!Delete(t)
  BY <1>5 DEF DelErase, Locks!Delete
<1>6. ASSUME NEW t \in Threads, DelFind(t)
      PROVE Locks!Delete(t) \/ UNCHANGED Locks!vars
  BY <1>6 DEF DelFind, Locks!Delete, Locks!vars
<1>7. ASSUME NEW t \in Threads,
             \/ InsLock(t) \/ InsFindNone(t) \/ InsUnlock(t)
             \/ DelLock(t) \/ DelUnlock(t) \/ SpuriousWakeup(t)
      PROVE UNCHANGED Locks!vars
  BY <1>7 DEF InsLock, InsFindNone, InsUnlock, DelLock, DelUnlock,
              SpuriousWakeup, Locks!vars
<1>8. CASE UNCHANGED vars
  BY <1>8 DEF vars, Locks!vars
<1> QED
  BY <1>1, <1>2, <1>3, <1>4, <1>5, <1>6, <1>7, <1>8
     DEF Next, Step, Locks!Next

\* NVM_KV_Sync_List implements the atomic list: an insertion takes effect in
\* one step, only while its LBA is absent, and *wait reports whether the LBA
\* was met.
THEOREM Implementation == Spec => ImplementsLocks
<1>1. Init => Locks!Init
  BY DEF Init, Locks!Init, abstractCall
<1>2. IInv /\ [Next]_vars => [Locks!Next]_Locks!vars
  BY StepSimulation
<1> QED
  BY <1>1, <1>2, Inductive, PTL DEF Spec, ImplementsLocks, Locks!Spec
=============================================================================
