------------------------------ MODULE SyncList ------------------------------
(***************************************************************************)
(* NVM_KV_Sync_List (util/kv_sync_list.cpp), the "safe LBA list": a set    *)
(* guarded by one mutex, with one condition variable shared by the waiters *)
(* of every entry.  insert_entry waits while its entry is present,         *)
(* delete_entry erases and broadcasts.                                     *)
(*                                                                         *)
(* The callers are the operations of the store: a thread inserts an entry, *)
(* works on it and deletes it.  held[t] is the set of entries t has        *)
(* inserted and not yet deleted, MaxHeld the number it may hold at once    *)
(* (one for kv_put and kv_delete, several for the batch operations).       *)
(***************************************************************************)
EXTENDS Naturals, FiniteSets

CONSTANTS Threads,   \* the threads that use the list
          Entries,   \* the LBAs they insert
          NoThread,  \* owner of a free mutex
          MaxHeld    \* entries a caller may hold at the same time

ASSUME SyncListAssumption ==
    /\ NoThread \notin Threads
    /\ MaxHeld \in Nat

VARIABLES
    m_list,   \* the set of entries
    m_mtx,    \* the thread that owns the mutex, or NoThread
    sleeping, \* threads blocked in pthread_cond_wait
    pc,       \* where each thread is
    entry,    \* argument of the call a thread is in
    wait,     \* the *wait result of insert_entry
    held      \* entries the thread has inserted and not deleted

vars == <<m_list, m_mtx, sleeping, pc, entry, wait, held>>

\* The locations at which a thread owns the mutex, and all locations.
Critical == {"ins_find", "ins_insert", "ins_unlock",
             "del_find", "del_erase", "del_unlock"}
Locations == {"idle", "ins_lock", "del_lock"} \cup Critical

TypeOK ==
    /\ m_list \in SUBSET Entries
    /\ m_mtx \in Threads \cup {NoThread}
    /\ sleeping \in SUBSET Threads
    /\ pc \in [Threads -> Locations]
    /\ entry \in [Threads -> Entries]
    /\ wait \in [Threads -> BOOLEAN]
    /\ held \in [Threads -> SUBSET Entries]

Init ==
    /\ m_list = {}
    /\ m_mtx = NoThread
    /\ sleeping = {}
    /\ pc = [t \in Threads |-> "idle"]
    /\ entry \in [Threads -> Entries]
    /\ wait = [t \in Threads |-> FALSE]
    /\ held = [t \in Threads |-> {}]

Goto(t, from, to) ==
    /\ pc[t] = from
    /\ pc' = [pc EXCEPT ![t] = to]

\* Mutant: the mutex is not taken.
LockNothing(t) == t \notin sleeping /\ UNCHANGED m_mtx

\* pthread_mutex_lock, and the way back into the mutex from pthread_cond_wait
Lock(t) ==
    /\ m_mtx = NoThread
    /\ t \notin sleeping
    /\ m_mtx' = t

(***************************************************************************)
(* insert_entry                                                            *)
(***************************************************************************)
\* Mutant: *wait keeps what the previous call left in it.
CallInsertUnset(t, e) ==
    /\ e \notin held[t]
    /\ Cardinality(held[t]) < MaxHeld
    /\ Goto(t, "idle", "ins_lock")
    /\ entry' = [entry EXCEPT ![t] = e]
    /\ UNCHANGED <<m_list, m_mtx, sleeping, wait, held>>

\* *wait = false comes before the mutex.
CallInsert(t, e) ==
    /\ e \notin held[t]
    /\ Cardinality(held[t]) < MaxHeld
    /\ Goto(t, "idle", "ins_lock")
    /\ entry' = [entry EXCEPT ![t] = e]
    /\ wait' = [wait EXCEPT ![t] = FALSE]
    /\ UNCHANGED <<m_list, m_mtx, sleeping, held>>

InsLock(t) ==
    /\ Goto(t, "ins_lock", "ins_find")
    /\ Lock(t)
    /\ UNCHANGED <<m_list, sleeping, entry, wait, held>>

\* The entry is present: *wait = true, and pthread_cond_wait gives up the
\* mutex and sleeps in one step; once woken the thread takes the mutex again
\* and repeats m_list.find.
InsWait(t) ==
    /\ Goto(t, "ins_find", "ins_lock")
    /\ entry[t] \in m_list
    /\ wait' = [wait EXCEPT ![t] = TRUE]
    /\ sleeping' = sleeping \cup {t}
    /\ m_mtx' = NoThread
    /\ UNCHANGED <<m_list, entry, held>>

InsFindNone(t) ==
    /\ Goto(t, "ins_find", "ins_insert")
    /\ entry[t] \notin m_list
    /\ UNCHANGED <<m_list, m_mtx, sleeping, entry, wait, held>>

InsInsert(t) ==
    /\ Goto(t, "ins_insert", "ins_unlock")
    /\ m_list' = m_list \cup {entry[t]}
    /\ held' = [held EXCEPT ![t] = @ \cup {entry[t]}]
    /\ UNCHANGED <<m_mtx, sleeping, entry, wait>>

InsUnlock(t) ==
    /\ Goto(t, "ins_unlock", "idle")
    /\ m_mtx' = NoThread
    /\ UNCHANGED <<m_list, sleeping, entry, wait, held>>

(***************************************************************************)
(* delete_entry                                                            *)
(***************************************************************************)
CallDelete(t, e) ==
    /\ e \in held[t]
    /\ Goto(t, "idle", "del_lock")
    /\ entry' = [entry EXCEPT ![t] = e]
    /\ UNCHANGED <<m_list, m_mtx, sleeping, wait, held>>

DelLock(t) ==
    /\ Goto(t, "del_lock", "del_find")
    /\ Lock(t)
    /\ UNCHANGED <<m_list, sleeping, entry, wait, held>>

DelFind(t) ==
    /\ Goto(t, "del_find",
            IF entry[t] \in m_list THEN "del_erase" ELSE "del_unlock")
    /\ UNCHANGED <<m_list, m_mtx, sleeping, entry, wait, held>>

\* Mutant: pthread_cond_signal.
WokenOne == IF sleeping = {} THEN {} ELSE {CHOOSE t \in sleeping : TRUE}

\* Mutant: nobody is woken.
WokenNone == {}

\* Who pthread_cond_broadcast wakes: whatever entry a thread waits for.
Woken == sleeping

DelErase(t) ==
    /\ Goto(t, "del_erase", "del_unlock")
    /\ m_list' = m_list \ {entry[t]}
    /\ sleeping' = sleeping \ Woken
    /\ held' = [held EXCEPT ![t] = @ \ {entry[t]}]
    /\ UNCHANGED <<m_mtx, entry, wait>>

DelUnlock(t) ==
    /\ Goto(t, "del_unlock", "idle")
    /\ m_mtx' = NoThread
    /\ UNCHANGED <<m_list, sleeping, entry, wait, held>>

\* POSIX lets pthread_cond_wait return without a signal.
SpuriousWakeup(t) ==
    /\ t \in sleeping
    /\ sleeping' = sleeping \ {t}
    /\ UNCHANGED <<m_list, m_mtx, pc, entry, wait, held>>

-----------------------------------------------------------------------------
\* The steps a thread takes inside a call, whatever its caller decides.
Step(t) ==
    \/ InsLock(t) \/ InsWait(t) \/ InsFindNone(t) \/ InsInsert(t) \/ InsUnlock(t)
    \/ DelLock(t) \/ DelFind(t) \/ DelErase(t) \/ DelUnlock(t)

Next ==
    \E t \in Threads :
        \/ \E e \in Entries : CallInsert(t, e) \/ CallDelete(t, e)
        \/ Step(t)
        \/ SpuriousWakeup(t)

Spec == Init /\ [][Next]_vars

(***************************************************************************)
(* A thread that can take a step of a call takes one; the mutex, which is  *)
(* released after every few instructions, is not withheld for ever from a  *)
(* thread that asks for it (strong fairness of the two Lock steps); and an *)
(* operation of the store always comes to the delete_entry of what it      *)
(* inserted.  A thread may lose the race for its entry again and again:    *)
(* nothing in the code orders the waiters.                                 *)
(***************************************************************************)
FairSpec ==
    /\ Spec
    /\ \A t \in Threads : WF_vars(Step(t)) /\ SF_vars(InsLock(t) \/ DelLock(t))
    /\ \A t \in Threads : WF_vars(\E e \in Entries : CallDelete(t, e))

-----------------------------------------------------------------------------
\* An entry is worked on by one thread at a time, and the list is exactly
\* what its callers hold: the exclusion that kv_put and kv_delete rely on
\* between insert_lba_to_safe_list and delete_lba_from_safe_list.
Exclusion ==
    /\ m_list = UNION {held[t] : t \in Threads}
    /\ \A t, u \in Threads : held[t] \cap held[u] # {} => t = u

\* No wakeup is lost: a thread sleeps in insert_entry only while its entry is
\* present, so the deletion that removes it is still to come.
NoLostWakeup ==
    \A t \in sleeping : pc[t] = "ins_lock" /\ entry[t] \in m_list

\* What m_list.find answered still holds when the thread acts on it: no other
\* thread inserted the entry before m_list.insert, none erased it before
\* m_list.erase (whose iterator would dangle).
FindStaysTrue ==
    \A t \in Threads :
        /\ pc[t] = "ins_insert" => entry[t] \notin m_list
        /\ pc[t] = "del_erase" => entry[t] \in m_list

\* A thread that sleeps in insert_entry is woken, whichever entry the thread
\* that wakes it was deleting.
SleepersWake == \A t \in Threads : t \in sleeping ~> t \notin sleeping

-----------------------------------------------------------------------------
\* The list implements LbaLocks: a call begins when it asks for the mutex and
\* takes effect where it changes m_list.
abstractCall ==
    [t \in Threads |->
        IF pc[t] \in {"ins_lock", "ins_find", "ins_insert"} THEN "insert"
        ELSE IF pc[t] \in {"del_lock", "del_find", "del_erase"} THEN "delete"
        ELSE "none"]

Locks == INSTANCE LbaLocks WITH list <- m_list, call <- abstractCall

\* insert_entry and delete_entry take effect atomically, and *wait is reported
\* only by a call that has met its entry in the list.
ImplementsLocks == Locks!Spec
=============================================================================
