------------------------------ MODULE LbaLocks ------------------------------
(***************************************************************************)
(* What the safe LBA list promises its callers, with no mutex and no       *)
(* condition variable: a set of LBAs that threads are working on, an       *)
(* insertion that takes effect only while the LBA is absent and that       *)
(* reports whether it met the LBA in the list before, and a deletion that  *)
(* does nothing if the LBA is absent.  NVM_KV_Sync_List implements it      *)
(* (module SyncList) and the operations of the store use it (KVOps).       *)
(***************************************************************************)

CONSTANTS Threads,   \* callers of the list
          Entries    \* the LBAs that can be inserted

VARIABLES
    list,    \* the LBAs in the list
    call,    \* call[t]: the operation t is in, or "none"
    entry,   \* entry[t]: the argument of that operation
    wait     \* wait[t]: the insertion of t has met its LBA in the list

vars == <<list, call, entry, wait>>

Init ==
    /\ list = {}
    /\ call = [t \in Threads |-> "none"]
    /\ entry \in [Threads -> Entries]
    /\ wait = [t \in Threads |-> FALSE]

CallInsert(t, e) ==
    /\ call[t] = "none"
    /\ call' = [call EXCEPT ![t] = "insert"]
    /\ entry' = [entry EXCEPT ![t] = e]
    /\ wait' = [wait EXCEPT ![t] = FALSE]
    /\ UNCHANGED list

\* The insertion meets its LBA in the list and will report wait = true.
Contend(t) ==
    /\ call[t] = "insert"
    /\ entry[t] \in list
    /\ wait' = [wait EXCEPT ![t] = TRUE]
    /\ UNCHANGED <<list, call, entry>>

Insert(t) ==
    /\ call[t] = "insert"
    /\ entry[t] \notin list
    /\ list' = list \cup {entry[t]}
    /\ call' = [call EXCEPT ![t] = "none"]
    /\ UNCHANGED <<entry, wait>>

CallDelete(t, e) ==
    /\ call[t] = "none"
    /\ call' = [call EXCEPT ![t] = "delete"]
    /\ entry' = [entry EXCEPT ![t] = e]
    /\ UNCHANGED <<list, wait>>

\* Deleting an LBA that is not in the list changes nothing.
Delete(t) ==
    /\ call[t] = "delete"
    /\ list' = list \ {entry[t]}
    /\ call' = [call EXCEPT ![t] = "none"]
    /\ UNCHANGED <<entry, wait>>

Next ==
    \E t \in Threads :
        \/ \E e \in Entries : CallInsert(t, e) \/ CallDelete(t, e)
        \/ Contend(t)
        \/ Insert(t)
        \/ Delete(t)

Spec == Init /\ [][Next]_vars
=============================================================================
