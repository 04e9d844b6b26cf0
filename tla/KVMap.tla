-------------------------------- MODULE KVMap --------------------------------
(***************************************************************************)
(* What the single-key calls of nvm_kv.h promise: a linearizable map.      *)
(* A call is made (Call), takes effect in one step that also fixes its     *)
(* result, and returns (Return).  A call that changes nothing may answer   *)
(* from any instant between its call and its answer: seen[t] collects what *)
(* the map held for the key of the pending call of t.                      *)
(***************************************************************************)
CONSTANTS Threads,    \* callers
          Keys,
          Values,
          Requests,   \* records with fields op, key, val and replace
          Absent,     \* what the map holds for a key that is not stored
          NoRequest,  \* no call in progress
          NoResult    \* the call has not been answered yet

VARIABLES
    store,  \* store[k]: value of k, or Absent
    req,    \* req[t]: the request t is executing, or NoRequest
    ret,    \* ret[t]: its answer, or NoResult
    seen    \* seen[t]: what store held for the key of req[t] so far

vars == <<store, req, ret, seen>>

Init ==
    /\ store = [k \in Keys |-> Absent]
    /\ req = [t \in Threads |-> NoRequest]
    /\ ret = [t \in Threads |-> NoResult]
    /\ seen = [t \in Threads |-> {}]

Pending(t) == req[t] # NoRequest /\ ret[t] = NoResult

Answer(t, x) == ret' = [ret EXCEPT ![t] = x]

Call(t, r) ==
    /\ req[t] = NoRequest
    /\ req' = [req EXCEPT ![t] = r]
    /\ seen' = [seen EXCEPT ![t] = {store[r.key]}]
    /\ UNCHANGED <<store, ret>>

\* The key of t's request takes the value v, under the eyes of every pending
\* call.
Update(t, v) ==
    /\ store' = [store EXCEPT ![req[t].key] = v]
    /\ seen' = [u \in Threads |-> IF Pending(u) THEN seen[u] \cup {store'[req[u].key]}
                                               ELSE seen[u]]
    /\ Answer(t, "ok")
    /\ UNCHANGED req

Put(t) ==
    /\ Pending(t) /\ req[t].op = "put"
    /\ req[t].replace \/ store[req[t].key] = Absent
    /\ Update(t, req[t].val)

PutExists(t) ==
    /\ Pending(t) /\ req[t].op = "put"
    /\ ~req[t].replace
    /\ seen[t] # {Absent}
    /\ Answer(t, "exists")
    /\ UNCHANGED <<store, req, seen>>

\* No free location, or the device failed: nothing changed.
Fail(t) ==
    /\ Pending(t)
    /\ Answer(t, "failed")
    /\ UNCHANGED <<store, req, seen>>

Delete(t) ==
    /\ Pending(t) /\ req[t].op = "delete"
    /\ Update(t, Absent)

DeleteAbsent(t) ==
    /\ Pending(t) /\ req[t].op = "delete"
    /\ Absent \in seen[t]
    /\ Answer(t, "ok")
    /\ UNCHANGED <<store, req, seen>>

Read(t) ==
    /\ Pending(t) /\ req[t].op \in {"get", "exists"}
    /\ \E v \in seen[t] :
         Answer(t, IF v = Absent THEN "notfound"
                   ELSE IF req[t].op = "get" THEN v ELSE "exists")
    /\ UNCHANGED <<store, req, seen>>

Return(t) ==
    /\ ret[t] # NoResult
    /\ req' = [req EXCEPT ![t] = NoRequest]
    /\ ret' = [ret EXCEPT ![t] = NoResult]
    /\ seen' = [seen EXCEPT ![t] = {}]
    /\ UNCHANGED store

Next ==
    \E t \in Threads :
        \/ \E r \in Requests : Call(t, r)
        \/ Put(t) \/ PutExists(t) \/ Fail(t)
        \/ Delete(t) \/ DeleteAbsent(t) \/ Read(t)
        \/ Return(t)

Spec == Init /\ [][Next]_vars
=============================================================================
