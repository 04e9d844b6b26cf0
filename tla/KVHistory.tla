------------------------------ MODULE KVHistory ------------------------------
(***************************************************************************)
(* KVOps observed from outside: what each pending call could have seen of  *)
(* its key, and how many calls each thread has made.  With these the       *)
(* promises of nvm_kv.h can be stated, the first of them being that the    *)
(* store is a linearizable map (module KVMap).                             *)
(***************************************************************************)
EXTENDS KVOps, FiniteSetsExt

CONSTANTS MaxOps,    \* bound on the calls of a thread
          Exclusive  \* operations that the callers never overlap with a call

\* What marks a missing value, or a missing answer, is neither.
ASSUME MarkersAssumption ==
    /\ NoRec \notin Values \cup {Torn}
    /\ NoResult \notin Values \cup {Torn, "ok", "exists", "notfound", "failed"}

VARIABLES seen,   \* seen[t]: what Lookup gave for the key of t's pending call
          calls   \* calls[t]: calls that t has made

hvars == <<vars, seen, calls>>

-----------------------------------------------------------------------------
\* What a kv_get of k that ran in one step would find.
Copies(k) == {i \in 1..MaxCollision : Matches(Probe[k][i], k)}
Lookup(k) == IF Copies(k) = {} THEN NoRec ELSE media[Probe[k][Min(Copies(k))]].val

\* What the keys are mapped to.
Store == [k \in Keys |-> Lookup(k)]

HInit ==
    /\ Init
    /\ seen = [t \in Threads |-> {}]
    /\ calls = [t \in Threads |-> 0]

Observe ==
    /\ seen' = [t \in Threads |->
         IF req'[t] = NoRequest THEN {}
         ELSE IF req[t] = NoRequest THEN {Store[req'[t].key]}
         ELSE IF ret[t] # NoResult THEN seen[t]
         ELSE seen[t] \cup {Store'[req[t].key]}]
    /\ calls' = [t \in Threads |->
         IF req[t] = NoRequest /\ req'[t] # NoRequest THEN calls[t] + 1 ELSE calls[t]]
    /\ \A t \in Threads : calls'[t] <= MaxOps

HStep(t) == Step(t) /\ Observe
HCall(t) ==
    /\ \E r \in Requests :
         /\ Call(t, r)
         /\ \A u \in Threads :
              req[u] # NoRequest => r.op \notin Exclusive /\ req[u].op \notin Exclusive
    /\ Observe

HNext == (\E t \in Threads : HStep(t) \/ HCall(t)) \/ (Tick /\ Observe)

HSpec == HInit /\ [][HNext]_hvars

\* A thread that is inside a call is scheduled.
FairHSpec == HSpec /\ \A t \in Threads : WF_hvars(HStep(t))

Map == INSTANCE KVMap WITH Absent <- NoRec,
                           store <- Store

\* Every call of the store is a call of an atomic map: it takes effect, and
\* gets its answer, at one instant between its start and its end.
ImplementsMap == Map!Spec

-----------------------------------------------------------------------------
Answered(t, op) == req[t] # NoRequest /\ req[t].op = op /\ ret[t] = "ok"
Alone(t) == \A u \in Threads \ {t} : req[u] = NoRequest

\* "deletes key value pair on the KV store" (nvm_kv.h, nvm_kv_delete): when a
\* call of kv_delete that had no company answers, the key is not found.
DeletedIsGone ==
    \A t \in Threads :
        Answered(t, "delete") /\ Alone(t) => Lookup(req[t].key) = NoRec

\* kv_put locks a free LBA before it writes it "to make kvPut thread safe":
\* a record is never overwritten by the record of another key.
NoOverwrite ==
    [][\A s \in Slots : media[s] # NoRec /\ media'[s] # NoRec
                        => media'[s].key = media[s].key]_hvars

\* Once callers stop, every call ends: nobody is left waiting for an LBA.
CallsEnd == \A t \in Threads : pc[t] # "idle" ~> pc[t] = "idle"
=============================================================================
