------------------------------ MODULE Iterators ------------------------------
(***************************************************************************)
(* The iterators of a store, NVM_KV_Iterator (src/kv_iterator.cpp), and    *)
(* the calls made of them, kv_begin, kv_next, kv_get_current and           *)
(* kv_iteration_end (src/kv_store_mgr.cpp).                                *)
(*                                                                         *)
(* An iterator is in one of a fixed number of places.  It holds a batch of *)
(* ranges, which nvm_logical_range_iterator fills with the next LBAs on    *)
(* the device, and a position in it.  Moving on skips LBAs whose pool hash *)
(* is not that of the iterator's pool and, when the store has so many      *)
(* pools that they share hashes, reads the header of the record to tell    *)
(* its pool.                                                               *)
(*                                                                         *)
(* A caller begins an iteration, uses the iterator it was given, alone,    *)
(* and ends it.  Meanwhile records are put, trimmed and expire, and pools  *)
(* are deleted and created.  What one access to the media or to the state  *)
(* of a pool finds may be stale at the next: each is a step.               *)
(***************************************************************************)
EXTENDS Integers, FiniteSets

CONSTANTS Threads,      \* callers that iterate
          MaxIter,      \* NVM_KV_MAX_ITERATORS
          MaxRanges,    \* nvm_max_num_logical_iter_ranges
          NumSlots,     \* LBAs of records on the device, in their order
          Pools,        \* pool ids
          DefaultPool,  \* the pool that is never deleted; its id is 0
          PoolHash,     \* the hash of a pool: the low bits of its LBAs
          SlotHash,     \* the low bits of an LBA
          ManyPools,    \* m_max_pools > 2^m_pool_bits: pools share hashes
          DeviceErrors, \* device calls may fail
          MaxPuts,      \* bound on puts
          MaxDeletes,   \* bound on deletions of pools
          NoIter,       \* NULL in m_iter
          NoRec         \* nothing is stored at an LBA

Slots == 1 .. NumSlots
Places == 0 .. MaxIter - 1
Records == [pool : Pools, expired : BOOLEAN]

\* kv_batch_iterator_t: range_to_iterate begins at start; ranges has entries of
\* earlier batches behind the num_ranges_found of this one.
Iterators ==
    [pool_id : Pools, pos : Nat, num_ranges_found : Nat,
     start : Nat, ranges : [0 .. MaxRanges - 1 -> Nat]]

ASSUME IteratorsAssumption ==
    /\ MaxIter \in Nat
    /\ MaxRanges \in Nat \ {0}
    /\ NumSlots \in Nat
    /\ DefaultPool \in Pools
    /\ PoolHash \in [Pools -> Nat]
    /\ SlotHash \in [Slots -> Nat]
    /\ ManyPools \in BOOLEAN
    /\ ~ManyPools => \A p, q \in Pools : PoolHash[p] = PoolHash[q] => p = q
    /\ DeviceErrors \in BOOLEAN
    /\ MaxPuts \in Nat
    /\ MaxDeletes \in Nat
    /\ NoIter \notin Iterators
    /\ NoRec \notin Records

VARIABLES
    media,    \* what is stored at each LBA
    in_use,   \* pools that are in use; the others are being deleted
    puts,     \* records put so far
    deletes,  \* pools deleted so far
    m_iter,   \* the places: an iterator or NoIter
    pc,       \* where in a call a thread is
    api,      \* the call it is in
    it_id,    \* the place of its iterator, -1 if it has none
    acquired, \* buf_acquired of kv_get_current
    buffers   \* how many more buffers it took in this call than it released

\* What an observer notes of a caller's iteration.
VARIABLES
    stable,   \* LBAs of records of the pool that were there all the time
    returned, \* LBAs the iterator was placed at
    phase,    \* "on", "ended" once it met the end, "failed" after any other error
    stale,    \* whether the LBA it is placed at was written since
    lost      \* whether the pool was deleted since kv_begin

env == <<media, in_use, puts, deletes>>
bufs == <<acquired, buffers>>
seen == <<stable, returned, phase, stale, lost>>
vars == <<env, m_iter, pc, api, it_id, bufs, seen>>

TypeOK ==
    /\ media \in [Slots -> Records \cup {NoRec}]
    /\ in_use \in SUBSET Pools
    /\ puts \in Nat
    /\ deletes \in Nat
    /\ m_iter \in [Places -> Iterators \cup {NoIter}]
    /\ pc \in [Threads -> {"idle", "iterate", "check", "get_loc", "read", "free"}]
    /\ api \in [Threads -> {"begin", "next", "current"}]
    /\ it_id \in [Threads -> Places \cup {-1}]
    /\ acquired \in [Threads -> BOOLEAN]
    /\ buffers \in [Threads -> -1 .. 1]
    /\ stable \in [Threads -> SUBSET Slots]
    /\ returned \in [Threads -> SUBSET Nat]
    /\ phase \in [Threads -> {"on", "ended", "failed"}]
    /\ stale \in [Threads -> BOOLEAN]
    /\ lost \in [Threads -> BOOLEAN]

\* A store with any records, each at an LBA with the hash of its pool.
Init ==
    /\ media \in [Slots -> Records \cup {NoRec}]
    /\ \A s \in Slots : media[s] # NoRec => PoolHash[media[s].pool] = SlotHash[s]
    /\ in_use = Pools
    /\ puts = 0
    /\ deletes = 0
    /\ m_iter = [i \in Places |-> NoIter]
    /\ pc = [t \in Threads |-> "idle"]
    /\ api = [t \in Threads |-> "begin"]
    /\ it_id = [t \in Threads |-> -1]
    /\ acquired = [t \in Threads |-> FALSE]
    /\ buffers = [t \in Threads |-> 0]
    /\ stable = [t \in Threads |-> {}]
    /\ returned = [t \in Threads |-> {}]
    /\ phase = [t \in Threads |-> "on"]
    /\ stale = [t \in Threads |-> FALSE]
    /\ lost = [t \in Threads |-> FALSE]

HasIter(t) == it_id[t] # -1
Iter(t) == m_iter[it_id[t]]
Here(t) == Iter(t).ranges[Iter(t).pos]

\* validate_iter: the place is taken and the iterator's pool is in use.
Valid(t) == Iter(t).pool_id \in in_use

Goto(t, there) == pc' = [pc EXCEPT ![t] = there]

(***************************************************************************)
(* The rest of the store: kv_put, kv_delete and everything else that       *)
(* trims, the clock, and the life of pools.                                *)
(***************************************************************************)
\* An LBA that was free gets a record, or one gets a new value.
Put(s, p) ==
    /\ puts < MaxPuts
    /\ p \in in_use
    /\ SlotHash[s] = PoolHash[p]
    /\ media[s] # NoRec => media[s].pool = p
    /\ media' = [media EXCEPT ![s] = [pool |-> p, expired |-> FALSE]]
    /\ puts' = puts + 1
    /\ stale' = [t \in Threads |-> stale[t] \/ (media[s] = NoRec /\ HasIter(t) /\ s = Here(t))]
    /\ UNCHANGED <<in_use, deletes, m_iter, pc, api, it_id, bufs, stable, returned, phase, lost>>

Trim(s) ==
    /\ media[s] # NoRec
    /\ media' = [media EXCEPT ![s] = NoRec]
    /\ stable' = [t \in Threads |-> stable[t] \ {s}]
    /\ stale' = [t \in Threads |-> stale[t] \/ (HasIter(t) /\ s = Here(t))]
    /\ UNCHANGED <<in_use, puts, deletes, m_iter, pc, api, it_id, bufs, returned, phase, lost>>

Expire(s) ==
    /\ media[s] # NoRec
    /\ ~media[s].expired
    /\ media' = [media EXCEPT ![s].expired = TRUE]
    /\ UNCHANGED <<in_use, puts, deletes, m_iter, pc, api, it_id, bufs, seen>>

DeletePool(p) ==
    /\ deletes < MaxDeletes
    /\ p \in in_use \ {DefaultPool}
    /\ in_use' = in_use \ {p}
    /\ deletes' = deletes + 1
    /\ lost' = [t \in Threads |-> lost[t] \/ (HasIter(t) /\ Iter(t).pool_id = p)]
    /\ UNCHANGED <<media, puts, m_iter, pc, api, it_id, bufs, stable, returned, phase, stale>>

\* The id of a deleted pool is used again once its records are trimmed.
CreatePool(p) ==
    /\ p \notin in_use
    /\ \A s \in Slots : media[s] # NoRec => media[s].pool # p
    /\ in_use' = in_use \cup {p}
    /\ UNCHANGED <<media, puts, deletes, m_iter, pc, api, it_id, bufs, seen>>

(***************************************************************************)
(* kv_begin: alloc_iter, init_iter and, in iter_over_pool, the first move  *)
(***************************************************************************)
NewIter(p) ==
    [pool_id |-> p, pos |-> 0, num_ranges_found |-> 0, start |-> 1,
     ranges |-> [j \in 0 .. MaxRanges - 1 |-> 0]]

\* Mutant: a place is taken, whether free or not.
AnyPlace(i) == i \in Places

\* alloc_iter takes the first place that is free.
FreePlace(i) ==
    /\ m_iter[i] = NoIter
    /\ \A j \in Places : j < i => m_iter[j] # NoIter

Begin(t, p) ==
    /\ pc[t] = "idle"
    /\ ~HasIter(t)
    /\ p \in in_use
    /\ \E i \in Places :
           /\ FreePlace(i)
           /\ m_iter' = [m_iter EXCEPT ![i] = NewIter(p)]
           /\ it_id' = [it_id EXCEPT ![t] = i]
    /\ api' = [api EXCEPT ![t] = "begin"]
    /\ Goto(t, "iterate")
    /\ stable' = [stable EXCEPT ![t] = {s \in Slots : media[s] # NoRec /\ media[s].pool = p}]
    /\ returned' = [returned EXCEPT ![t] = {}]
    /\ phase' = [phase EXCEPT ![t] = "on"]
    /\ stale' = [stale EXCEPT ![t] = FALSE]
    /\ lost' = [lost EXCEPT ![t] = FALSE]
    /\ buffers' = [buffers EXCEPT ![t] = 0]
    /\ UNCHANGED <<env, acquired>>

(***************************************************************************)
(* iter_over_pool and iterate                                              *)
(***************************************************************************)
\* A call returns an error from iter_over_pool: kv_begin goes on to free the
\* iterator, kv_get_current releases its buffer.
Fail(t, how) ==
    /\ Goto(t, IF api[t] = "begin" THEN "free" ELSE "idle")
    /\ buffers' = [buffers EXCEPT ![t] = IF api[t] = "current" THEN @ - 1 ELSE @]
    /\ acquired' = [acquired EXCEPT ![t] = FALSE]
    /\ phase' = [phase EXCEPT ![t] = IF @ = "on" THEN how ELSE @]
    /\ UNCHANGED <<env, api, it_id, stable, returned, stale, lost>>

PoolGone(t) ==
    /\ pc[t] = "iterate"
    /\ ~Valid(t)
    /\ UNCHANGED m_iter
    /\ Fail(t, "failed")

\* Mutant: the last entry of a batch is not taken.
BeforeLast(t) == Iter(t).pos + 2 < Iter(t).num_ranges_found

InBatch(t) == Iter(t).pos + 1 < Iter(t).num_ranges_found

MoveOn(t) ==
    /\ pc[t] = "iterate"
    /\ Valid(t)
    /\ InBatch(t)
    /\ m_iter' = [m_iter EXCEPT ![it_id[t]].pos = @ + 1]
    /\ Goto(t, "check")
    /\ UNCHANGED <<env, api, it_id, bufs, seen>>

\* The LBAs ahead that pass the filter: of the pool's hash, or, if that is
\* zero, any.
Ahead(t) ==
    LET hash == PoolHash[Iter(t).pool_id] IN
    {s \in Iter(t).start .. NumSlots :
        media[s] # NoRec /\ (hash = 0 \/ SlotHash[s] = hash)}

Rank(s, S) == Cardinality({r \in S : r < s})

\* Mutant: the position is left where it was.
RefillHere(t, batch) ==
    [Iter(t) EXCEPT
        !.num_ranges_found = Cardinality(batch),
        !.start = 1 + CHOOSE s \in batch : \A r \in batch : r <= s,
        !.ranges = [j \in 0 .. MaxRanges - 1 |->
                        IF j < Cardinality(batch)
                        THEN CHOOSE s \in batch : Rank(s, batch) = j
                        ELSE @[j]]]

\* The iterator with this batch: nvm_logical_range_iterator fills in the
\* ranges and goes behind the last of them.
Refill(t, batch) ==
    [Iter(t) EXCEPT
        !.pos = 0,
        !.num_ranges_found = Cardinality(batch),
        !.start = 1 + CHOOSE s \in batch : \A r \in batch : r <= s,
        !.ranges = [j \in 0 .. MaxRanges - 1 |->
                        IF j < Cardinality(batch)
                        THEN CHOOSE s \in batch : Rank(s, batch) = j
                        ELSE @[j]]]

Fetch(t) ==
    /\ pc[t] = "iterate"
    /\ Valid(t)
    /\ ~InBatch(t)
    /\ Ahead(t) # {}
    /\ LET batch == {s \in Ahead(t) : Rank(s, Ahead(t)) < MaxRanges}
       IN  m_iter' = [m_iter EXCEPT ![it_id[t]] = Refill(t, batch)]
    /\ Goto(t, "check")
    /\ UNCHANGED <<env, api, it_id, bufs, seen>>

\* The device has no more, or fails: the position is 0 all the same, and
\* num_ranges_found what it was.
AtEnd(t) ==
    /\ pc[t] = "iterate"
    /\ Valid(t)
    /\ ~InBatch(t)
    /\ Ahead(t) = {}
    /\ m_iter' = [m_iter EXCEPT ![it_id[t]].pos = 0]
    /\ Fail(t, "ended")

IterateError(t) ==
    /\ DeviceErrors
    /\ pc[t] = "iterate"
    /\ Valid(t)
    /\ ~InBatch(t)
    /\ m_iter' = [m_iter EXCEPT ![it_id[t]].pos = 0]
    /\ Fail(t, "failed")

\* get_poolid: an LBA that is not written reads as zeros.
PoolAt(s) == IF media[s] = NoRec THEN DefaultPool ELSE media[s].pool

\* Mutant: only the hashes are compared.
HashOfPool(t) == SlotHash[Here(t)] = PoolHash[Iter(t).pool_id]

OfPool(t) ==
    /\ SlotHash[Here(t)] = PoolHash[Iter(t).pool_id]
    /\ ManyPools => PoolAt(Here(t)) = Iter(t).pool_id

Skip(t) ==
    /\ pc[t] = "check"
    /\ ~OfPool(t)
    /\ Goto(t, "iterate")
    /\ UNCHANGED <<env, m_iter, api, it_id, bufs, seen>>

CheckError(t) ==
    /\ DeviceErrors
    /\ ManyPools
    /\ pc[t] = "check"
    /\ SlotHash[Here(t)] = PoolHash[Iter(t).pool_id]
    /\ UNCHANGED m_iter
    /\ Fail(t, "failed")

\* Mutant: kv_get_current goes round its loop without releasing the buffer.
StandKept(t) ==
    /\ pc[t] = "check"
    /\ OfPool(t)
    /\ Goto(t, IF api[t] = "current" THEN "get_loc" ELSE "idle")
    /\ returned' = [returned EXCEPT ![t] = IF phase[t] = "on" THEN @ \cup {Here(t)} ELSE @]
    /\ stale' = [stale EXCEPT ![t] = FALSE]
    /\ UNCHANGED <<env, m_iter, api, it_id, bufs, stable, phase, lost>>

\* The iterator is placed at a record of its pool: kv_begin and kv_next return,
\* kv_get_current releases its buffer and goes round its loop.
Stand(t) ==
    /\ pc[t] = "check"
    /\ OfPool(t)
    /\ Goto(t, IF api[t] = "current" THEN "get_loc" ELSE "idle")
    /\ buffers' = [buffers EXCEPT ![t] = IF api[t] = "current" THEN @ - 1 ELSE @]
    /\ returned' = [returned EXCEPT ![t] = IF phase[t] = "on" THEN @ \cup {Here(t)} ELSE @]
    /\ stale' = [stale EXCEPT ![t] = FALSE]
    /\ UNCHANGED <<env, m_iter, api, it_id, acquired, stable, phase, lost>>

(***************************************************************************)
(* kv_next, kv_get_current and kv_iteration_end                            *)
(***************************************************************************)
Call(t, which, there) ==
    /\ pc[t] = "idle"
    /\ HasIter(t)
    /\ api' = [api EXCEPT ![t] = which]
    /\ Goto(t, there)
    /\ buffers' = [buffers EXCEPT ![t] = 0]
    /\ UNCHANGED <<env, m_iter, it_id, acquired, seen>>

NextCall(t) == Call(t, "next", "iterate")

CurrentCall(t) == Call(t, "current", "get_loc")

GetLoc(t) ==
    /\ pc[t] = "get_loc"
    /\ Valid(t)
    /\ Goto(t, "read")
    /\ acquired' = [acquired EXCEPT ![t] = TRUE]
    /\ buffers' = [buffers EXCEPT ![t] = @ + 1]
    /\ UNCHANGED <<env, m_iter, api, it_id, seen>>

\* What buf_acquired says is released; it is still set in a second round of
\* the loop, when the buffer of the first was released.
Exit(t) ==
    /\ Goto(t, "idle")
    /\ buffers' = [buffers EXCEPT ![t] = IF acquired[t] THEN @ - 1 ELSE @]
    /\ acquired' = [acquired EXCEPT ![t] = FALSE]
    /\ UNCHANGED <<env, m_iter, api, it_id, seen>>

GetLocError(t) ==
    /\ pc[t] = "get_loc"
    /\ ~Valid(t)
    /\ Exit(t)

Live(s) == media[s] # NoRec /\ ~media[s].expired

\* A record that is gone or has expired is passed over; the buffer is kept
\* until iter_over_pool returns.
PassOver(t) ==
    /\ pc[t] = "read"
    /\ ~Live(Here(t))
    /\ Goto(t, "iterate")
    /\ UNCHANGED <<env, m_iter, api, it_id, bufs, seen>>

Answer(t) ==
    /\ pc[t] = "read"
    /\ Live(Here(t))
    /\ Exit(t)

ReadError(t) ==
    /\ DeviceErrors
    /\ pc[t] = "read"
    /\ Exit(t)

\* Mutant: kv_begin forgets an iterator that found nothing.
Forget(t) ==
    /\ it_id' = [it_id EXCEPT ![t] = -1]
    /\ UNCHANGED m_iter

\* free_iterator; a failed kv_begin takes no notice of its result, and its
\* caller never learns the place.
FreeIterator(t) ==
    /\ m_iter' = [m_iter EXCEPT ![it_id[t]] = IF Valid(t) THEN NoIter ELSE @]
    /\ it_id' = [it_id EXCEPT ![t] = -1]

Forgotten(t) ==
    /\ stable' = [stable EXCEPT ![t] = {}]
    /\ returned' = [returned EXCEPT ![t] = {}]
    /\ phase' = [phase EXCEPT ![t] = "on"]
    /\ stale' = [stale EXCEPT ![t] = FALSE]
    /\ UNCHANGED <<env, api, bufs, lost>>

BeginFailed(t) ==
    /\ pc[t] = "free"
    /\ FreeIterator(t)
    /\ Goto(t, "idle")
    /\ Forgotten(t)

\* When the pool is in deletion kv_iteration_end refuses and changes nothing.
IterationEnd(t) ==
    /\ pc[t] = "idle"
    /\ HasIter(t)
    /\ Valid(t)
    /\ FreeIterator(t)
    /\ UNCHANGED pc
    /\ Forgotten(t)

(***************************************************************************)
(* Specification                                                           *)
(***************************************************************************)
\* A step of a call that is under way.
Step(t) ==
    \/ PoolGone(t)
    \/ MoveOn(t)
    \/ Fetch(t)
    \/ AtEnd(t)
    \/ IterateError(t)
    \/ Skip(t)
    \/ CheckError(t)
    \/ Stand(t)
    \/ GetLoc(t)
    \/ GetLocError(t)
    \/ PassOver(t)
    \/ Answer(t)
    \/ ReadError(t)
    \/ BeginFailed(t)

Start(t) ==
    \/ \E p \in Pools : Begin(t, p)
    \/ NextCall(t)
    \/ CurrentCall(t)
    \/ IterationEnd(t)

Environment ==
    \/ \E s \in Slots, p \in Pools : Put(s, p)
    \/ \E s \in Slots : Trim(s)
    \/ \E s \in Slots : Expire(s)
    \/ \E p \in Pools : DeletePool(p)
    \/ \E p \in Pools : CreatePool(p)

Next == Environment \/ \E t \in Threads : Step(t) \/ Start(t)

Spec == Init /\ [][Next]_vars

(***************************************************************************)
(* Properties                                                              *)
(***************************************************************************)
\* Two callers never have the same iterator, and nobody's iterator is freed
\* under it (alloc_iter, free_iterator).
OneOwner ==
    /\ \A t \in Threads : HasIter(t) => Iter(t) # NoIter
    /\ \A t, u \in Threads : HasIter(t) /\ it_id[t] = it_id[u] => t = u

\* An iterator's place is free again when its caller gives it up, after
\* kv_iteration_end or a kv_begin that failed, if the pool was not deleted.
PlaceComesBack ==
    [][\A t \in Threads :
          HasIter(t) /\ it_id'[t] = -1 => lost[t] \/ m_iter'[it_id[t]] = NoIter]_vars

\* An iteration moves forward: no LBA comes twice, or after a later one, until
\* the end is met or a device call fails (iterate).
Forward ==
    \A t \in Threads :
        pc[t] = "check" /\ phase[t] = "on" => \A s \in returned[t] : s < Here(t)

\* An iteration that meets the end was placed at every record of its pool that
\* was in the store all the time, whatever else was written, trimmed or
\* expired, and whatever pools share its hash (iter_over_pool).
Complete ==
    \A t \in Threads : phase[t] = "ended" => stable[t] \subseteq returned[t]

\* kv_get_current reads a record of the iterator's pool, if the LBA was not
\* written since the iterator was placed at it.
ReadsItsPool ==
    \A t \in Threads :
        /\ pc[t] = "read"
        /\ phase[t] = "on"
        /\ ~stale[t]
        /\ media[Here(t)] # NoRec
        => media[Here(t)].pool = Iter(t).pool_id

\* A call that returned has released every buffer that it took, and no other,
\* if the pool was not deleted (kv_get_current).
BuffersReturned ==
    \A t \in Threads : pc[t] = "idle" => buffers[t] = 0 \/ lost[t]
=============================================================================
