------------------------------- MODULE KVCached -------------------------------
(***************************************************************************)
(* KVOps in a store opened with a collision cache: NVM_KV_Cache            *)
(* (src/kv_cache.cpp), and the parts of kv_put and kv_delete_sync that use *)
(* it.  A put that finds its key there overwrites the record without       *)
(* reading it; reads do not use the cache.                                 *)
(*                                                                         *)
(* kv_cache_get keeps in a context what kv_cache_put needs after the write.*)
(* The lock of the cache is held within each of its operations only.  The  *)
(* first index of a key, which both loops look at twice, is probed once.   *)
(***************************************************************************)
EXTENDS KVHistory

CONSTANTS
    Indexes,     \* places in m_hash_table
    CacheProbe,  \* CacheProbe[k]: the indexes of k in probing order
    Deletable,   \* keys that callers delete
    NoEntry,     \* an empty place (key_len = 0)
    NoContext    \* the call has not asked the cache yet

VARIABLES
    cache,       \* m_hash_table
    ctx          \* ctx[t]: cache_context of the call of t

cvars == <<hvars, cache, ctx>>

-----------------------------------------------------------------------------
Entry == [key : Keys, lba : Slots, secs : Nat, expiry : Nat, ts : Nat]

ASSUME CachedAssumption ==
    /\ \A k \in Keys : CacheProbe[k] \in Seq(Indexes) /\ CacheProbe[k] # <<>>
    /\ Deletable \subseteq Keys
    /\ NoEntry \notin Entry

\* "none" is a context that was not asked for, or was wiped; "stored" marks a
\* put that has updated the cache.  expiry is abs_expiry.
Context ==
    [state : {"found", "evict"}, index : Indexes, entry : Entry, expiry : Nat]
    \cup
    [state : {"none", "empty", "stored"}, index : Indexes,
     entry : Entry \cup {NoEntry}, expiry : Nat]

ASSUME NoContextIsNone == NoContext \notin Context

\* Types of NVM_KV_Cache and of cache_context in kv_put: a context that names an
\* entry, to be updated or replaced, holds a copy of it.
CTypeOK ==
    /\ cache \in [Indexes -> Entry \cup {NoEntry}]
    /\ ctx \in [Threads -> Context \cup {NoContext}]
    /\ pc \in [Threads -> Pcs \cup {"cache_drop"}]
    /\ lba \in [Threads -> Slots] /\ trim_len \in [Threads -> Nat]

CInit ==
    /\ HInit
    /\ cache = [i \in Indexes |-> NoEntry]
    /\ ctx = [t \in Threads |-> NoContext]

-----------------------------------------------------------------------------
\* kv_cache_entry_compare
Holds(e, k) == e # NoEntry /\ e.key = k

Probed(k) == {CacheProbe[k][n] : n \in DOMAIN CacheProbe[k]}

\* Mutants: any entry will do; a hole is all that is looked for.
StopsAtAny(k) == DOMAIN CacheProbe[k]
StopsAtHole(k) == {n \in DOMAIN CacheProbe[k] : cache[CacheProbe[k][n]] = NoEntry}

\* The places at which a search for k ends: the key, or a hole.
Stops(k) ==
    {n \in DOMAIN CacheProbe[k] :
        LET e == cache[CacheProbe[k][n]] IN e = NoEntry \/ Holds(e, k)}

\* The oldest of the entries in the way of k, the first of them if several.
Oldest(k) ==
    LET ts(n) == cache[CacheProbe[k][n]].ts
        oldest == {n \in DOMAIN CacheProbe[k] : \A m \in DOMAIN CacheProbe[k] : ts(n) <= ts(m)}
    IN CacheProbe[k][Min(oldest)]

Place(k) == IF Stops(k) = {} THEN Oldest(k) ELSE CacheProbe[k][Min(Stops(k))]

Blank(k) == [state |-> "none", index |-> CacheProbe[k][1], entry |-> NoEntry, expiry |-> 0]

kv_cache_get(k) ==
    LET e == cache[Place(k)] IN
    [Blank(k) EXCEPT !.state = IF Stops(k) = {} THEN "evict"
                               ELSE IF e = NoEntry THEN "empty" ELSE "found",
                     !.index = Place(k), !.entry = e]

\* The place that the context names is used if it is as it was.
Usable(c, k) ==
    \/ c.state = "empty" /\ cache[c.index] = NoEntry
    \/ c.state = "evict" /\ Holds(cache[c.index], c.entry.key)

kv_cache_put(c, new) ==
    IF c.state = "found" /\ Holds(cache[c.index], new.key)
    THEN [cache EXCEPT ![c.index] = [@ EXCEPT !.secs = new.secs, !.ts = new.ts]]
    ELSE [cache EXCEPT ![IF Usable(c, new.key) THEN c.index ELSE Place(new.key)] = new]

\* Mutant: the entry stays.
delete_nothing(i) == cache

kv_cache_delete(i) == [cache EXCEPT ![i] = NoEntry]

-----------------------------------------------------------------------------
(***************************************************************************)
(* kv_put                                                                  *)
(***************************************************************************)
CacheGet(t) ==
    LET k == req[t].key
        c == kv_cache_get(k)
        old == c.entry
    IN
    /\ pc[t] = "gen_range" /\ ctx[t] = NoContext
    /\ ctx' = [ctx EXCEPT ![t] = c]
    /\ \/ /\ c.state # "found"
          /\ UNCHANGED <<pc, lba, trim_len, ret>>
       \/ /\ c.state = "found"
          /\ ~req[t].replace /\ ~Expired(old)
          /\ Done(t, "exists")
          /\ UNCHANGED <<lba, trim_len>>
       \/ /\ c.state = "found"
          /\ req[t].replace \/ Expired(old)
          /\ lba' = [lba EXCEPT ![t] = old.lba]
          /\ trim_len' = [trim_len EXCEPT ![t] =
               IF old.secs > Sectors[req[t].val] THEN old.secs ELSE 0]
          /\ Goto(t, "gen_insert")
          /\ UNCHANGED ret
    /\ UNCHANGED <<media, clock, expq, safe, req, itr, held, wait, iov_len, cache>>

\* The LBA of the entry is inserted; whoever had to wait starts over without it.
CacheInsert(t) ==
    /\ ctx[t] # NoContext /\ ctx[t].state = "found"
    /\ pc[t] = "gen_insert"
    /\ Contend(t) \/ Insert(t, "gen_insert", "put_write", "cache_drop")
    /\ UNCHANGED <<cache, ctx>>

CacheDrop(t) ==
    /\ pc[t] = "cache_drop"
    /\ safe' = safe \ {lba[t]}
    /\ held' = [held EXCEPT ![t] = FALSE]
    /\ ctx' = [ctx EXCEPT ![t] = Blank(req[t].key)]
    /\ lba' = [lba EXCEPT ![t] = Probe[req[t].key][1]]
    /\ trim_len' = [trim_len EXCEPT ![t] = 0]
    /\ Goto(t, "gen_range")
    /\ UNCHANGED <<media, clock, expq, req, itr, wait, iov_len, ret, cache>>

\* The media is written, under the LBA, ...
CachedWrite(t) ==
    /\ PutWrite(t)
    /\ ctx' = [ctx EXCEPT ![t].expiry = NewRecord(req[t]).expiry]
    /\ UNCHANGED cache

Stored(t) == req[t].op = "put" /\ ret[t] = "ok" => ctx[t].state = "stored"

\* ... and then the cache.
CachePut(t) ==
    /\ pc[t] = "finish" /\ ~Stored(t)
    /\ cache' = kv_cache_put(ctx[t],
         [key |-> req[t].key, lba |-> lba[t], secs |-> Sectors[req[t].val],
          expiry |-> ctx[t].expiry, ts |-> clock])
    /\ ctx' = [ctx EXCEPT ![t].state = "stored"]
    /\ UNCHANGED vars

(***************************************************************************)
(* kv_delete_sync: an entry is taken out of the cache first, and then the  *)
(* media is not read.  kv_cache_delete does not stop at a hole.            *)
(***************************************************************************)
CacheDelete(t) ==
    LET k == req[t].key
        found == {n \in DOMAIN CacheProbe[k] : Holds(cache[CacheProbe[k][n]], k)}
        i == CacheProbe[k][Min(found)]
    IN
    /\ pc[t] = "del_read" /\ ctx[t] = NoContext
    /\ ctx' = [ctx EXCEPT ![t] = Blank(k)]
    /\ \/ found = {} /\ UNCHANGED <<cache, pc, lba>>
       \/ /\ found # {}
          /\ cache' = kv_cache_delete(i)
          /\ lba' = [lba EXCEPT ![t] = cache[i].lba]
          /\ Goto(t, "del_insert")
    /\ UNCHANGED <<media, clock, expq, safe, req, itr, held, wait, trim_len, iov_len, ret>>

(***************************************************************************)
(* The rest is as without a cache.                                         *)
(***************************************************************************)
Uncached(t) ==
    /\ pc[t] \in {"gen_range", "del_read"} => ctx[t] # NoContext
    /\ pc[t] = "gen_insert" => ctx[t].state # "found"
    /\ \/ pc[t] \notin {"put_write", "finish"} /\ Step(t)
       \/ pc[t] = "put_write" /\ DeviceError(t)
    /\ UNCHANGED <<cache, ctx>>

CachedFinish(t) ==
    /\ Finish(t)
    /\ Stored(t)
    /\ ctx' = [ctx EXCEPT ![t] = NoContext]
    /\ UNCHANGED cache

\* Calls that are only made while no other is in progress: next to another put a
\* put that does not replace may replace, as without a cache.
Apart(r) == r.op \in Exclusive \/ (r.op = "put" /\ ~r.replace)

CCall(t) ==
    \E r \in Requests :
        /\ r.op = "delete" => r.key \in Deletable
        /\ Call(t, r)
        /\ \A u \in Threads : req[u] # NoRequest => ~Apart(r) /\ ~Apart(req[u])
        /\ UNCHANGED <<cache, ctx>>

CNext ==
    \/ \E t \in Threads :
        \/ CCall(t) /\ Observe
        \/ CacheGet(t) /\ Observe
        \/ CacheInsert(t) /\ Observe
        \/ CacheDrop(t) /\ Observe
        \/ CachedWrite(t) /\ Observe
        \/ CachePut(t) /\ Observe
        \/ CacheDelete(t) /\ Observe
        \/ Uncached(t) /\ Observe
        \/ CachedFinish(t) /\ Observe
    \/ Tick /\ Observe /\ UNCHANGED <<cache, ctx>>

CSpec == CInit /\ [][CNext]_cvars

-----------------------------------------------------------------------------
\* The collision cache "stores the key-lba mapping in memory" (kv_cache.h):
\* what it holds for a key, between calls, is where the key is.
MappingTrue ==
    (\A t \in Threads : req[t] = NoRequest) =>
        \A k \in Keys : kv_cache_get(k).state = "found" => Matches(kv_cache_get(k).entry.lba, k)

\* Of the entries that kv_cache_put leaves: each is where a search for its key
\* looks and leads to where the key may be, and a key that callers delete has one
\* entry only.  (Other keys may get two: two puts of a key that find different
\* entries in their way each replace the one they found.)
CachePlacement ==
    \A i \in Indexes : cache[i] # NoEntry =>
        /\ i \in Probed(cache[i].key)
        /\ cache[i].lba \in ProbeSlots(cache[i].key)
        /\ cache[i].key \in Deletable =>
             \A j \in Indexes \ {i} : ~Holds(cache[j], cache[i].key)
=============================================================================
