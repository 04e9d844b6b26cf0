# NVMKV in TLA+

Specifications of the NVMKV key-value store (`src/`, `util/`, `include/`, `docs/` are
directories of the repository), TLC configurations that check them on small instances,
and theorems that TLAPS proves for every instance.

## 1. The system

| component | state | operations | what makes it correct |
|---|---|---|---|
| store manager, `src/kv_store_mgr.cpp` | none of its own but the map of open stores and a buffer pool; works on the media through the device library | `kv_put`, `kv_get`, `kv_delete`, `kv_exists`, `kv_batch_put`, `kv_batch_get`, iteration, store and pool calls | the store is a map: a call takes effect at one instant; it never loses, duplicates or resurrects a record; it ends |
| safe LBA list, `util/kv_sync_list.cpp` | a set, one mutex, one condition variable | `insert_entry` (waits while present), `delete_entry` | exclusion per LBA, no lost wakeup, exact `wait` result |
| store, `src/kv_store.cpp` | metadata on the media, safe list, cache, threads | `initialize`, `delete_range`, `batch_delete_sync`, `delete_all` | what is on the media can be reopened |
| pool manager, `src/kv_pool_manager.cpp` | bitmaps in-use and deleted, tags, tag map, count; all but the tag map persisted | `create_pool`, `delete_pool`, `restore`, `clear_pool_bitmaps` | memory and media agree, tags are exact, an id is reused only once its keys are gone |
| pool deletion thread, `src/kv_pool_del_manager.cpp` | a snapshot of the pools in deletion | scan, trim, clear | a requested deletion completes, across restarts |
| expiry, `src/kv_async_expiry.cpp`, `src/kv_expiry_manager.cpp`, `src/kv_scanner.cpp` | queue of LBAs; scan position | `update_expiry_queue`, the threads that trim | only expired records are trimmed |
| cache, `src/kv_cache.cpp` | hash table of key to LBA, value length and expiry | put, get, delete by key, LBA or pool | an entry tells the truth about the media |
| iterators, `src/kv_iterator.cpp` | fixed slots, batches of ranges | alloc, next, current, free | slots come back; every stable key is seen once |
| buffer pool, `util/kv_buffer_pool.cpp` | stack of buffers | `get_buf`, `release_buf` | a buffer has one user; nobody waits for a free buffer |
| layout and hash, `src/kv_layout.cpp`, `util/kv_hash_func.cpp` | none | bits of an LBA, probe sequence | records do not overlap |

The components meet in four places: the media, which every operation and every background
thread reads and writes through `nvm_readv`, `nvm_writev` and trims; the safe LBA list, taken
by puts, deletes and batch deletes; the mutex of the pool bitmaps, taken by pool calls
and the deletion thread; and `glb_mtx`, which keeps a pass of the expiry manager and a pool deletion apart.

What is hard here: calls run concurrently and the tests are nearly all sequential; the lock
is taken after the read that decided to take it, so what was read may be stale; the hash
table has open addressing without tombstones; creation, deletion and reuse of pools cross
with puts, with a thread that works for long on a snapshot, with failed writes and with
crashes; what is expired is decided long before it is trimmed; threads are cancelled while they
hold locks. `PROJECT.json` lists each hazard at its line, with the properties that cover it or
the reason why none does.

## 2. The modules

| module | models | composes or extends |
|---|---|---|
| `LbaLocks` | the safe list as its callers see it: a set, atomic insertion and deletion | |
| `SyncList` | `NVM_KV_Sync_List`, down to the mutex and the condition variable | refines `LbaLocks` |
| `SyncListProofs` | theorems about `SyncList` | |
| `KVMap` | what `nvm_kv.h` promises of put, get, exists and delete: a linearizable map | |
| `KVOps` | the four calls, one step per access to shared state | insertion and deletion as in `LbaLocks` |
| `KVHistory` | `KVOps` with an observer: what each call may have seen, how many calls were made | refines `KVMap` |
| `MCKVOps` | the small stores TLC uses | |
| `KVCached` | `NVM_KV_Cache` and the calls of a store that has one | composes the cache with `KVHistory`, refines `KVMap` |
| `MCKVCached` | the small caches TLC uses | |
| `KVBatch` | `kv_batch_put` | composes with the calls of `KVHistory` |
| `MCKVBatch` | the small stores TLC uses for batches | |
| `KVOpsProofs` | theorems about `KVOps`, `KVHistory`, `KVCached` and `KVBatch`, and lemmas about the steps of `KVOps` for `ExpiryProofs` | |
| `Pools` | pool manager, deletion thread, store creation, restart | |
| `PoolsProofs` | theorems about `Pools` | |
| `Iterators` | `NVM_KV_Iterator` and the four calls that iterate | |
| `IteratorsProofs` | theorems about `Iterators` | |
| `MCIterators` | the small store TLC uses for iterators | |
| `BufferPool` | `NVM_KV_Buffer_Pool`, with the memory behind its buffers | |
| `MCBufferPool` | names for its threads | |
| `BufferPoolProofs` | theorems about `BufferPool` | |
| `Expiry` | the threads that trim expired records: `NVM_KV_Async_Expiry`, `NVM_KV_Expiry_Manager`, `batch_delete_sync` | composes with the calls, the queue and the safe list of `KVOps` |
| `ExpiryProofs` | theorems about `Expiry` | extends `KVOpsProofs` |
| `MCExpiry` | the small store TLC uses for expiry | |
| `Scanners` | `NVM_KV_Scanner`: how the threads of a store start, wait, are woken, exclude each other and end | the other side of `Expiry` and of the deletion thread of `Pools` |
| `ScannersProofs` | theorems about `Scanners` | |
| `MCScanners` | its batches | |
| `Layout` | `NVM_KV_Layout` and `NVM_KV_Hash_Func`: the sectors of a store | the sectors behind the slots of `KVOps` |
| `LayoutProofs` | theorems about `Layout` | |
| `MCLayout` | names for its keys | |

**SyncList.** `m_list`, `m_mtx` are the code's; `sleeping` is the set of threads in
`pthread_cond_wait`. A thread goes through `insert_entry` and `delete_entry` at the
granularity of lock, find, erase or insert, and unlock. Only a caller that inserted an entry
deletes it, which is how the store uses the list (but for two defects, section 5).
`MaxHeld` bounds the entries a caller holds. A call of `LbaLocks` takes effect where `m_list` changes.

**KVOps.** `media` maps a slot (the run of sectors one record can occupy) to a record;
`Probe[k]` is the probe sequence of key `k` (`key_hash`, then `resolve_coll`), the same
slots for every call. `pc` is where a call is: `gen_*` in `kv_gen_lba`, `read_media` in
`kv_read_media` or `kv_range_exist_wrapper`, `del_*` in `kv_delete_sync`, `finish` at the
clean-up label. `itr`, `lba`, `held`, `wait` and `trim_len` are `hash_itr`, `key_hash_val`
(or `key_hash`), `insert_lba`, the result of the insertion and the excess of the old value.
An exact `kv_get` (the flag `read_exact`, which `kv_batch_get`, a loop of such gets, always sets) asks at each probe how much is mapped there
(`GetRange`, a device operation of its own) and cuts what it will read of the value to that: `iov_len`, 0 standing for `num_iovs = 1`.
Neither is set back at the next probe. What a range-exists finds is the extent of the record, or that of any longer value that it may have replaced (`Extents`).
The caller's buffer (`ValueLen`) is long enough for any value, and an answer that is less than the whole value is `Torn` (`Content`). `Failing` is the set of
steps whose device operation may fail.
A device operation is one step and may fail; an atomic write is one step. `kv_exists` tests the
range and then reads: one step, as a read of a slot without a range matches no key. A value is
told from another by what it is, how many sectors it takes and whether it shares the sector of
its header. With `kv_exists` a failed read goes unnoticed and the old content of the buffer is
compared (`BlindRead`). `Tick` is the clock.

**KVHistory.** `Lookup(k)` is what a `kv_get` of `k` in one step would find, the abstract
value of `k`. `seen[t]` collects the values of `Lookup` while a call of `t` is pending, so that
an answer can be justified by an earlier instant. `Exclusive` names operations the callers do not
overlap with others.

**KVCached.** `cache` is `m_hash_table`, `CacheProbe[k]` the places a key is looked for in it; `ctx` is
the `cache_context` that `kv_put` fills when it asks the cache and uses when it updates it, after
the write. Each cache operation holds the lock of the cache throughout and is one step. The steps of `KVOps`
are reused: a put that finds its key in the cache goes to the insertion of the LBA at once, and from there to
the write (`CacheInsert`), unless it had to wait, when it drops what it found and starts over
(`CacheDrop`); a put ends with `CachePut`; a delete begins with `CacheDelete`. Reads do not use the cache.

**KVBatch.** `iovs` is the vector of puts a batch was given, `placed` those that have an LBA so far, with the record and the
trim that their I/O vectors carry: `lba_list` and `iovec_wrt`, `iovec_trm`. `BatchNext` makes one of them the request of the thread and passes
over the slots of the earlier ones; from there the steps of `KVOps` find an LBA as for a put, with one `held` for the whole batch, up to
the point where a put would write (`BatchPlace`). `BatchWrite` and `BatchRewrite` are the one or two operations of the device;
`BatchRelease` deletes the LBAs one by one. `before` remembers what the store held, for the properties.

**Pools.** `in_use`, `deleted`, `tags`, `tags_map`, `total` are in memory, `disk` holds what is
persisted. `create_pool` and the second half of `delete_pool` hold the bitmap mutex through
the write and are one step each; `delete_pool`'s check is a step before. A put validates its
pool (`PutCheck`) and writes later (`PutWrite`): the key is marked late if the pool was deleted
or reused meanwhile. `epoch` numbers creations to tell pools that had the same id apart. The
deletion thread takes a snapshot, and for each pool of it, or for all at once, scans, trims
and clears. The range iterator answers a scan in one batch, so that what the thread trims is what
one scan found. `bitmap_ffs` keeps the stale bit index of the code. Creating a store writes twice
(`OpenNew`, `OpenFormat`); `OpenRestore` is `restore`. Failures are named, one for each
write that may fail, so that each property says which of them it survives.

**Iterators.** `m_iter` is the code's array of places for regular iterators; an iterator holds the batch of ranges it fetched
last (`ranges`, `num_ranges_found`), its position in it, and `start`, where the next batch begins (`range_to_iterate`, which the device
library advances). `Begin` takes a place and initializes the iterator; then the thread is at `iterate` (the loop of `iter_over_pool`), at
`check` (what `iterate` found is compared with the pool), at `get_loc` or `read` (the loop of `kv_get_current`), or at `free` (the exit of a
`kv_begin` that failed). Each is one access to the media or to the state of the pool. Ranges of records are seen as LBAs, in their order;
which pass the filter (`Ahead`) is how the store uses the device library. `acquired` is `buf_acquired`, and `buffers` counts what a call took and
released. `Put`, `Trim`, `Expire`, `DeletePool` and `CreatePool` are the rest of the store, free to act at any time. An observer notes which
records were there all the time (`stable`), at which the iterator was placed (`returned`), and whether the end was met, the pool was deleted, or the
record under the iterator was written since.

**BufferPool.** `m_buffers` is the stack with the sizes that `m_buffer_sizes` keeps beside it, `heap` the memory that is allocated. The mutex is held
throughout but for the wait, so that each stretch is a step; `sleeping` is the set of threads in `pthread_cond_wait`. A larger buffer
may be allocated at any free address, the one just freed by another thread included.

**Expiry.** The variables of `KVOps` and, for each thread that trims, `wpc`, its `batch` (an `nvm_iovec_block_t`, or `m_iovec`
as far as it is filled) and `ix`, the vector at hand. `InsertLba`, `TrimBatch` and `DeleteLba` are the three loops of
`batch_delete_sync`, an LBA or an operation of the device at a time. `expq` of `KVOps` is the queue; a block of it is a run of
`MaxIovs` LBAs, and `PopBlock` takes the first when it is full. The manager's `iter` is its iterator, with what `reset_iterator` does not reset;
`code` is `ret_code`, which decides what becomes of the rest of a batch. With a global expiry no header is read: the record's expiry then stands for its
time of writing plus the global expiry, by which the device filters. The store may hold records of an
earlier session (`Found`). `rewritten` observes which LBAs were written, or taken from a read that failed (`BlindRead`), after somebody decided to trim
them. The pool deletion thread is there as far as the manager sees it.

**Scanners.** `phase` is what `kv_open` or `kv_close` has come to, `pc` where each thread is, `glb` the owner of `glb_mtx`, `broken` whether the
mutex of the safe list was left locked. What the threads do to records is left out: a pass is any number of batches (`PassBatch`, `LastBatch`),
`expire_keys` may say anything. `sleep` is `pthread_cond_wait` on the condition variable of a scanner; as it is entered under the mutex
under which the queue or the bitmap is changed, looking and falling asleep are one step (`Sleep`). Cancellation is deferred: a cancelled thread
ends at `pthread_testcancel`, in the waits on condition variables, that of `insert_entry` included, and where it calls a function of the C library that is, or may be,
a cancellation point: `preadv`, by which the manager and the deletion thread read headers in the middle of a pass, with `glb_mtx` held (`EndCancelled`, at `pass` and `work`), and the `fprintf` that reports
a failed trim, with the LBAs of the batch still in the list (`EndTrimming`). The cleanup handlers unlock what they were given, held or not (`UnlockGlb`).
An `fprintf` under the mutex of the pool bitmaps is not taken for a cancellation point. The mutexes of the scanners themselves are held for
single steps only, and that a handler unlocks one that is not held is not modelled. `CancelThread` wakes all threads of a kind and cancels them one
by one, each after the one before is joined. A call holds one LBA at a time, and none when the store is closed.

**Layout.** `media` maps each sector to what it holds: nothing, metadata, or a part of a record. `hash` is what the loops of FNV-1a yield, any function
into `HashValues`; what the code makes of it (the redistribution, the fold to `m_keyBits`, the shift, the probes and the hash of the pool) is computed as the
code does, in bits. `Put` writes where `kv_gen_lba` finds the key or a free value range; `Delete` trims as `delete_range` does.
Calls run one after the other here, a record never shrinks (see `Written` in `KVOps` for one that does), and all pool tags are written when the store is created.
`Alone` says that the media holds records of one pool only: unless `SharedDeletes`, that is when callers delete or replace a value by a longer one.

## 3. The runs

| run | instance | what it shows |
|---|---|---|
| `SyncList` | 3 threads, 2 entries, spurious wakeups | exclusion, no lost wakeup, every sleeper wakes, refinement of `LbaLocks` |
| `KVLocks` | 3 threads, 1 call each, that put and delete 2 colliding keys which expire; reads and writes of puts fail | the safe list is exact, writes are made under their LBA, every call ends |
| `KVMap_conc` | 2 threads, 3 calls each, 1 key with 2 slots, 2 values of 1 size, exact and other gets, deletes alone; what fails is neither a write nor the read of a get or exists | the key is stored once; linearizability |
| `KVMap_seq` | 1 thread, 6 calls, 2 colliding keys, 2 values of 1 size, exact and other gets, device errors | put and get are those of a map through collisions, full probe sequences and failures |
| `KVCache` | 2 threads, 2 calls each, 3 keys with windows of 2 places in a cache of 3, clock, device errors | an entry leads to its key, entries are found where they are put, linearizability |
| `KVBatch` | 1 thread, 3 calls, puts, exists, deletes and batches of up to 2 puts, 2 keys with 3 slots of which they share the first and the last, 2 sizes, expiry, device errors | records are only where their keys look; what an answered batch leaves in the store |
| `Pools` | 3 pools with ids 0 to 2, 2 creations, 1 tag, 2 callers, 1 crash or failure | counts, tags, durability, freed pools hold no keys, deletions complete |
| `Iterators` | 2 threads and 1 place, batches of 2, 3 LBAs, 3 pools of which 2 share a hash, 1 put, 1 deletion of a pool, trims, expiry, device errors | places and buffers come back; an iteration moves forward, misses no record that stays, and reads its pool's records |
| `BufferPool` | 4 threads, 2 buffers, 3 addresses, 2 sizes, failing allocations, spurious wakeups | a buffer has one user, no memory is lost, a lone waiter wakes |
| `Expiry` | 1 caller that puts and tests 2 keys with a slot each, 1 asynchronous thread, the manager, batches of 2, both kinds of expiry, records of an earlier session, failing operations, pool deletions | batches fit, an LBA is with one of them, only what expired is trimmed, but for LBAs written meanwhile |
| `Scanners` | the manager, 1 asynchronous thread, the deletion thread, batches of 2 LBAs in ascending order, 2 full blocks, 1 pool, the store opened twice, cancellation in the middle of a pass and after a failed trim | `glb_mtx` is with its user, no wakeup is missed, batches and deletions get what they wait for, the store closes |
| `Layout` | a device of 64 sectors, value ranges of 4, 2 keys in each of 2 pools, all their hashes among 4 values | records are found and kept whole, metadata is never touched |

Bounds. Two keys that share their first slot and have a second of their own give every
relation between two probe sequences that matters: the same slot, a free slot before a taken
one, and an end of the sequence; `M_MAX_COLLISION` is 8 in the code and 2 here, since
the loop treats all probes but the last alike. Three threads are needed where one holds an LBA,
one waits for it and one comes in between. Each of the violations needs at most four calls of
a thread. Three pools are the default pool and two that make the difference between deleting one
and deleting all; two creations reuse an id. `WordBits` is 32: the words of the bitmap are never
full, which keeps the defect of `bitmap_ffs` (a full word is skipped) out of `DeletionCompletes`.
The run has one fault, a crash or a failed write. The invariants, and the inductive invariant behind
them, were also checked with two faults on this instance and with three on one of four pools and one
caller; that is how the failures each property lists were found. `MaxClock`, `MaxQueue`,
`MaxOps`, `MaxCreates` and `MaxFaults` cap counters.

Deadlock is not checked in the `KV*` runs, as callers stop after `MaxOps` calls, and in `Pools`,
as a failed write can leave the bitmap mutex locked, and a store that refuses to open stays closed.
It is checked in `SyncList`, where the callers never stop. In `Expiry` and `Layout` the callers stop when the bounds are reached, and in `Scanners` when the store was closed for the
last time; that nobody waits for ever is there what the liveness properties say.

In `KVCache` two keys share both places of their window, so that the third put of the three keys evicts the older of two
entries; the third key's window is one place further, as `sequential_probe` makes them. Each key has its own slot on the media,
since what happens when they collide there is the matter of the other runs. The run uses symmetry of the threads. With
three calls each it was checked as well (1.1 million states).

`KVBatch` has three probes, since kv_gen_lba gives up when it passed over all slots but the last, and three I/O vectors: a batch of two writes with
no, one or two trims is sent at once, twice, or in two parts. It has one thread: batches that overlap do not keep to the safe list (section 5), so that
nothing worth stating holds of two.

In `Iterators` the threads contend for the one place (the code has more; `alloc_iter` takes the first that is free, whichever there are). Three
records are one more than a batch, so that an iteration meets a batch that is full, one that is not, and the end. A pool with hash 0 is iterated without a filter
and shares its hash with another, so that both ways of skipping are taken. With two puts and two deletions no violation was found in 7 million
states. Deadlock is not checked, since a thread that iterates over a deleted pool stops.

In `BufferPool` four threads with one buffer each can make two wait for two buffers. Calls that take several buffers (`kv_batch_put`) can wait for each other
when the pool is exhausted; they are left out (`MaxHeld` is 1).

In `Expiry` a batch is all LBAs there are, so that batches of the queue and of the manager overlap in every way, and an LBA may be twice in one batch of the manager. A record
expires at 1 and the clock goes to 2, so that records of the earlier session are expired and those of this one may be rewritten before they are trimmed. `MaxQueue` is
one block. In `Scanners` one asynchronous thread is enough for every pair of threads that exclude each other; `MaxBlocks` and `MaxOpens` of 2 let work be left over from one
round, and pools in deletion from one opening, to the next. All batches are the two LBAs in ascending order: with batches in opposite orders `BatchesEnd` does not
hold (section 5). The hash values of `Layout` fold to 5, 6, 15 and 0 (4 bits): two neighbouring ranges, the last one of the device, and the one of the store's metadata; what
`sequential_probe` makes of them lies in the lowest 16 sectors, among the metadata and the two ranges behind it.
The pools' hashes are 0 and 1, so that the value ranges of the two pools overlap by all but a sector.

Fairness. `BufferPool`: a thread in `get_buf` that is awake proceeds, and a caller releases what it holds, as each operation of the store does at its end; nobody
has to call, and no wakeup is assumed. `Scanners`: each thread runs, and is not overtaken for ever where it waits for an LBA or for `glb_mtx` (strong fairness), as an LBA is
held for one operation of the device and its deletion wakes all who wait; a pass ends, as the device does; an opening or closing once begun goes on. Nobody has to
open, close or call. `SyncList`: a thread in a call takes steps, a mutex held for a few instructions is
not withheld for ever (strong fairness of taking it), and a caller releases what it holds; which
waiter gets an entry is left open. `KVHistory`: a thread in a call is scheduled. `Pools`: the deletion
thread runs and a store that went down is opened again; no caller is assumed to do anything.

Properties that exclude something say so: in `KVLocks` a thread makes one call (a delete that waited and finds its key elsewhere, section 5, takes
more than that), `KVMap_conc` overlaps no delete with another call and has one
key, `KVMap_seq` has no deletes; beyond that the code is not a map, as the violations show. In `KVMap_conc` writes do not fail: when the holder of a slot fails to write,
a put that waited for it takes the slot for a collision and stores its key in the next one, while another put stores it in the first, so that `UniqueKey` does not hold. Nor do the reads of gets and tests fail
there, because of `BlindRead`. In both runs of `ImplementsMap` the values take one number of sectors, outside the header's: replacing by a shorter value, and an exact get behind one, break the map (section 5). `KVCache` deletes only the third key,
behind which no other is ever placed: a delete that leaves a hole in front of another key's entry breaks `MappingTrue` (section 5). It
does not overlap deletes, nor puts that do not replace, with other calls. `CachePlacement`
promises one entry for that key only, as two puts of a key that evict different entries store it twice. `WaiterWakes` is for behaviours in which no two threads
wait at a time, and `PlaceComesBack` and `BuffersReturned` except an iterator whose pool was deleted (section 5). `Forward`, `Complete` and `ReadsItsPool` are about an iteration until
it meets the end or an error. In `Pools`
each property lists the failed writes it does not survive: `CrashSafe` not those of `delete_pool`
and `clear_pool_bitmaps`, which leave memory and media different, and not the bit of pool 0 if its creation was interrupted and a write of
`create_pool` failed, as that call takes back the bit of any other pool only; `FreedPoolsEmpty` not that of `delete_pool`, which takes back marks
the thread is working on; `TagsExact` not that of `create_pool`, which
keeps the tag in the map, nor those of `delete_pool` and of `clear_pool_bitmaps` for one pool, after which a deleted
pool can come back with its old tag; `CountExact` not an
interrupted creation of the store. In `Expiry` `ExpiredOnly` excepts LBAs that were written after somebody decided to trim them. In `Scanners` the
three liveness properties except a store in which a thread was cancelled while it waited for an LBA. In `Layout` keys are deleted, and replaced by longer values, only while no
other pool has keys.

## 4. The proofs

`SyncListProofs`, for any sets of threads and entries: `TypeCorrect`, `ExclusionHolds`,
`NoLostWakeupHolds`, `FindStaysTrueHolds`, and `Implementation`, that `SyncList` implements
`LbaLocks`. Exclusion is not inductive alone: the invariant says besides that the owner of the
mutex is exactly the thread at a location inside the critical sections (so `find` and the change
that follows see the same list), and that a thread in `delete_entry` holds its entry until it is erased.
From it each step of the list is a step of the abstract list or a stutter.

`KVOpsProofs`, for any threads, keys, values, slots and probe sequences; what a theorem assumes besides, of the callers, of expiry or of device errors, is said with it:

- `TypeCorrect` and `PlacementHolds`, for any callers, expiry and device errors. The invariant adds `Located`: where a thread is determines
  which operation its request is. `Placement` needs it because `PutWrite` stores under the key of the
  request, and its own second half, that `lba` is a slot of the request's key, is what makes the first
  inductive.
- `SafeListExactHolds` and `WriteLockedHolds`, assuming that the callers do not delete, with any expiry and device errors. The
  invariant adds `HoldsWhere`, at which places of a call `held` is true. The assumption is needed:
  `kv_delete_sync` changes its LBA while it holds it. `LockEffect` says what any step does to the list and to the thread that takes it, which is
  all that the exactness of the list needs of the calls, here and in `Expiry`.
- `UniqueKeyHolds`, for calls that follow each other and no deletes, with any expiry and device errors: the callers of `KVMap_seq`, with any number of keys, slots and
  probes. (`KVMap_conc` checks it for two.) A key would be stored twice if a slot in front of its record were free, so the invariant adds `Reached`: every slot of a
  key before the one that has it is taken. For a put that means (`Putting`) that the slots it passed are taken by other keys, and that the slot
  it is about to write is free or has its key. Both assumptions are needed: a delete frees slots in front of other keys
  (`KVOps_resurrect.cfg`), and a put that was overtaken may write over another key's record (`KVOps_overwrite.cfg`).

The invariants of `KVOps` are stated for any set of places (`Typed`, `IInvAt`), as a store with a cache and one that takes batches have more of them.

- `ImplementsMapInSequence` and `ImplementsMapOverlapping`, the refinement of `KVMap`, in one module with the observer of `KVHistory`. `Simulation` shows once that every step of the store
  is one of the map or a stutter, from what `Faithful` says of the calls: the observer has seen the present value of the key of each call without an answer (`Answers`, `Watching`), nothing is left of longer values (`Intact`), what is about
  to be written is where a search would find it first (`PutsFind`), what is about to be read or was passed over is what the key has, or had (`ReadsFind`), and a delete trims the only
  copy (`TrimsFind`). The two theorems show that `Faithful` follows from an invariant of the calls: for calls that follow each other that of `UniqueKeyHolds`, with any probe sequences, so that a
  key is found behind any number of slots of other keys; for calls that overlap `ConcInv`, in which every record is at the first slot of its key (`AtFirst`) and who waits for an LBA
  finds it written when it comes (`At`). What they assume:
  - `ImplementsMapInSequence`: the callers of `KVMap_seq`, one call at a time, puts with and without replace, gets and tests; no deletes, no expiry, values of one length
    (`SameLengths`), and no failing reads where kv_exists is used. Every other device operation may fail.
  - `ImplementsMapOverlapping`: those of `KVMap_conc`, any number of calls at a time, of any number of keys no two of which have the same first slot, deletes without company, writes that do not fail (`KeysApart`),
    puts that replace, no expiry, no failing reads where kv_exists is used (`FirstApart`), and values of one length.

  `SameLengths` is needed because a shorter value that replaces a longer one loses its last vector and, where gets are exact, because a get behind a shorter value loses some of its own (both in section 5):
  with it the `iov_len` of a get is never less than its value (`Intact`). A failing read of kv_exists is not seen by it (`BlindRead`).
- `UniqueKeyOverlapping`, from the part `ApartInv` of `ConcInv` that says nothing of answers: two puts of a key that both find its slot free store it once, as the second waits for the first, reads, and finds the key.
  It assumes `KeysApart` alone, so that puts may replace or not, values may have any lengths and expire, and reads and trims may fail. A failing write is excluded for cause: the put that waited
  for it takes the slot for a collision and stores its key in the next one, while another put finds the first free and stores it there (the second half of the hazard at `kv_store_mgr.cpp:2413`).
- `CachePlacementHolds`. That an entry is in the window of its key and leads to one of its slots needs that the context of a put is of that put, and names a place of its key (`EntriesPlaced`, `Contexts`). That a key which
  is deleted has a single entry is the rest (`SingleEntry`): a put of it that was told of a free place was told of the one a search ends at, and that stays so until it uses it, whatever the other
  puts place meanwhile. `KeepsPlace` is what this takes: each such key has a place in its window that is in no other key's, no two such keys share one, and a delete has no company. Without it the
  window may be full of other keys, and two puts evict one each.
- `MappingTrueHolds`, with `KeepsPlace` and for keys which share no slots (`SlotsDisjoint`), as in `KVCache`. `Leads` adds that the slot an entry leads to is mapped and stays so, also where a
  write fails or is cut short, since only a delete unmaps and it removed the entry before. That keys share no slots is needed because of the put of another key that takes the slot between the test and
  the insertion (`KVOps_overwrite.cfg`).
- `BatchPlacementHolds`, for batches and calls that overlap in any way. `Batching` says which put of the batch each entry of the vectors is for, and that the request at hand is the next one.
- `BatchIsStoredHolds` and `BatchAllOrNothingHolds`, for calls and batches that follow each other, as in `KVBatch`, with any number of keys, slots, probes, sizes and vectors, with deletes, expiry and
  device errors. The core of the invariant `SoloInv` is `Given`: each key of the batch was given a slot that is free and locked, or that has the key, no key was given the slot of another, and every
  slot the search passed over has another key, or will have when the batch is written (`Blocked`). So what is written is found first (`KeysWritten`) and the other keys are found as before
  (`OtherKeys`), and trims and a first round of writes change neither (`StaysGiven`). `Searching` is the same for the key at hand. `SecondRun` counts the vectors: a batch that meets the second condition
  of `BatchAllOrNothing` is sent in one operation. A caller that waits for an LBA waits for itself here, and for ever (`WaitsForEver`).

`PoolsProofs`, for any number of pools, callers, tags, creations, crashes and failed writes: `TypeCorrect`, and
`CountExactHolds`, `TagsExactHolds`, `CrashSafeHolds`, `CanRestoreHolds` and `FreedPoolsEmptyHolds`, all from one
inductive invariant, `Inv`. The properties speak of a store that is up, so `Inv` adds what the device must hold for
them to be true again after a crash (`DiskCount`, `DiskTags`, `Blank`), that nothing is in memory meanwhile (`Quiet`),
and how far memory and device agree, given the failures so far (`Durable`). It adds what the steps of others
leave true for the deletion thread and for callers of `delete_pool` (`InDeletion`, `TagErased`, `Trimmed`): the pools
of the snapshot stay in deletion, so that a put to one of them is late, and their ids are not reused; a call that lost
the race for its pool finds no tag to erase, which it would otherwise take from the next pool with that tag.
`Untouched` collects the steps that leave memory and device alone.

`BufferPoolProofs`, for any threads, sizes, addresses and number of buffers: `TypeCorrect`, `OneUserHolds` and `MemoryExactHolds`. The three properties
together are inductive: that a buffer replaced by a larger one has no other user follows from `OneUser`, and that the larger one is not known yet from `MemoryExact`.

`ScannersProofs`, for any asynchronous threads, LBAs, batches and pools, however often the store is opened and closed:
`GlbExactHolds` and `NoMissedWakeupHolds`. The invariant adds `Order`, which threads exist and which may be cancelled at each point of opening and
closing. `GlbExact` needs it because the handler of the deletion thread unlocks `glb_mtx` even if it does not have it: that takes the mutex from nobody because the
thread is cancelled only when the manager is gone. `Awake` says of each asynchronous thread what `NoMissedWakeup` says of one of them.
`ThreadStep` is the step of one thread that leaves the store and the requests alone; most of the steps are instances of it.

`IteratorsProofs`, for any threads, places, batches, LBAs, pools and hashes, and for everything the rest of the store may do at any time: `TypeCorrect`,
`OneOwnerHolds`, `ForwardHolds`, `CompleteHolds`, `ReadsItsPoolHolds`, `BuffersReturnedHolds` and the action property `PlaceComesBackHolds`. They come from one
invariant of a thread and its iterator, `ThreadInv`, and from `HashesMatch`, that records are where their pool hashes to. `Owns` and `Holding` say which place and which
buffers a call has at each of its points, also where `buf_acquired` no longer tells. `OnTheWay` is about the batch: it is sorted and ends before the position from
which the next one is fetched, what the iterator was at lies behind it, and each record that was there all the time is behind it or yet to come (`ToCome`). That a fetched
batch is the first of what is ahead, in order and without gaps, is a fact about `Rank` and finite sets (`FirstOnes`, `NthInOrder`): `RankOnto` gets it from the
library's theorem that an injection between sets of one size is onto, as induction is out of reach.

`ExpiryProofs`, for any callers, asynchronous threads, LBAs, batches, scans and both kinds of expiry:

- `ETypeCorrect` and `ExpiredOnlyHolds`, whatever operations the callers use. `Positions` is what the arrays and indices are good for: no batch outgrows its
  array, and the entry a thread comes to is in it. `ClaimsExpired` carries the expiry from the decision to the trim: whatever is queued, collected or about to be queued is expired or was
  written since. A record once expired stays so, as time only grows.
- `LbasExactHolds`, assuming that the callers do not delete, as for the calls alone. A thread may find an LBA twice in its batch, so the list is
  exact entry by entry (`HeldExactly`, `Distinct`) and not only LBA by LBA. `LockEffect` is what the proof uses of the calls, and `Keeps`, `Takes` and `Gives` are the three ways in which
  a step of anybody leaves the list exact.

`LayoutProofs`, for any device, hashes, keys and pools: `MetadataKeptHolds` and `KeptHolds`. The invariant adds `RangesClear`: from the begin of a record on, a whole
value range has no metadata. A put saw it free, and a delete, which trims that much and not what the record has, stays in it. That `key_hash`, the hash of the pool and
the probes yield LBAs of the device is an assumption (`AddressAssumption`), which TLC evaluates: powers of 2 are beyond the provers.
For `Kept` the invariant adds that every sector with data belongs to a whole record at a location of its pool (`Whole`), and that the record of a key that was put is at the
first of its probes that has the key (`StoredFirst`); a copy at a later probe, left behind by a put that met a slot freed in front of it, is not reached. Records of one pool do not overlap because its locations are a value range apart
(`LocationsApart`, from `AlignmentAssumption`: a value range is a power of two that divides the number of hashes). The theorem assumes `~SharedDeletes`, that is, callers which
delete, or replace by longer values, only while no other pool has keys; without it `Layout_shared.cfg` is the counterexample.

Assumptions are those on the constants: slots exist, probe sequences are functions into
the slots, value sizes are natural numbers, there is at least one asynchronous thread, callers are not threads that trim, the device is finite and the metadata fits on it, pools share a hash only where there are more pools than hashes, and the markers
(`NoRec`, `NoResult`, `NoContext` and the like) are none of the values they mark. Theorems that restrict the callers name what they assume in their ASSUME; the run of the same property satisfies it.

Left to TLC: liveness (`SleepersWake`, `CallsEnd`, `DeletionCompletes`, `WaiterWakes`), which needs fairness and
ENABLED; `BatchesEnd`, `DeletionRuns` and `CloseEnds`, for the same reason; and `ImplementsMap` of the store with a cache (`KVCache`), of which the theorems for the store without one cover the steps that the two share.
`FindStaysTrue`, `CanRestore` and the type invariants of the modules with proofs, but for that of `Expiry`, are proved and no longer in a run.

## 5. Where the code does not do what it says

These configurations find the violation:

- `KVOps_resurrect.cfg` (`MCKVOps`, `DeletedIsGone`): a put stops at the first free slot and may store its key a second time; a
  delete then brings the older value back (`kv_gen_lba`).
- `KVMap_exact.cfg` (`MCKVOps`, `ImplementsMap`): a get with `read_exact` behind a colliding record that is shorter answers success with less than its value (`kv_read_media`).
- `KVOps_overwrite.cfg` (`MCKVOps`, `NoOverwrite`): the slot is tested, then locked, and not tested again: two puts may write it
  one after the other.
- `Expiry_kept.cfg` (`MCExpiry`, `LiveKept`): a record that was put since its LBA was queued or collected is trimmed, as `batch_delete_sync` does not read again.
- `Expiry_wait.cfg` (`MCExpiry`, deadlock): `reset_iterator` leaves the ranges of the pass before in the iterator; the manager collects an LBA twice and waits for
  itself, with `glb_mtx`.
- `Scanners_order.cfg` (`MCScanners`, `BatchesEnd`): two batches with two LBAs in opposite order wait for each other.
- `Scanners_close.cfg` (`MCScanners`, `CloseAlwaysEnds`): a thread cancelled in `insert_entry` leaves the mutex of the safe list locked, and `kv_close` does not return.
- `Scanners_setup.cfg` (`MCScanners`, `SetUpFirst`): the deletion thread of a store that is opened with pools in deletion works before its iterator and its bitmap exist.
- `Layout_carved.cfg` (`MCLayout`, `Carved`): keys are stored below the start of the user data, where scans, iterators and `kv_delete_all` do not look.
- `Layout_shared.cfg` (`MCLayout`, `Kept`): a delete trims a whole value range, and the record of another pool that lies in it.

A comment only: when a pool deletion cuts a pass of the expiry manager short, what it collected is trimmed or dropped, and not kept for the end (`EndPass` of `Expiry`).

For these no configuration is kept; the instances given show them:

- A batch may wait for an LBA that it has inserted itself: `CallsEnd` under `FairBSpec` of `KVBatch`, with the constants of `KVBatch.cfg` but only puts, with replace and
  without expiry or errors, and `MaxOps = 2`.
- When only the default pool holds keys, deleting all pools never completes: `DeletionAlwaysCompletes` with the constants of `Pools.cfg` and `MaxFaults = 0`.
- A second release while two threads sleep wakes nobody: the conclusion of `WaiterWakes` alone, in `BufferPool`.
- A `kv_get_current` whose pool is deleted between two rounds of its loop releases a buffer twice: `BuffersReturned` without `lost[t]`, in `Iterators`.
- An iterator whose pool is in deletion cannot be freed, and after a failed `kv_begin` nobody knows its id: `PlaceComesBack` without `lost[t]`, in `Iterators`.
- After the end `kv_next` goes over the last batch again: `Forward`, and the `returned` of `Stand`, without `phase[t] = "on"`, in `Iterators`.
- A batch that exceeds the number of vectors keeps the buffer of the key it stopped at; `BufferPool` assumes callers that release what they took.

- A delete that waited may look elsewhere and forget the LBA it inserted: `CallsEnd` under `FairHSpec`, two threads that put and delete one key
  with two slots, four calls each.
- Replacing a value by one of fewer sectors drops the last write vector: `ImplementsMap` in `KVMap_seq` if the two values take 1 and 3 sectors and only the
  first is inline.
- Within a batch one flag says whether the LBA of the key at hand is in the safe list: LBAs are written without being inserted, deleted though
  others inserted them, or left behind. In `KVBatch`, put(k1), put(k2) and a batch of k2 with replace and k2 without leave an LBA behind.
- A batch whose trims and writes fit in one operation may send the writes again, and answer that it failed if that fails: `BatchAllOrNothing` without its
  second condition.
- The cache: `kv_cache_get` takes the first empty place for the end of the search, `kv_cache_delete` does not. Give `KVCached` one
  thread, two keys whose windows are the same two places (`CacheProbe`), both `Deletable`, and `MaxOps = 7`: `MappingTrue` is violated after
  put(a), put(b), delete(a), put(b), delete(b).

## 6. Not modelled, and the plan

Not modelled: the wrappers of `src/nvm_kv.cpp`, argument checks that only refuse a call, allocation
of memory, statistics and getters, printing, and the device library, of which only atomicity and
failure are kept. `m_kvMap`, which is changed under a mutex and searched without one, a second `kv_open` of a store that is open (a second store object, with threads of its own, on
the same device, until the insertion into the map fails) and calls that `kv_close` overtakes: what happens then is undefined from the first access to freed memory on, and there is no property to check.
A store of which the initialization fails before a thread is created is destroyed with `cleanup_threads` of an array that was not allocated; failed allocations are left out throughout.
`kv_set_global_expiry` changes what the device takes for expired of records that were written before; `Expiry` has one global expiry.

Next, in this order:

1. Theorems: `ImplementsMap` of `KVCached`, from `MappingTrue` and the invariant of calls that overlap.
2. `KVCached`, continued: invalidation by LBA, by pool and of everything, with the batch deletes and pool deletions that
   call it.
3. Batches with the cache, and batches that overlap without circular waiting.
4. The iterator of the deletion thread, batch by batch, and `count_ranges`.
