-------------------------------- MODULE Pools --------------------------------
(***************************************************************************)
(* The pools of a store: NVM_KV_Pool_Mgr (src/kv_pool_manager.cpp), the    *)
(* pool deletion thread NVM_KV_Pool_Del_Manager                            *)
(* (src/kv_pool_del_manager.cpp), and opening a store, new or after a      *)
(* crash (NVM_KV_Store::initialize).                                       *)
(*                                                                         *)
(* kv_pool_create and the second half of kv_pool_delete run under the      *)
(* bitmap mutex, device write included, and are one step each; a crash     *)
(* comes before or after.  kv_pool_delete looks at the pool's status, and  *)
(* a put validates its pool id, in a step of its own before that.  Every   *)
(* bitmap and the tags fit in a sector each, so a sector written for one   *)
(* pool carries the bits of all pools.                                     *)
(***************************************************************************)
EXTENDS Integers, FiniteSets

CONSTANTS
    Threads,      \* threads that delete pools
    Putters,      \* those of them that also put keys
    MaxPools,     \* max_pools, the default pool included
    WordBits,     \* bits in a word of a bitmap
    Tags,         \* pool tags
    NoTag,        \* the empty tag
    NoPool,       \* a tag that tags_map does not hold; BM_FULL
    All,          \* M_POOLID_ALL
    MaxCreates,   \* bound on the pools created
    MaxFaults     \* bound on the crashes and failures

Pools == 0..(MaxPools - 1)
UserPools == Pools \ {0}

ASSUME PoolsAssumption ==
    /\ Putters \subseteq Threads
    /\ MaxPools \in Nat \ {0}
    /\ WordBits \in Nat \ {0}
    /\ NoTag \notin Tags
    /\ NoPool \notin Pools
    /\ All \notin Pools
    /\ MaxCreates \in Nat
    /\ MaxFaults \in Nat

VARIABLES
    in_use, deleted, \* m_bitmaps
    total,           \* m_pStoreMetadata->total_no_pools
    tags,            \* m_pPoolTags: tag of each pool
    tags_map,        \* m_tags_map: pool of each tag, or NoPool
    leaked,          \* m_bitmaps.mutex was left locked
    store,           \* "down", "format" (metadata written, bitmaps not), "up"
    disk,            \* what is on the device, but for the keys
    keys,            \* keys[p]: keys on the device that carry pool id p
    pc, arg, seen,   \* where each caller is, its pool, and that pool's epoch
    worker,          \* where the deletion thread is
    to_delete,       \* m_pools_to_delete
    delete_all,      \* its argument to start_pool_delete
    found,           \* keys that its iterator found and it has not trimmed
    creations,       \* how many pools were created
    epoch,           \* epoch[p]: which of these creations made p
    crashes,
    failures         \* what has gone wrong so far

memory == <<in_use, deleted, total, tags, tags_map>>
callers == <<pc, arg, seen>>
deletion == <<worker, to_delete, delete_all, found>>
history == <<creations, epoch, crashes, failures>>
vars == <<memory, leaked, store, disk, keys, callers, deletion, history>>

-----------------------------------------------------------------------------
\* The failures that are told apart: the device write of create_pool, of
\* delete_pool, and of clear_pool_bitmaps for one pool or for all; a device
\* error while the deletion thread scans or trims; and a crash between the two
\* writes that create a store.
Failure == {"create", "mark", "clear", "clearAll", "scan", "format"}

\* A key, by the pool it was meant for (the epoch its put validated) and
\* whether that pool had been deleted when it was written.
Key == [epoch : Nat, late : BOOLEAN]

Disk == [stamp : BOOLEAN, in_use : SUBSET Pools, deleted : SUBSET Pools,
         total : Int, tags : [Pools -> Tags \cup {NoTag}]]

TypeOK ==
    /\ in_use \in SUBSET Pools /\ deleted \in SUBSET Pools
    /\ total \in Int
    /\ tags \in [Pools -> Tags \cup {NoTag}]
    /\ tags_map \in [Tags -> Pools \cup {NoPool}]
    /\ leaked \in BOOLEAN
    /\ store \in {"down", "format", "up"}
    /\ disk \in Disk
    /\ keys \in [Pools -> SUBSET Key]
    /\ pc \in [Threads -> {"idle", "delete", "put"}]
    /\ arg \in [Threads -> Pools \cup {All}]
    /\ seen \in [Threads -> Nat]
    /\ worker \in {"wait", "scan", "trim", "clear"}
    /\ to_delete \in SUBSET Pools
    /\ delete_all \in BOOLEAN
    /\ found \in [Pools -> SUBSET Key]
    /\ creations \in Nat /\ epoch \in [Pools -> Nat]
    /\ crashes \in Nat
    /\ failures \in SUBSET Failure

NoTags == [p \in Pools |-> NoTag]
NoKeys == [p \in Pools |-> {}]
EmptyMap == [g \in Tags |-> NoPool]

Init ==
    /\ in_use = {} /\ deleted = {} /\ total = 0 /\ tags = NoTags /\ tags_map = EmptyMap
    /\ leaked = FALSE
    /\ store = "down"
    /\ disk = [stamp |-> FALSE, in_use |-> {}, deleted |-> {}, total |-> 0, tags |-> NoTags]
    /\ keys = NoKeys
    /\ pc = [t \in Threads |-> "idle"]
    /\ arg = [t \in Threads |-> 0]
    /\ seen = [t \in Threads |-> 0]
    /\ worker = "wait" /\ to_delete = {} /\ delete_all = FALSE /\ found = NoKeys
    /\ creations = 0 /\ epoch = [p \in Pools |-> 0]
    /\ crashes = 0
    /\ failures = {}

-----------------------------------------------------------------------------
\* check_pool_status(p) = POOL_IN_USE
Live(p) == p \in in_use /\ p \notin deleted

Least(S) == CHOOSE x \in S : \A y \in S : x <= y

\* bitmap_ffa, the bit it sets left to the caller
bitmap_ffa(bm) == IF Pools \subseteq bm THEN NoPool ELSE Least(Pools \ bm)

\* Mutant of bitmap_ffs: an off-by-one in the check of the index.
ffs_but_last(bm) ==
    LET found_bit == IF bm = {} THEN NoPool ELSE Least(bm)
    IN IF found_bit = MaxPools - 1 THEN NoPool ELSE found_bit

\* bitmap_ffs: a word that is all ones is not searched, and j still has the
\* value that the search of the previous word left in it.
bitmap_ffs(bm) ==
    IF bm = {} THEN NoPool ELSE
    LET word == Least(bm) \div WordBits
        full == (word * WordBits)..(word * WordBits + WordBits - 1) \subseteq bm
        j == IF ~full THEN Least(bm) % WordBits ELSE IF word = 0 THEN 0 ELSE WordBits
    IN IF word * WordBits + j < MaxPools THEN word * WordBits + j ELSE NoPool

MoreFaults == crashes + Cardinality(failures) < MaxFaults

\* Something of this kind goes wrong now.
Fail(kind) ==
    /\ kind \notin failures /\ MoreFaults
    /\ failures' = failures \cup {kind}

\* Mutant of persist_store_info: the count of pools is not written.
persist_bitmaps(types) ==
    [disk EXCEPT !.in_use = IF "in_use" \in types THEN in_use' ELSE @,
                 !.deleted = IF "deleted" \in types THEN deleted' ELSE @,
                 !.tags = IF "tags" \in types THEN tags' ELSE @]

\* persist_store_info: one atomic write, from memory as the step leaves it
persist_store_info(types) ==
    [disk EXCEPT !.total = IF "metadata" \in types THEN total' ELSE @,
                 !.in_use = IF "in_use" \in types THEN in_use' ELSE @,
                 !.deleted = IF "deleted" \in types THEN deleted' ELSE @,
                 !.tags = IF "tags" \in types THEN tags' ELSE @]

\* The mutex of the bitmaps can be had.
Unlocked == store = "up" /\ ~leaked

(***************************************************************************)
(* create_pool.  If the write fails the count is taken back and so is the  *)
(* bit, except that of pool 0, which is only free after an interrupted     *)
(* creation of the store; the tag is not.                                  *)
(***************************************************************************)
\* A tag that is in the map; untagged pools are never found again.
Known(g) == g # NoTag /\ tags_map[g] # NoPool

CreateKnown(g) ==
    /\ Unlocked
    /\ Known(g)
    /\ UNCHANGED vars

CreateFull(g) ==
    /\ Unlocked
    /\ ~Known(g)
    /\ total > MaxPools \/ bitmap_ffa(in_use) = NoPool
    /\ UNCHANGED vars

Tagged(map, g, p) == IF g = NoTag THEN map ELSE [map EXCEPT ![g] = p]

Create(g) ==
    LET p == bitmap_ffa(in_use) IN
    /\ Unlocked
    /\ ~Known(g)
    /\ total <= MaxPools /\ p # NoPool
    /\ creations < MaxCreates
    /\ tags' = [tags EXCEPT ![p] = g]
    /\ tags_map' = Tagged(tags_map, g, p)
    /\ \/ /\ in_use' = in_use \cup {p}
          /\ total' = total + 1
          /\ disk' = persist_store_info({"metadata", "in_use", "tags"})
          /\ creations' = creations + 1
          /\ epoch' = [epoch EXCEPT ![p] = creations']
          /\ UNCHANGED failures
       \/ /\ Fail("create")
          /\ in_use' = IF p = 0 THEN in_use \cup {0} ELSE in_use
          /\ UNCHANGED <<total, disk, creations, epoch>>
    /\ UNCHANGED <<deleted, leaked, store, keys, callers, deletion, crashes>>

(***************************************************************************)
(* delete_pool(p), p a pool id or All: the check, then the locked part.    *)
(***************************************************************************)
DeleteCheck(t, p) ==
    /\ Unlocked
    /\ pc[t] = "idle"
    /\ p = All \/ (p # 0 /\ Live(p))
    /\ pc' = [pc EXCEPT ![t] = "delete"]
    /\ arg' = [arg EXCEPT ![t] = p]
    /\ UNCHANGED <<memory, leaked, store, disk, keys, seen, deletion, history>>

\* The call of t returns; its variables are gone.
Return(t) ==
    /\ pc' = [pc EXCEPT ![t] = "idle"]
    /\ arg' = [arg EXCEPT ![t] = 0]
    /\ seen' = [seen EXCEPT ![t] = 0]

\* Mutant of Marked: whether the pool is in use is not looked at again.
MarkedAnyway(p) == IF p = All THEN UserPools ELSE {p}

\* The pools of the argument that are in use, in deletion or not.
Marked(p) == in_use \cap (IF p = All THEN UserPools ELSE {p})

\* Mutant of Untagged: the tags stay in the map.
TagsKept(map, S) == map

\* m_tags_map.erase of the tags of the pools in S
Untagged(map, S) ==
    [g \in Tags |-> IF \E p \in S : tags[p] = g THEN NoPool ELSE map[g]]

DeleteMark(t) ==
    LET S == Marked(arg[t]) IN
    /\ Unlocked
    /\ pc[t] = "delete"
    /\ tags' = [p \in Pools |-> IF p \in S THEN NoTag ELSE tags[p]]
    /\ tags_map' = Untagged(tags_map, S)
    /\ \/ /\ deleted' = deleted \cup S
          /\ disk' = persist_store_info({"deleted"})
          /\ UNCHANGED failures
       \/ /\ Fail("mark")
          /\ deleted' = deleted \ S
          /\ UNCHANGED disk
    /\ Return(t)
    /\ UNCHANGED <<in_use, total, leaked, store, keys, deletion, creations, epoch, crashes>>

(***************************************************************************)
(* A put: kv_internal_validation accepts the pool id, later the key is     *)
(* written.                                                                *)
(***************************************************************************)
PutCheck(t, p) ==
    /\ t \in Putters
    /\ Unlocked
    /\ pc[t] = "idle"
    /\ p = 0 \/ Live(p)
    /\ pc' = [pc EXCEPT ![t] = "put"]
    /\ arg' = [arg EXCEPT ![t] = p]
    /\ seen' = [seen EXCEPT ![t] = epoch[p]]
    /\ UNCHANGED <<memory, leaked, store, disk, keys, deletion, history>>

PutWrite(t) ==
    LET p == arg[t]
        late == p # 0 /\ (~Live(p) \/ seen[t] # epoch[p])
    IN
    /\ store = "up"
    /\ pc[t] = "put"
    /\ keys' = [keys EXCEPT ![p] = @ \cup {[epoch |-> seen[t], late |-> late]}]
    /\ Return(t)
    /\ UNCHANGED <<memory, leaked, store, disk, deletion, history>>

(***************************************************************************)
(* The deletion thread: start_thread, start_pool_delete, delete_pool and   *)
(* clear_pool_bitmaps.  With delete_all one scan serves all user pools,    *)
(* otherwise the pools of to_delete are taken in order.                    *)
(***************************************************************************)
\* has_pools_to_delete, then get_pool_deletion_bitmap, without releasing the
\* mutex that delete_pool marks and wakes under
WorkerStart ==
    /\ Unlocked
    /\ worker = "wait"
    /\ bitmap_ffs(deleted) # NoPool
    /\ to_delete' = deleted
    /\ delete_all' = (in_use \ {0} = deleted)
    /\ worker' = "scan"
    /\ UNCHANGED <<memory, leaked, store, disk, keys, callers, found, history>>

\* The pools whose keys are trimmed after the current scan; when all user pools
\* are deleted the scan also finds, and skips, the keys of the default pool.
Victims == IF delete_all THEN UserPools ELSE {Least(to_delete)}
Scanned == IF delete_all THEN Pools ELSE Victims

WorkerScan ==
    /\ store = "up"
    /\ worker = "scan"
    /\ found' = [p \in Pools |-> IF p \in Scanned THEN keys[p] ELSE {}]
    /\ worker' = "trim"
    /\ UNCHANGED <<memory, leaked, store, disk, keys, callers, to_delete, delete_all, history>>

\* Keys were found, and none of them is to be trimmed: delete_pool returns the
\* number of ranges found, and that is not NVM_SUCCESS.
NothingToTrim == found[0] # {} /\ \A p \in Victims : found[p] = {}

WorkerTrim ==
    /\ store = "up"
    /\ worker = "trim"
    /\ keys' = [p \in Pools |-> IF p \in Victims THEN keys[p] \ found[p] ELSE keys[p]]
    /\ found' = NoKeys
    /\ worker' = IF NothingToTrim THEN "wait" ELSE "clear"
    /\ UNCHANGED <<memory, leaked, store, disk, callers, to_delete, delete_all, history>>

\* The scan or a batch delete fails: back to the start, the bitmaps untouched.
WorkerError ==
    /\ store = "up"
    /\ worker \in {"scan", "trim"}
    /\ Fail("scan")
    /\ worker' = "wait"
    /\ found' = NoKeys
    /\ UNCHANGED <<memory, leaked, store, disk, keys, callers, to_delete, delete_all,
                   creations, epoch, crashes>>

\* Mutant of Cleared: the pools in deletion now, not those it began with.
ClearedNow == IF delete_all THEN deleted ELSE {Least(to_delete)}

\* clear_pool_bitmaps: of the whole of to_delete, returning without unlocking
\* the mutex when the write fails, or of the pool just scanned.
Cleared == IF delete_all THEN to_delete ELSE {Least(to_delete)}

WorkerClear ==
    /\ Unlocked
    /\ worker = "clear"
    /\ deleted' = deleted \ Cleared
    /\ in_use' = in_use \ Cleared
    /\ total' = total - Cardinality(Cleared)
    /\ \/ /\ disk' = persist_store_info({"metadata", "deleted", "in_use"})
          /\ to_delete' = to_delete \ Cleared
          /\ worker' = IF to_delete' = {} THEN "wait" ELSE "scan"
          /\ UNCHANGED <<leaked, failures>>
       \/ /\ Fail(IF delete_all THEN "clearAll" ELSE "clear")
          /\ worker' = "wait"
          /\ leaked' = delete_all
          /\ UNCHANGED <<disk, to_delete>>
    /\ UNCHANGED <<tags, tags_map, store, keys, callers, delete_all, found, creations, epoch, crashes>>

(***************************************************************************)
(* Opening, and losing, the store.                                         *)
(***************************************************************************)
\* NVM_KV_Store::initialize finds no metadata and writes it; the bitmaps are
\* written later, by NVM_KV_Pool_Mgr::initialize.
OpenNew ==
    /\ store = "down" /\ ~disk.stamp
    /\ store' = "format"
    /\ total' = 1
    /\ disk' = [disk EXCEPT !.stamp = TRUE, !.total = total']
    /\ UNCHANGED <<in_use, deleted, tags, tags_map, leaked, keys, callers, deletion, history>>

OpenFormat ==
    /\ store = "format"
    /\ store' = "up"
    /\ in_use' = {0} /\ deleted' = {}
    /\ UNCHANGED tags
    /\ disk' = persist_store_info({"in_use", "deleted", "tags"})
    /\ UNCHANGED <<total, tags_map, leaked, keys, callers, deletion, history>>

\* restore: what is read replaces the bit of the default pool that initialize
\* has set; the tags of pools in use go into the map; a pool in deletion that
\* is not in use is an inconsistent state, and the store does not open.
OpenRestore ==
    /\ store = "down" /\ disk.stamp
    /\ disk.deleted \ {0} \subseteq disk.in_use
    /\ store' = "up"
    /\ in_use' = disk.in_use /\ deleted' = disk.deleted /\ total' = disk.total
    /\ tags' = disk.tags
    /\ tags_map' = [g \in Tags |->
         LET owners == {p \in UserPools : Live(p)' /\ disk.tags[p] = g}
         IN IF owners = {} THEN NoPool ELSE Least(owners)]
    /\ UNCHANGED <<leaked, disk, keys, callers, deletion, history>>

\* Everything but the device is lost.
Crash ==
    /\ \/ store = "up" /\ MoreFaults /\ crashes' = crashes + 1 /\ UNCHANGED failures
       \/ store = "format" /\ Fail("format") /\ UNCHANGED crashes
    /\ store' = "down"
    /\ in_use' = {} /\ deleted' = {} /\ total' = 0 /\ tags' = NoTags /\ tags_map' = EmptyMap
    /\ leaked' = FALSE
    /\ pc' = [t \in Threads |-> "idle"]
    /\ worker' = "wait" /\ to_delete' = {} /\ delete_all' = FALSE /\ found' = NoKeys
    /\ arg' = [t \in Threads |-> 0] /\ seen' = [t \in Threads |-> 0]
    /\ UNCHANGED <<disk, keys, creations, epoch>>

-----------------------------------------------------------------------------
Worker == WorkerStart \/ WorkerScan \/ WorkerTrim \/ WorkerClear
Open == OpenNew \/ OpenFormat \/ OpenRestore

Next ==
    \/ \E g \in Tags \cup {NoTag} : CreateKnown(g) \/ CreateFull(g) \/ Create(g)
    \/ \E t \in Threads :
         \/ \E p \in UserPools \cup {All} : DeleteCheck(t, p)
         \/ DeleteMark(t)
         \/ \E p \in Pools : PutCheck(t, p)
         \/ PutWrite(t)
    \/ Worker \/ WorkerError
    \/ Open \/ Crash

Spec == Init /\ [][Next]_vars

\* The deletion thread runs, and a store that went down is opened again.
FairSpec == Spec /\ WF_vars(Worker) /\ WF_vars(Open)

-----------------------------------------------------------------------------
\* Which failures a property does not survive is part of what it states; every
\* one of them is a way in which the code falls short.

\* No deletion, begun or done, differs between memory and device.
DeletionsDurable == failures \cap {"mark", "clear", "clearAll"} = {}

\* The default pool is in use from the first open on ("pool id 0 is in use for
\* default pools", kv_pool_manager.cpp), so create_pool never hands out its id,
\* and the count of pools that create_pool checks and kv_get_store_info reports
\* is the number of bits set.  Not so if creating the store was interrupted: it
\* opens without its default pool.
CountExact ==
    store = "up" /\ "format" \notin failures => 0 \in in_use /\ total = Cardinality(in_use)

\* A tag leads to the pool that was created with it, to one pool only, and only
\* as long as that pool is not deleted; a pool in use has its tag in the map.
\* A pool that could not be created keeps its tag in the map; and a pool whose
\* deletion was taken back, in memory or by a later write of the bitmaps, has the
\* tag again that is still on the device, and that another pool may have.
TagsExact ==
    store = "up" /\ failures \cap {"create", "mark", "clear"} = {} =>
        /\ \A g \in Tags : tags_map[g] # NoPool => Live(tags_map[g]) /\ tags[tags_map[g]] = g
        /\ \A p \in UserPools : Live(p) /\ tags[p] # NoTag => tags_map[tags[p]] = p

\* Whatever create_pool, delete_pool and the deletion thread have reported, or
\* acted upon, is on the device: a restart finds the same pools, with the same
\* tags, and the same deletions to finish.  A failed write of the deletion
\* thread is not taken back, one of delete_pool is taken back but for the tags,
\* and one of create_pool but for the bit of the default pool: with that pool
\* missing after an interrupted creation of the store, memory may have it and the
\* device not.
CrashSafe ==
    store = "up" /\ DeletionsDurable =>
        /\ \/ disk.in_use = in_use
           \/ {"format", "create"} \subseteq failures /\ disk.in_use = in_use \ {0}
        /\ disk.deleted = deleted /\ disk.total = total
        /\ \A p \in UserPools : Live(p) => disk.tags[p] = tags[p]

\* "we expect both in-use and deleted bitmap bits set if a particular pool is in
\* the process of deletion" (restore): the store can always be opened again.
\* When a bit could not be cleared on the device the next pool created may
\* clear it in one of the bitmaps only.
CanRestore == "clear" \notin failures => disk.deleted \subseteq disk.in_use

\* The id of a deleted pool is free again only when every key that was stored
\* before the deletion is trimmed, crashes in between or not: the next pool
\* with that id does not see the keys of the last.  A delete_pool that fails
\* takes the deletions of others back, after the thread has begun with them.
FreedPoolsEmpty ==
    "mark" \notin failures =>
        \A p \in UserPools : p \notin disk.in_use => \A e \in keys[p] : e.late

\* The deletion of a pool, which kv_pool_delete only requests, is completed,
\* if need be after a restart, as long as the default pool holds no keys and no
\* write of the bitmaps by delete_pool or the deletion thread has failed.
DeletionCompletes ==
    \A p \in UserPools :
        (p \in disk.deleted /\ keys[0] = {}) ~>
            (p \notin disk.deleted \/ keys[0] # {} \/ ~DeletionsDurable)

\* ... and with keys in the default pool, as the sample program waits for it.
DeletionAlwaysCompletes == \A p \in UserPools : p \in disk.deleted ~> p \notin disk.deleted
=============================================================================
