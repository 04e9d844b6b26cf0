----------------------------- MODULE PoolsProofs -----------------------------
(***************************************************************************)
(* Theorems about Pools, for every number of pools, threads, creations,    *)
(* crashes and failures.                                                   *)
(***************************************************************************)
EXTENDS Pools, FiniteSetTheorems, WellFoundedInduction, TLAPS

\* A set of pools that is not empty has a least element.
LEMMA LeastIsIn ==
    ASSUME NEW S \in SUBSET Nat, S # {}
    PROVE  Least(S) \in S
<1>1. PICK x \in S : \A y \in S : ~ (<<y, x>> \in OpToRel(<, Nat))
  BY WFMin, NatLessThanWellFounded
<1>2. ASSUME NEW y \in S PROVE x <= y
  <2>1. ~ (<<y, x>> \in OpToRel(<, Nat))
    BY <1>1
  <2>2. <<y, x>> \in Nat \X Nat
    OBVIOUS
  <2>3. ~ (y < x)
    BY <2>1, <2>2 DEF OpToRel
  <2> QED
    BY <2>3
<1> QED
  BY <1>2 DEF Least

LEMMA PoolsFacts ==
    /\ Pools \subseteq Nat /\ UserPools \subseteq Pools /\ IsFiniteSet(Pools)
    /\ 0 \in Pools /\ 0 \notin UserPools /\ Pools = UserPools \cup {0}
    /\ NoPool \notin Pools /\ All \notin Pools /\ NoTag \notin Tags
  BY PoolsAssumption, FS_Interval DEF Pools, UserPools

\* bitmap_ffa answers with a pool that is free.
LEMMA FoundIsFree ==
    ASSUME NEW bm \in SUBSET Pools, bitmap_ffa(bm) # NoPool
    PROVE  bitmap_ffa(bm) \in Pools \ bm
  BY LeastIsIn, PoolsFacts DEF bitmap_ffa

\* The fields of the device after a write, one by one.
LEMMA Persisted ==
    ASSUME TypeOK, NEW types, disk' = persist_store_info(types),
           in_use' \in SUBSET Pools, deleted' \in SUBSET Pools, total' \in Int,
           tags' \in [Pools -> Tags \cup {NoTag}]
    PROVE  /\ disk' \in Disk /\ disk'.stamp = disk.stamp
           /\ disk'.in_use = IF "in_use" \in types THEN in_use' ELSE disk.in_use
           /\ disk'.deleted = IF "deleted" \in types THEN deleted' ELSE disk.deleted
           /\ disk'.total = IF "metadata" \in types THEN total' ELSE disk.total
           /\ disk'.tags = IF "tags" \in types THEN tags' ELSE disk.tags
  BY DEF TypeOK, persist_store_info, Disk

-----------------------------------------------------------------------------
\* Type correctness.

LEMMA TypeInit == Init => TypeOK
<1> SUFFICES ASSUME Init PROVE TypeOK
  OBVIOUS
<1>1. /\ NoTags \in [Pools -> Tags \cup {NoTag}] /\ NoKeys \in [Pools -> SUBSET Key]
      /\ EmptyMap \in [Tags -> Pools \cup {NoPool}]
  BY DEF NoTags, NoKeys, EmptyMap
<1>2. disk \in Disk
  BY <1>1 DEF Init, Disk
<1>3. /\ arg \in [Threads -> Pools \cup {All}] /\ seen \in [Threads -> Nat]
      /\ pc \in [Threads -> {"idle", "delete", "put"}] /\ epoch \in [Pools -> Nat]
  BY PoolsFacts DEF Init
<1>4. /\ in_use \in SUBSET Pools /\ deleted \in SUBSET Pools /\ to_delete \in SUBSET Pools
      /\ failures \in SUBSET Failure
  BY DEF Init
<1>5. /\ tags \in [Pools -> Tags \cup {NoTag}] /\ tags_map \in [Tags -> Pools \cup {NoPool}]
      /\ keys \in [Pools -> SUBSET Key] /\ found \in [Pools -> SUBSET Key]
  BY <1>1 DEF Init
<1>6. total \in Int /\ creations \in Nat /\ crashes \in Nat
  BY DEF Init
<1>7. /\ leaked \in BOOLEAN /\ delete_all \in BOOLEAN
      /\ store \in {"down", "format", "up"} /\ worker \in {"wait", "scan", "trim", "clear"}
  BY Zenon DEF Init
<1> QED
  BY <1>2, <1>3, <1>4, <1>5, <1>6, <1>7 DEF TypeOK

LEMMA TypeStep ==
    ASSUME TypeOK, [Next]_vars
    PROVE  TypeOK'
<1>1. ASSUME NEW g \in Tags \cup {NoTag}, CreateKnown(g) \/ CreateFull(g)
      PROVE TypeOK'
  BY <1>1 DEF CreateKnown, CreateFull, TypeOK, vars, memory, callers, deletion, history
<1>2. ASSUME NEW g \in Tags \cup {NoTag}, Create(g)
      PROVE TypeOK'
  <2> DEFINE p == bitmap_ffa(in_use)
  <2>1. p \in Pools
    BY <1>2, FoundIsFree DEF Create, TypeOK
  <2>2. /\ in_use' \in SUBSET Pools /\ total' \in Int
        /\ tags' \in [Pools -> Tags \cup {NoTag}]
        /\ tags_map' \in [Tags -> Pools \cup {NoPool}]
        /\ deleted' = deleted
    <3>1. in_use' \in {in_use, in_use \cup {p}} /\ total' \in {total, total + 1}
      BY <1>2 DEF Create
    <3>2. /\ tags' = [tags EXCEPT ![p] = g] /\ deleted' = deleted
          /\ \/ tags_map' = tags_map
             \/ g # NoTag /\ tags_map' = [tags_map EXCEPT ![g] = p]
      BY <1>2 DEF Create, Tagged
    <3> HIDE DEF p
    <3> QED
      BY <2>1, <3>1, <3>2 DEF TypeOK
  <2>3. creations' \in Nat /\ epoch' \in [Pools -> Nat] /\ failures' \in SUBSET Failure
    <3>1. CASE /\ creations' = creations + 1 /\ epoch' = [epoch EXCEPT ![p] = creations']
               /\ UNCHANGED failures
      BY <2>1, <3>1 DEF TypeOK
    <3>2. CASE Fail("create") /\ UNCHANGED <<creations, epoch>>
      BY <3>2 DEF TypeOK, Fail, Failure
    <3> QED
      BY <1>2, <3>1, <3>2 DEF Create
  <2>4. disk' \in Disk
    <3>1. CASE disk' = persist_store_info({"metadata", "in_use", "tags"})
      BY <3>1, <2>2, Persisted DEF TypeOK
    <3>2. CASE disk' = disk
      BY <3>2 DEF TypeOK
    <3> QED
      BY <1>2, <3>1, <3>2 DEF Create
  <2> HIDE DEF p
  <2> QED
    BY <1>2, <2>2, <2>3, <2>4 DEF Create, TypeOK, callers, deletion
<1>3. ASSUME NEW t \in Threads, NEW p \in UserPools \cup {All}, DeleteCheck(t, p)
      PROVE TypeOK'
  BY <1>3, PoolsFacts DEF DeleteCheck, TypeOK, memory, deletion, history
<1>4. ASSUME NEW t \in Threads, DeleteMark(t)
      PROVE TypeOK'
  <2>1. /\ deleted' \in SUBSET Pools
        /\ tags' \in [Pools -> Tags \cup {NoTag}]
        /\ tags_map' \in [Tags -> Pools \cup {NoPool}]
        /\ in_use' = in_use /\ total' = total
    BY <1>4 DEF DeleteMark, TypeOK, Marked, Untagged
  <2>2. failures' \in SUBSET Failure
    BY <1>4 DEF DeleteMark, TypeOK, Fail, Failure
  <2>3. disk' \in Disk
    <3>1. CASE disk' = persist_store_info({"deleted"})
      BY <3>1, <2>1, Persisted DEF TypeOK
    <3>2. CASE disk' = disk
      BY <3>2 DEF TypeOK
    <3> QED
      BY <1>4, <3>1, <3>2 DEF DeleteMark
  <2> QED
    BY <1>4, <2>1, <2>2, <2>3, PoolsFacts DEF DeleteMark, Return, TypeOK, deletion
<1>5. ASSUME NEW t \in Threads, NEW p \in Pools, PutCheck(t, p)
      PROVE TypeOK'
  BY <1>5 DEF PutCheck, TypeOK, memory, deletion, history
<1>6. ASSUME NEW t \in Threads, PutWrite(t)
      PROVE TypeOK'
  <2> DEFINE p == arg[t]
             late == p # 0 /\ (~Live(p) \/ seen[t] # epoch[p])
  <2>1. [epoch |-> seen[t], late |-> late] \in Key
    BY DEF TypeOK, Key
  <2>2. keys' = [keys EXCEPT ![p] = @ \cup {[epoch |-> seen[t], late |-> late]}]
    BY <1>6 DEF PutWrite
  <2> HIDE DEF late
  <2>3. keys' \in [Pools -> SUBSET Key]
    BY <2>1, <2>2 DEF TypeOK
  <2> QED
    BY <1>6, <2>3, PoolsFacts DEF PutWrite, Return, TypeOK, memory, deletion, history
<1>7. CASE WorkerStart
  BY <1>7 DEF WorkerStart, TypeOK, memory, callers, history
<1>8. CASE WorkerScan
  BY <1>8 DEF WorkerScan, TypeOK, memory, callers, history
<1>9. CASE WorkerTrim
  BY <1>9 DEF WorkerTrim, TypeOK, memory, callers, history, NoKeys
<1>10. CASE WorkerClear
  <2>1. Cardinality(Cleared) \in Int
    <3>1. IsFiniteSet(Cleared)
      BY PoolsFacts, FS_Subset, FS_Singleton DEF Cleared, TypeOK
    <3> QED
      BY <3>1, FS_CardinalityType
  <2>2. in_use' \in SUBSET Pools /\ deleted' \in SUBSET Pools /\ total' \in Int /\ tags' = tags
    <3>1. /\ in_use' = in_use \ Cleared /\ deleted' = deleted \ Cleared
          /\ total' = total - Cardinality(Cleared) /\ tags' = tags
      BY <1>10 DEF WorkerClear
    <3>2. in_use \in SUBSET Pools /\ deleted \in SUBSET Pools /\ total \in Int
      BY DEF TypeOK
    <3> QED
      BY <2>1, <3>1, <3>2
  <2>3. disk' \in Disk
    <3>1. CASE disk' = persist_store_info({"metadata", "deleted", "in_use"})
      BY <3>1, <2>2, Persisted DEF TypeOK
    <3>2. CASE disk' = disk
      BY <3>2 DEF TypeOK
    <3> QED
      BY <1>10, <3>1, <3>2 DEF WorkerClear
  <2>4. /\ to_delete' \in SUBSET Pools /\ worker' \in {"wait", "scan"}
        /\ leaked' \in BOOLEAN /\ failures' \in SUBSET Failure
    BY <1>10 DEF WorkerClear, TypeOK, Fail, Failure
  <2> QED
    BY <1>10, <2>2, <2>3, <2>4 DEF WorkerClear, TypeOK, callers
<1>11. CASE WorkerError
  BY <1>11 DEF WorkerError, TypeOK, memory, callers, NoKeys, Fail, Failure
<1>12. CASE OpenNew
  <2>1. disk' \in Disk /\ total' \in Int /\ store' = "format"
    <3>1. disk \in Disk
      BY DEF TypeOK
    <3>2. total' = 1 /\ disk' = [disk EXCEPT !.stamp = TRUE, !.total = 1] /\ store' = "format"
      BY <1>12 DEF OpenNew
    <3> DEFINE stamped == [disk EXCEPT !.stamp = TRUE]
    <3>3. stamped \in Disk
      BY <3>1 DEF Disk
    <3>4. disk' = [stamped EXCEPT !.total = 1]
      BY <3>2
    <3> HIDE DEF stamped
    <3>5. disk' \in Disk
      BY <3>3, <3>4 DEF Disk
    <3> QED
      BY <3>2, <3>5
  <2> QED
    BY <1>12, <2>1 DEF OpenNew, TypeOK, callers, deletion, history
<1>13. CASE OpenFormat
  <2>1. in_use' \in SUBSET Pools /\ deleted' \in SUBSET Pools /\ total' = total /\ tags' = tags
    BY <1>13, PoolsFacts DEF OpenFormat
  <2>2. disk' \in Disk
    BY <1>13, <2>1, Persisted DEF OpenFormat, TypeOK
  <2> QED
    BY <1>13, <2>1, <2>2 DEF OpenFormat, TypeOK, callers, deletion, history
<1>14. CASE OpenRestore
  <2>1. tags_map' \in [Tags -> Pools \cup {NoPool}]
    <3> DEFINE owners(g) == {p \in UserPools : Live(p)' /\ disk.tags[p] = g}
    <3>1. tags_map' = [g \in Tags |-> IF owners(g) = {} THEN NoPool ELSE Least(owners(g))]
      BY <1>14 DEF OpenRestore
    <3>2. ASSUME NEW g \in Tags, owners(g) # {}
          PROVE Least(owners(g)) \in Pools
      <4>1. owners(g) \in SUBSET Nat
        BY PoolsFacts
      <4>2. Least(owners(g)) \in owners(g)
        BY <3>2, <4>1, LeastIsIn
      <4> QED
        BY <4>2, PoolsFacts
    <3> HIDE DEF owners
    <3> QED
      BY <3>1, <3>2
  <2> QED
    BY <1>14, <2>1 DEF OpenRestore, TypeOK, callers, deletion, history, Disk
<1>15. CASE Crash
  <2>1. crashes' \in Nat /\ failures' \in SUBSET Failure
    <3>1. crashes \in Nat /\ failures \in SUBSET Failure
      BY DEF TypeOK
    <3>2. \/ crashes' = crashes + 1 /\ failures' = failures
          \/ crashes' = crashes /\ failures' = failures \cup {"format"}
      BY <1>15 DEF Crash, Fail
    <3>3. "format" \in Failure
      BY DEF Failure
    <3> QED
      BY <3>1, <3>2, <3>3
  <2>2. found' \in [Pools -> SUBSET Key] /\ tags' \in [Pools -> Tags \cup {NoTag}]
        /\ tags_map' \in [Tags -> Pools \cup {NoPool}]
    BY <1>15 DEF Crash, NoTags, EmptyMap, NoKeys
  <2>3. pc' \in [Threads -> {"idle", "delete", "put"}] /\ arg' \in [Threads -> Pools \cup {All}]
        /\ seen' \in [Threads -> Nat]
    BY <1>15, PoolsFacts DEF Crash
  <2>4. /\ in_use' = {} /\ deleted' = {} /\ total' = 0 /\ leaked' = FALSE /\ store' = "down"
        /\ worker' = "wait" /\ to_delete' = {} /\ delete_all' = FALSE
        /\ UNCHANGED <<disk, keys, creations, epoch>>
    BY <1>15 DEF Crash
  <2>5. /\ in_use' \in SUBSET Pools /\ deleted' \in SUBSET Pools /\ to_delete' \in SUBSET Pools
        /\ total' \in Int
    BY <2>4
  <2>6. /\ leaked' \in BOOLEAN /\ delete_all' \in BOOLEAN
        /\ store' \in {"down", "format", "up"} /\ worker' \in {"wait", "scan", "trim", "clear"}
    BY <2>4, Zenon
  <2>7. /\ disk' \in Disk /\ keys' \in [Pools -> SUBSET Key]
        /\ creations' \in Nat /\ epoch' \in [Pools -> Nat]
    BY <2>4 DEF TypeOK
  <2> QED
    BY <2>1, <2>2, <2>3, <2>5, <2>6, <2>7 DEF TypeOK
<1>16. CASE UNCHANGED vars
  BY <1>16 DEF TypeOK, vars, memory, callers, deletion, history
<1> QED
  BY <1>1, <1>2, <1>3, <1>4, <1>5, <1>6, <1>7, <1>8, <1>9, <1>10, <1>11, <1>12, <1>13,
     <1>14, <1>15, <1>16 DEF Next, Worker, Open

\* Every variable has its type, whatever fails.
THEOREM TypeCorrect == Spec => []TypeOK
  BY TypeInit, TypeStep, PTL DEF Spec

-----------------------------------------------------------------------------
(***************************************************************************)
(* The inductive invariant.  The invariants of Pools speak of a store that *)
(* is up; what is added is what the device holds while it is down, how far *)
(* memory and device agree, and what the deletion thread and the callers   *)
(* of delete_pool may rely on between their steps.                         *)
(***************************************************************************)

\* A store that is not up has nothing in memory.
Quiet ==
    store # "up" =>
        /\ in_use = {} /\ deleted = {} /\ tags = NoTags /\ tags_map = EmptyMap
        /\ ~leaked
        /\ pc = [t \in Threads |-> "idle"] /\ worker = "wait"

\* A store whose bitmaps were never written.
Blank ==
    ~disk.stamp \/ store = "format" =>
        /\ store # "up"
        /\ disk.in_use = {} /\ disk.deleted = {} /\ keys = NoKeys
        /\ store = "format" => disk.stamp /\ total = 1 /\ disk.total = 1

\* Pools in deletion, and those the thread works on, are in use, and are not
\* the default pool.
InDeletion ==
    /\ deleted \subseteq in_use \cap UserPools
    /\ 0 \notin disk.deleted
    /\ \A t \in Threads : pc[t] = "delete" => arg[t] # 0
    /\ worker # "wait" => to_delete # {} /\ to_delete \subseteq in_use \cap UserPools
    /\ worker # "wait" /\ "mark" \notin failures => to_delete \subseteq deleted

\* How far memory and device agree.
Durable ==
    /\ leaked => "clearAll" \in failures
    /\ store = "up" => in_use \ {0} \subseteq disk.in_use
    /\ store = "up" /\ ~leaked /\ "clear" \notin failures =>
          \/ disk.in_use = in_use
          \/ {"format", "create"} \subseteq failures /\ disk.in_use = in_use \ {0}
    /\ store = "up" /\ ~leaked /\ failures \cap {"mark", "clear"} = {} =>
          /\ disk.deleted = deleted /\ disk.total = total
          /\ \A p \in UserPools : Live(p) => disk.tags[p] = tags[p]

\* CountExact, of the device.
DiskCount ==
    disk.stamp /\ store # "format" /\ "format" \notin failures =>
        0 \in disk.in_use /\ disk.total = Cardinality(disk.in_use)

\* No two live pools have the same tag on the device.
DiskTags ==
    failures \cap {"create", "mark", "clear"} = {} =>
        \A p, q \in UserPools :
            /\ p \in disk.in_use \ disk.deleted /\ q \in disk.in_use \ disk.deleted
            /\ disk.tags[p] = disk.tags[q] /\ disk.tags[p] # NoTag
            => p = q

\* A delete_pool that lost the race for its pool has no tag left to erase.
TagErased ==
    \A t \in Threads : pc[t] = "delete" /\ arg[t] \in deleted => tags[arg[t]] = NoTag

AllLate(p) == \A e \in keys[p] : e.late

\* FreedPoolsEmpty, of memory and of the pools that the thread has trimmed.
Trimmed ==
    "mark" \notin failures =>
        /\ store = "up" => \A p \in UserPools \ in_use : AllLate(p)
        /\ worker = "trim" =>
              \A p \in Victims \cap to_delete : \A e \in keys[p] : e.late \/ e \in found[p]
        /\ worker = "clear" => \A p \in Cleared : AllLate(p)

Inv ==
    /\ TypeOK /\ Quiet /\ Blank /\ InDeletion /\ Durable /\ CanRestore
    /\ DiskCount /\ CountExact
    /\ TagErased /\ DiskTags /\ TagsExact
    /\ Trimmed /\ FreedPoolsEmpty

LEMMA InvInit == Init => Inv
<1> SUFFICES ASSUME Init PROVE Inv
  OBVIOUS
<1>1. TypeOK
  BY TypeInit
<1>2. /\ store = "down" /\ worker = "wait" /\ in_use = {} /\ deleted = {} /\ leaked = FALSE
      /\ disk.stamp = FALSE /\ disk.in_use = {} /\ disk.deleted = {} /\ keys = NoKeys
      /\ tags = NoTags /\ tags_map = EmptyMap /\ pc = [t \in Threads |-> "idle"]
  BY DEF Init
<1>3. Quiet /\ Blank
  BY <1>2, Zenon DEF Quiet, Blank
<1>4. InDeletion /\ CanRestore /\ TagErased /\ DiskTags
  BY <1>2 DEF InDeletion, CanRestore, TagErased, DiskTags
<1>5. Durable /\ DiskCount /\ CountExact /\ TagsExact
  BY <1>2, Zenon DEF Durable, DiskCount, CountExact, TagsExact
<1>6. \A p \in Pools : AllLate(p)
  BY <1>2 DEF AllLate, NoKeys
<1>7. Trimmed /\ FreedPoolsEmpty
  BY <1>2, <1>6, PoolsFacts DEF Trimmed, FreedPoolsEmpty, AllLate
<1> QED
  BY <1>1, <1>3, <1>4, <1>5, <1>7 DEF Inv

\* Most steps leave memory and device alone.
Untouched == UNCHANGED <<memory, leaked, store, disk>> /\ failures \subseteq failures'

LEMMA UntouchedStep ==
    ASSUME Inv, Untouched
    PROVE  /\ Durable' /\ CanRestore' /\ DiskCount' /\ CountExact'
           /\ DiskTags' /\ TagsExact'
<1>1. /\ in_use' = in_use /\ deleted' = deleted /\ total' = total /\ tags' = tags
      /\ tags_map' = tags_map /\ leaked' = leaked /\ store' = store /\ disk' = disk
      /\ failures \subseteq failures'
  BY DEF Untouched, memory
<1>2. Durable'
  BY <1>1 DEF Inv, Durable, Live
<1>3. CanRestore' /\ DiskCount' /\ CountExact'
  BY <1>1 DEF Inv, CanRestore, DiskCount, CountExact
<1>4. DiskTags'
  BY <1>1 DEF Inv, DiskTags
<1>5. TagsExact'
  BY <1>1 DEF Inv, TagsExact, Live
<1> QED
  BY <1>2, <1>3, <1>4, <1>5

\* The parts that Untouched does not cover.
Working == Quiet /\ Blank /\ InDeletion /\ TagErased /\ Trimmed /\ FreedPoolsEmpty

LEMMA UntouchedInv ==
    ASSUME Inv, Untouched, TypeOK', Working'
    PROVE  Inv'
  BY UntouchedStep DEF Inv, Working

\* What the deletion thread is sure of stays so while it does nothing.
LEMMA IdleWorker ==
    ASSUME Inv, Untouched, UNCHANGED <<deletion, keys>>
    PROVE  Trimmed' /\ FreedPoolsEmpty'
<1>1. /\ in_use' = in_use /\ store' = store /\ disk' = disk /\ keys' = keys
      /\ worker' = worker /\ to_delete' = to_delete /\ delete_all' = delete_all /\ found' = found
      /\ failures \subseteq failures'
  BY DEF Untouched, memory, deletion
<1>2. Victims' = Victims /\ Cleared' = Cleared /\ \A p \in Pools : AllLate(p)' = AllLate(p)
  BY <1>1 DEF Victims, Cleared, AllLate
<1>3. Trimmed'
  BY <1>1, <1>2, PoolsFacts DEF Inv, Trimmed, AllLate, Victims, Cleared
<1>4. FreedPoolsEmpty'
  BY <1>1 DEF Inv, FreedPoolsEmpty
<1> QED
  BY <1>3, <1>4

LEMMA DeleteCheckInv ==
    ASSUME Inv, TypeOK', NEW t \in Threads, NEW p \in UserPools \cup {All}, DeleteCheck(t, p)
    PROVE  Inv'
<1>1. Untouched /\ UNCHANGED <<deletion, keys>>
  BY DEF DeleteCheck, Untouched, history
<1>2. /\ store = "up" /\ store' = store /\ disk' = disk /\ total' = total /\ keys' = keys
      /\ in_use' = in_use /\ deleted' = deleted /\ tags' = tags /\ failures' = failures
      /\ worker' = worker /\ to_delete' = to_delete
  BY DEF DeleteCheck, Unlocked, memory, deletion, history
<1>3. /\ p = All \/ p \notin deleted
      /\ pc' = [pc EXCEPT ![t] = "delete"] /\ arg' = [arg EXCEPT ![t] = p]
  BY DEF DeleteCheck, Live
<1>4. Quiet' /\ Blank'
  BY <1>2 DEF Inv, Quiet, Blank
<1>5. p # 0
  BY PoolsFacts
<1>6. InDeletion'
  BY <1>2, <1>3, <1>5 DEF Inv, TypeOK, InDeletion
<1>7. TagErased'
  <2>1. All \notin deleted
    BY PoolsFacts DEF Inv, TypeOK
  <2> QED
    BY <1>2, <1>3, <2>1 DEF Inv, TypeOK, TagErased
<1> QED
  BY <1>1, <1>4, <1>6, <1>7, IdleWorker, UntouchedInv DEF Working

LEMMA PutCheckInv ==
    ASSUME Inv, TypeOK', NEW t \in Threads, NEW p \in Pools, PutCheck(t, p)
    PROVE  Inv'
<1>1. Untouched /\ UNCHANGED <<deletion, keys>>
  BY DEF PutCheck, Untouched, history
<1>2. /\ store = "up" /\ store' = store /\ disk' = disk /\ total' = total /\ keys' = keys
      /\ in_use' = in_use /\ deleted' = deleted /\ tags' = tags /\ failures' = failures
      /\ worker' = worker /\ to_delete' = to_delete
  BY DEF PutCheck, Unlocked, memory, deletion, history
<1>3. pc' = [pc EXCEPT ![t] = "put"] /\ arg' = [arg EXCEPT ![t] = p]
  BY DEF PutCheck
<1>4. Quiet' /\ Blank'
  BY <1>2 DEF Inv, Quiet, Blank
<1>5. InDeletion' /\ TagErased'
  BY <1>2, <1>3 DEF Inv, TypeOK, InDeletion, TagErased
<1> QED
  BY <1>1, <1>4, <1>5, IdleWorker, UntouchedInv DEF Working

\* The key that is written is late if its pool is not live.
LEMMA PutWriteInv ==
    ASSUME Inv, TypeOK', NEW t \in Threads, PutWrite(t)
    PROVE  Inv'
<1> DEFINE p == arg[t]
           late == p # 0 /\ (~Live(p) \/ seen[t] # epoch[p])
           new == [epoch |-> seen[t], late |-> late]
<1>1. Untouched
  BY DEF PutWrite, Untouched, history
<1>2. /\ store = "up" /\ store' = store /\ disk' = disk /\ total' = total
      /\ in_use' = in_use /\ deleted' = deleted /\ tags' = tags /\ failures' = failures
      /\ worker' = worker /\ to_delete' = to_delete /\ delete_all' = delete_all
      /\ found' = found
  BY DEF PutWrite, memory, deletion, history
<1>3. pc' = [pc EXCEPT ![t] = "idle"] /\ arg' = [arg EXCEPT ![t] = 0]
  BY DEF PutWrite, Return
<1>4. \A q \in Pools : \A e \in keys'[q] : e \in keys[q] \/ (q = p /\ e = new)
  <2>1. keys' = [keys EXCEPT ![p] = @ \cup {new}]
    BY DEF PutWrite
  <2> HIDE DEF new
  <2> QED
    BY <2>1 DEF Inv, TypeOK
<1>5. ASSUME NEW q \in UserPools, ~Live(q), NEW e \in keys'[q]
      PROVE e.late \/ e \in keys[q]
  <2>1. q # 0 /\ q \in Pools
    BY PoolsFacts
  <2>2. e \in keys[q] \/ (q = p /\ e = new)
    BY <1>4, <1>5, <2>1
  <2>3. q = p => late
    BY <1>5, <2>1
  <2>4. new.late = late
    OBVIOUS
  <2> QED
    BY <2>2, <2>3, <2>4
<1> HIDE DEF p, late, new
<1>6. Quiet' /\ Blank'
  BY <1>2, Zenon DEF Inv, Quiet, Blank
<1>7. InDeletion' /\ TagErased'
  BY <1>2, <1>3 DEF Inv, TypeOK, InDeletion, TagErased
<1>8. ASSUME NEW q \in UserPools, ~Live(q), AllLate(q)
      PROVE AllLate(q)'
  BY <1>5, <1>8 DEF AllLate
<1>9. Trimmed'
  <2> SUFFICES ASSUME "mark" \notin failures
               PROVE  /\ \A q \in UserPools \ in_use : AllLate(q)'
                      /\ worker = "trim" =>
                            \A q \in (Victims \cap to_delete)' :
                               \A e \in keys'[q] : e.late \/ e \in found[q]
                      /\ worker = "clear" => \A q \in Cleared' : AllLate(q)'
    BY <1>2 DEF Trimmed, AllLate
  <2>1. \A q \in UserPools \ in_use : AllLate(q)'
    BY <1>2, <1>8 DEF Inv, Trimmed, Live
  <2>2. Victims' = Victims /\ Cleared' = Cleared
    BY <1>2 DEF Victims, Cleared
  <2>3. worker # "wait" => \A q \in to_delete : q \in UserPools /\ ~Live(q)
    BY DEF Inv, InDeletion, Live
  <2>4. worker = "trim" => \A q \in Victims \cap to_delete : \A e \in keys'[q] :
                                e.late \/ e \in found[q]
    BY <1>5, <2>3 DEF Inv, Trimmed
  <2>5. worker = "clear" => \A q \in Cleared : AllLate(q)'
    <3>1. ASSUME worker = "clear" PROVE Cleared \subseteq to_delete
      <4>1. to_delete # {} /\ to_delete \in SUBSET Nat
        BY <3>1, PoolsFacts DEF Inv, InDeletion, TypeOK
      <4> QED
        BY <4>1, LeastIsIn DEF Cleared
    <3> QED
      BY <1>8, <2>3, <3>1 DEF Inv, Trimmed
  <2> QED
    BY <1>2, <2>1, <2>2, <2>4, <2>5
<1>10. FreedPoolsEmpty'
  <2>1. UserPools \cap in_use \subseteq disk.in_use
    BY <1>2, PoolsFacts DEF Inv, Durable
  <2> QED
    BY <1>2, <1>8, <2>1 DEF Inv, FreedPoolsEmpty, Live, AllLate
<1> QED
  BY <1>1, <1>6, <1>7, <1>9, <1>10, UntouchedInv DEF Working

LEMMA WorkerStartInv ==
    ASSUME Inv, TypeOK', WorkerStart
    PROVE  Inv'
<1>1. Untouched
  BY DEF WorkerStart, Untouched, history
<1>2. /\ store = "up" /\ store' = store /\ disk' = disk /\ total' = total /\ keys' = keys
      /\ in_use' = in_use /\ deleted' = deleted /\ tags' = tags /\ failures' = failures
      /\ pc' = pc /\ arg' = arg /\ worker' = "scan" /\ to_delete' = deleted
  BY DEF WorkerStart, Unlocked, memory, callers, history
<1>3. deleted # {}
  BY DEF WorkerStart, bitmap_ffs
<1>4. Quiet' /\ Blank' /\ TagErased'
  BY <1>2 DEF Inv, Quiet, Blank, TagErased
<1>5. InDeletion'
  BY <1>2, <1>3 DEF Inv, InDeletion
<1>6. Trimmed' /\ FreedPoolsEmpty'
  BY <1>2 DEF Inv, Trimmed, FreedPoolsEmpty, AllLate
<1> QED
  BY <1>1, <1>4, <1>5, <1>6, UntouchedInv DEF Working

\* All keys of the pools scanned are found.
LEMMA WorkerScanInv ==
    ASSUME Inv, TypeOK', WorkerScan
    PROVE  Inv'
<1>1. Untouched
  BY DEF WorkerScan, Untouched, history
<1>2. /\ store = "up" /\ store' = store /\ disk' = disk /\ total' = total /\ keys' = keys
      /\ in_use' = in_use /\ deleted' = deleted /\ tags' = tags /\ failures' = failures
      /\ pc' = pc /\ arg' = arg /\ worker = "scan" /\ worker' = "trim"
      /\ to_delete' = to_delete /\ delete_all' = delete_all
      /\ found' = [p \in Pools |-> IF p \in Scanned THEN keys[p] ELSE {}]
  BY DEF WorkerScan, memory, callers, history
<1>3. Quiet' /\ Blank' /\ TagErased' /\ InDeletion'
  BY <1>2 DEF Inv, Quiet, Blank, TagErased, InDeletion
<1>4. \A p \in Victims' \cap to_delete : found'[p] = keys[p]
  BY <1>2, PoolsFacts DEF Inv, TypeOK, Victims, Scanned
<1>5. Trimmed' /\ FreedPoolsEmpty'
  BY <1>2, <1>4 DEF Inv, Trimmed, FreedPoolsEmpty, AllLate
<1> QED
  BY <1>1, <1>3, <1>5, UntouchedInv DEF Working

\* The pools whose bits are cleared next were all trimmed.
LEMMA WorkerTrimInv ==
    ASSUME Inv, TypeOK', WorkerTrim
    PROVE  Inv'
<1>1. Untouched
  BY DEF WorkerTrim, Untouched, history
<1>2. /\ store = "up" /\ store' = store /\ disk' = disk /\ total' = total
      /\ in_use' = in_use /\ deleted' = deleted /\ tags' = tags /\ failures' = failures
      /\ pc' = pc /\ arg' = arg /\ worker = "trim" /\ worker' \in {"wait", "clear"}
      /\ to_delete' = to_delete /\ delete_all' = delete_all
      /\ keys' = [p \in Pools |-> IF p \in Victims THEN keys[p] \ found[p] ELSE keys[p]]
  BY DEF WorkerTrim, memory, callers, history
<1>3. Quiet' /\ Blank' /\ TagErased' /\ InDeletion'
  BY <1>2 DEF Inv, Quiet, Blank, TagErased, InDeletion
<1>4. \A p \in Pools : keys'[p] \subseteq keys[p]
  BY <1>2
<1>5. Cleared \subseteq Victims \cap to_delete
  <2>1. to_delete # {} /\ to_delete \in SUBSET Nat /\ to_delete \subseteq UserPools
    BY <1>2, PoolsFacts DEF Inv, InDeletion, TypeOK
  <2> QED
    BY <2>1, LeastIsIn DEF Cleared, Victims
<1>6. "mark" \notin failures => \A p \in Cleared : AllLate(p)'
  BY <1>2, <1>5, PoolsFacts DEF Inv, TypeOK, Trimmed, AllLate
<1>7. Cleared' = Cleared
  BY <1>2 DEF Cleared
<1>8. Trimmed'
  BY <1>2, <1>4, <1>6, <1>7, PoolsFacts DEF Inv, Trimmed, AllLate
<1>9. FreedPoolsEmpty'
  BY <1>2, <1>4, PoolsFacts DEF Inv, FreedPoolsEmpty
<1> QED
  BY <1>1, <1>3, <1>8, <1>9, UntouchedInv DEF Working

LEMMA WorkerErrorInv ==
    ASSUME Inv, TypeOK', WorkerError
    PROVE  Inv'
<1>1. Untouched
  BY DEF WorkerError, Untouched, Fail
<1>2. /\ store = "up" /\ store' = store /\ disk' = disk /\ total' = total /\ keys' = keys
      /\ in_use' = in_use /\ deleted' = deleted /\ tags' = tags
      /\ failures \subseteq failures'
      /\ pc' = pc /\ arg' = arg /\ worker' = "wait"
  BY DEF WorkerError, memory, callers, Fail
<1>3. Quiet' /\ Blank' /\ TagErased' /\ InDeletion'
  BY <1>2 DEF Inv, Quiet, Blank, TagErased, InDeletion
<1>4. Trimmed' /\ FreedPoolsEmpty'
  BY <1>2 DEF Inv, Trimmed, FreedPoolsEmpty, AllLate
<1> QED
  BY <1>1, <1>3, <1>4, UntouchedInv DEF Working

\* The pool created is new to every part of the invariant.
LEMMA CreateInv ==
    ASSUME Inv, TypeOK', NEW g \in Tags \cup {NoTag}, Create(g)
    PROVE  Inv'
<1>1. PICK p \in Pools \ in_use : p = bitmap_ffa(in_use)
  BY FoundIsFree DEF Create, Inv, TypeOK
<1>2. /\ store = "up" /\ store' = store /\ ~leaked /\ leaked' = leaked /\ keys' = keys
      /\ deleted' = deleted /\ pc' = pc /\ arg' = arg /\ worker' = worker
      /\ to_delete' = to_delete /\ delete_all' = delete_all /\ found' = found
      /\ tags' = [tags EXCEPT ![p] = g] /\ tags_map' = Tagged(tags_map, g, p) /\ ~Known(g)
  BY <1>1 DEF Create, Unlocked, callers, deletion
<1>3. \/ /\ in_use' = in_use \cup {p} /\ total' = total + 1 /\ failures' = failures
         /\ disk' = persist_store_info({"metadata", "in_use", "tags"})
      \/ /\ in_use' = (IF p = 0 THEN in_use \cup {0} ELSE in_use)
         /\ total' = total /\ disk' = disk
         /\ failures' = failures \cup {"create"}
  BY <1>1 DEF Create, Fail
<1>4. \/ /\ in_use' = in_use \cup {p} /\ total' = total + 1 /\ failures' = failures
         /\ disk'.in_use = in_use' /\ disk'.total = total' /\ disk'.tags = tags'
         /\ disk'.stamp = disk.stamp /\ disk'.deleted = disk.deleted
      \/ /\ p # 0 /\ in_use' = in_use /\ total' = total /\ disk' = disk
         /\ failures' = failures \cup {"create"}
      \/ /\ p = 0 /\ in_use' = in_use \cup {0} /\ total' = total /\ disk' = disk
         /\ failures' = failures \cup {"create"} /\ "format" \in failures
  <2>2. p = 0 => "format" \in failures
    BY <1>1, <1>2 DEF Inv, CountExact
  <2>1. CASE /\ in_use' = in_use \cup {p} /\ total' = total + 1 /\ failures' = failures
             /\ disk' = persist_store_info({"metadata", "in_use", "tags"})
    BY <1>3, <2>1, Persisted DEF Inv, TypeOK
  <2> QED
    BY <1>3, <2>1, <2>2
<1>5. /\ \A q \in Pools : q # p => tags'[q] = tags[q]
      /\ tags'[p] = g
      /\ \A h \in Tags : h # g => tags_map'[h] = tags_map[h]
      /\ g \in Tags => tags_map'[g] = p /\ tags_map[g] = NoPool
  BY <1>1, <1>2, PoolsFacts DEF Inv, TypeOK, Tagged, Known
<1>6. Quiet' /\ Blank'
  BY <1>2, <1>4, Zenon DEF Inv, Quiet, Blank
<1>7. InDeletion'
  BY <1>2, <1>4 DEF Inv, InDeletion
<1>8. TagErased'
  BY <1>1, <1>2, <1>5, PoolsFacts DEF Inv, TypeOK, InDeletion, TagErased
<1>9. Durable'
  <2>1. CASE /\ p # 0 /\ in_use' = in_use /\ total' = total /\ disk' = disk
             /\ failures' = failures \cup {"create"}
    BY <1>1, <1>2, <1>5, <2>1, PoolsFacts DEF Inv, Durable, Live
  <2>3. CASE /\ p = 0 /\ in_use' = in_use \cup {0} /\ total' = total /\ disk' = disk
             /\ failures' = failures \cup {"create"} /\ "format" \in failures
    BY <1>1, <1>2, <1>5, <2>3, PoolsFacts DEF Inv, Durable, Live
  <2>2. CASE /\ in_use' = in_use \cup {p} /\ failures' = failures
             /\ disk'.in_use = in_use' /\ disk'.total = total' /\ disk'.tags = tags'
             /\ disk'.deleted = disk.deleted
    BY <1>2, <2>2 DEF Inv, Durable
  <2> QED
    BY <1>4, <2>1, <2>2, <2>3
<1>10. CanRestore'
  BY <1>2, <1>4 DEF Inv, CanRestore, Durable
<1>11. DiskCount' /\ CountExact'
  <2>1. Cardinality(in_use \cup {p}) = Cardinality(in_use) + 1
    BY <1>1, PoolsFacts, FS_Subset, FS_AddElement DEF Inv, TypeOK
  <2> QED
    BY <1>2, <1>4, <2>1 DEF Inv, DiskCount, CountExact
<1>12. TagsExact'
  <2> SUFFICES ASSUME failures' \cap {"create", "mark", "clear"} = {}
               PROVE  TagsExact'
    BY DEF TagsExact
  <2>1. /\ in_use' = in_use \cup {p}
        /\ \A h \in Tags : tags_map[h] # NoPool => Live(tags_map[h]) /\ tags[tags_map[h]] = h
        /\ \A q \in UserPools : Live(q) /\ tags[q] # NoTag => tags_map[tags[q]] = q
    BY <1>2, <1>4 DEF Inv, TagsExact
  <2>2. Live(p)' /\ \A q \in Pools : q # p => (Live(q)' <=> Live(q))
    BY <1>1, <1>2, <2>1 DEF Live, Inv, InDeletion
  <2>3. ASSUME NEW h \in Tags, tags_map'[h] # NoPool
        PROVE  Live(tags_map[h])' /\ tags'[tags_map'[h]] = h
    <3>1. CASE h = g
      BY <1>5, <2>2, <3>1 DEF Live
    <3>2. CASE h # g
      <4>1. tags_map'[h] = tags_map[h] /\ Live(tags_map[h]) /\ tags[tags_map[h]] = h
        BY <1>5, <2>1, <2>3, <3>2
      <4>2. tags_map[h] \in Pools /\ tags_map[h] # p
        BY <1>1, <4>1 DEF Live, Inv, TypeOK
      <4> QED
        BY <1>5, <2>2, <4>1, <4>2 DEF Live
    <3> QED
      BY <3>1, <3>2
  <2>4. ASSUME NEW q \in UserPools, Live(q)', tags'[q] # NoTag
        PROVE  tags_map'[tags'[q]] = q
    <3>1. CASE q = p
      BY <1>5, <2>4, <3>1
    <3>2. CASE q # p
      <4>1. Live(q) /\ tags'[q] = tags[q] /\ tags_map[tags[q]] = q /\ tags[q] \in Tags
        BY <1>5, <2>1, <2>2, <2>4, <3>2, PoolsFacts DEF Inv, TypeOK
      <4>2. tags[q] # g
        BY <1>5, <4>1, PoolsFacts
      <4> QED
        BY <1>5, <4>1, <4>2
    <3> QED
      BY <3>1, <3>2
  <2> QED
    BY <2>3, <2>4 DEF TagsExact
<1>13. DiskTags'
  <2>1. CASE disk' = disk /\ failures \subseteq failures'
    BY <2>1 DEF Inv, DiskTags
  <2>2. CASE disk'.in_use = in_use' /\ disk'.tags = tags' /\ failures' = failures
    BY <1>2, <1>4, <1>9, <1>12, <2>2 DEF Inv, DiskTags, Durable, TagsExact, Live
  <2> QED
    BY <1>4, <2>1, <2>2
<1>14. Trimmed'
  BY <1>2, <1>4 DEF Inv, Trimmed, AllLate, Victims, Cleared
<1>15. FreedPoolsEmpty'
  BY <1>2, <1>4, <1>14 DEF Inv, Trimmed, FreedPoolsEmpty, AllLate
<1> QED
  BY <1>6, <1>7, <1>8, <1>9, <1>10, <1>11, <1>12, <1>13, <1>14, <1>15 DEF Inv

\* Pools are only marked, and marks are only taken back, where pools are in use.
LEMMA DeleteMarkInv ==
    ASSUME Inv, TypeOK', NEW t \in Threads, DeleteMark(t)
    PROVE  Inv'
<1>1. PICK S \in SUBSET (in_use \cap UserPools) : S = Marked(arg[t])
  <2>1. arg[t] # 0 /\ arg[t] \in Pools \cup {All}
    BY DEF DeleteMark, Inv, InDeletion, TypeOK
  <2> QED
    BY <2>1, PoolsFacts DEF Marked
<1>2. /\ store = "up" /\ store' = store /\ ~leaked /\ leaked' = leaked /\ keys' = keys
      /\ in_use' = in_use /\ total' = total /\ worker' = worker /\ pc[t] = "delete"
      /\ to_delete' = to_delete /\ delete_all' = delete_all /\ found' = found
      /\ pc' = [pc EXCEPT ![t] = "idle"] /\ arg' = [arg EXCEPT ![t] = 0]
      /\ tags' = [p \in Pools |-> IF p \in S THEN NoTag ELSE tags[p]]
      /\ tags_map' = Untagged(tags_map, S)
  BY <1>1 DEF DeleteMark, Unlocked, Return, deletion
<1>3. \/ deleted' = deleted \cup S /\ disk' = persist_store_info({"deleted"}) /\ failures' = failures
      \/ deleted' = deleted \ S /\ disk' = disk /\ failures' = failures \cup {"mark"}
  BY <1>1 DEF DeleteMark, Fail
<1>4. \/ /\ deleted' = deleted \cup S /\ failures' = failures
         /\ disk'.in_use = disk.in_use /\ disk'.total = disk.total /\ disk'.tags = disk.tags
         /\ disk'.stamp = disk.stamp /\ disk'.deleted = deleted'
      \/ deleted' = deleted \ S /\ disk' = disk /\ failures' = failures \cup {"mark"}
  <2>1. CASE disk' = persist_store_info({"deleted"})
    BY <1>2, <1>3, <2>1, Persisted DEF Inv, TypeOK
  <2> QED
    BY <1>3, <2>1
<1>5. \A p \in Pools : tags'[p] = IF p \in S THEN NoTag ELSE tags[p]
  BY <1>2
<1>6. Quiet' /\ Blank'
  BY <1>2, <1>4, Zenon DEF Inv, Quiet, Blank
<1>7. InDeletion'
  <2>1. deleted' \subseteq in_use \cap UserPools /\ 0 \notin disk'.deleted
    BY <1>4, PoolsFacts DEF Inv, InDeletion
  <2>2. \A u \in Threads : pc'[u] = "delete" => arg'[u] # 0
    BY <1>2 DEF Inv, TypeOK, InDeletion
  <2>3. worker # "wait" /\ "mark" \notin failures' => to_delete \subseteq deleted'
    BY <1>4 DEF Inv, InDeletion
  <2>4. worker # "wait" => to_delete # {} /\ to_delete \subseteq in_use \cap UserPools
    BY DEF Inv, InDeletion
  <2> QED
    BY <1>2, <2>1, <2>2, <2>3, <2>4 DEF InDeletion
<1>8. TagErased'
  <2> SUFFICES ASSUME NEW u \in Threads, pc'[u] = "delete", arg'[u] \in deleted'
               PROVE  tags'[arg'[u]] = NoTag
    BY DEF TagErased
  <2>1. u # t /\ pc[u] = "delete" /\ arg'[u] = arg[u]
    BY <1>2 DEF Inv, TypeOK
  <2>2. arg[u] \in Pools
    BY <2>1 DEF TypeOK
  <2>3. arg[u] \in deleted \/ arg[u] \in S
    BY <1>4, <2>1
  <2>4. arg[u] \in deleted => tags[arg[u]] = NoTag
    BY <2>1 DEF Inv, TagErased
  <2> QED
    BY <1>5, <2>1, <2>2, <2>3, <2>4
<1>9. Durable'
  <2>1. CASE "mark" \in failures'
    BY <1>2, <1>4, <2>1 DEF Inv, Durable
  <2>2. CASE /\ deleted' = deleted \cup S /\ failures' = failures /\ disk'.deleted = deleted'
             /\ disk'.in_use = disk.in_use /\ disk'.total = disk.total /\ disk'.tags = disk.tags
    BY <1>2, <1>5, <2>2, PoolsFacts DEF Inv, Durable, Live
  <2> QED
    BY <1>4, <2>1, <2>2
<1>10. CanRestore'
  BY <1>2, <1>4, PoolsFacts DEF Inv, CanRestore, Durable, InDeletion
<1>11. DiskCount' /\ CountExact'
  BY <1>2, <1>4 DEF Inv, DiskCount, CountExact
<1>12. TagsExact'
  <2> SUFFICES ASSUME failures' \cap {"create", "mark", "clear"} = {}
               PROVE  TagsExact'
    BY DEF TagsExact
  <2>1. /\ deleted' = deleted \cup S
        /\ \A h \in Tags : tags_map[h] # NoPool => Live(tags_map[h]) /\ tags[tags_map[h]] = h
        /\ \A q \in UserPools : Live(q) /\ tags[q] # NoTag => tags_map[tags[q]] = q
    BY <1>2, <1>4 DEF Inv, TagsExact
  <2>2. \A q \in Pools : Live(q)' <=> Live(q) /\ q \notin S
    BY <1>2, <2>1 DEF Live
  <2>3. \A h \in Tags : tags_map'[h] = IF \E p \in S : tags[p] = h THEN NoPool ELSE tags_map[h]
    BY <1>2 DEF Untagged
  <2>4. ASSUME NEW h \in Tags, tags_map'[h] # NoPool
        PROVE  Live(tags_map[h])' /\ tags'[tags_map'[h]] = h
    <3>1. tags_map'[h] = tags_map[h] /\ \A p \in S : tags[p] # h
      BY <2>3, <2>4
    <3>2. tags_map[h] \in Pools /\ Live(tags_map[h]) /\ tags[tags_map[h]] = h
      BY <2>1, <2>4, <3>1 DEF Inv, TypeOK
    <3>3. tags_map[h] \notin S
      BY <3>1, <3>2
    <3> QED
      BY <1>2, <1>5, <2>1, <3>1, <3>2, <3>3 DEF Live
  <2>5. ASSUME NEW q \in UserPools, Live(q)', tags'[q] # NoTag
        PROVE  tags_map'[tags'[q]] = q
    <3>1. q \in Pools /\ q \notin S /\ Live(q) /\ tags'[q] = tags[q] /\ tags[q] \in Tags
      BY <1>5, <2>2, <2>5, PoolsFacts DEF Inv, TypeOK
    <3>2. tags_map[tags[q]] = q
      BY <2>1, <2>5, <3>1
    <3>3. ASSUME NEW p \in S PROVE tags[p] # tags[q]
      <4>1. CASE Live(p)
        <5>1. p \in UserPools /\ p # q
          BY <3>1
        <5>2. tags[p] # NoTag => tags_map[tags[p]] = p
          BY <2>1, <4>1, <5>1
        <5>3. tags[q] # NoTag
          BY <3>1, PoolsFacts
        <5> QED
          BY <3>2, <5>1, <5>2, <5>3
      <4>2. CASE ~Live(p)
        <5>1. p \in deleted
          BY <4>2 DEF Live
        <5>2. arg[t] # All
          BY <1>1, <3>1 DEF Marked, Live
        <5>3. p = arg[t]
          BY <1>1, <5>2 DEF Marked
        <5>4. tags[p] = NoTag
          BY <1>2, <5>1, <5>3 DEF Inv, TagErased
        <5> QED
          BY <3>1, <5>4, PoolsFacts
      <4> QED
        BY <4>1, <4>2
    <3> QED
      BY <2>3, <3>1, <3>2, <3>3
  <2> QED
    BY <2>4, <2>5 DEF TagsExact
<1>13. DiskTags'
  <2>1. CASE "mark" \in failures'
    BY <2>1 DEF DiskTags
  <2>2. CASE failures' = failures
    BY <1>2, <1>9, <1>12, <2>2 DEF Inv, DiskTags, Durable, TagsExact, Live
  <2> QED
    BY <1>4, <2>1, <2>2
<1>14. Trimmed' /\ FreedPoolsEmpty'
  BY <1>2, <1>4 DEF Inv, Trimmed, FreedPoolsEmpty, AllLate, Victims, Cleared
<1> QED
  BY <1>6, <1>7, <1>8, <1>9, <1>10, <1>11, <1>12, <1>13, <1>14 DEF Inv

\* The bits of pools that were trimmed are cleared, and no others.
LEMMA WorkerClearInv ==
    ASSUME Inv, TypeOK', WorkerClear
    PROVE  Inv'
<1>1. PICK C \in SUBSET (in_use \cap UserPools) : C = Cleared /\ C \subseteq to_delete
  <2>1. to_delete # {} /\ to_delete \in SUBSET Nat /\ to_delete \subseteq in_use \cap UserPools
    BY PoolsFacts DEF WorkerClear, Inv, InDeletion, TypeOK
  <2> QED
    BY <2>1, LeastIsIn DEF Cleared
<1>2. /\ store = "up" /\ store' = store /\ ~leaked /\ worker = "clear"
      /\ tags' = tags /\ tags_map' = tags_map /\ keys' = keys /\ pc' = pc /\ arg' = arg
      /\ deleted' = deleted \ C /\ in_use' = in_use \ C /\ total' = total - Cardinality(C)
  BY <1>1 DEF WorkerClear, Unlocked, callers
<1>3. \/ /\ disk' = persist_store_info({"metadata", "deleted", "in_use"})
         /\ to_delete' = to_delete \ C /\ worker' = IF to_delete' = {} THEN "wait" ELSE "scan"
         /\ leaked' = leaked /\ failures' = failures
      \/ /\ failures' = failures \cup {IF delete_all THEN "clearAll" ELSE "clear"}
         /\ worker' = "wait" /\ (leaked' <=> delete_all) /\ disk' = disk
  BY <1>1 DEF WorkerClear, Fail
<1>4. \/ /\ disk'.in_use = in_use' /\ disk'.deleted = deleted' /\ disk'.total = total'
         /\ disk'.tags = disk.tags /\ disk'.stamp = disk.stamp
         /\ to_delete' = to_delete \ C /\ worker' = IF to_delete' = {} THEN "wait" ELSE "scan"
         /\ leaked' = leaked /\ failures' = failures
      \/ /\ failures' = failures \cup {IF delete_all THEN "clearAll" ELSE "clear"}
         /\ worker' = "wait" /\ (leaked' <=> delete_all) /\ disk' = disk
  <2>1. CASE disk' = persist_store_info({"metadata", "deleted", "in_use"})
    BY <1>2, <1>3, <2>1, Persisted DEF Inv, TypeOK
  <2> QED
    BY <1>3, <2>1
<1>5. \/ /\ disk'.in_use = in_use' /\ disk'.deleted = deleted' /\ disk'.total = total'
         /\ disk'.tags = disk.tags /\ ~leaked' /\ failures' = failures
      \/ disk' = disk /\ leaked' /\ failures' = failures \cup {"clearAll"}
      \/ disk' = disk /\ ~leaked' /\ failures' = failures \cup {"clear"}
  BY <1>2, <1>4, Zenon
<1>6. Quiet' /\ Blank'
  BY <1>2, <1>4, Zenon DEF Inv, Quiet, Blank
<1>7. InDeletion'
  <2>1. deleted' \subseteq in_use' \cap UserPools
    BY <1>2 DEF Inv, InDeletion
  <2>2. 0 \notin disk'.deleted
    BY <1>4, <2>1, PoolsFacts DEF Inv, InDeletion
  <2>3. worker' # "wait" => /\ to_delete' # {} /\ to_delete' = to_delete \ C
                            /\ failures' = failures
    BY <1>4
  <2>4. to_delete \subseteq in_use \cap UserPools /\ ("mark" \notin failures => to_delete \subseteq deleted)
    BY <1>2 DEF Inv, InDeletion
  <2>5. \A u \in Threads : pc'[u] = "delete" => arg'[u] # 0
    BY <1>2 DEF Inv, InDeletion
  <2> QED
    BY <1>2, <2>1, <2>2, <2>3, <2>4, <2>5 DEF InDeletion
<1>8. TagErased'
  BY <1>2 DEF Inv, TagErased
<1>9. Durable'
  <2>1. CASE disk' = disk /\ leaked' /\ failures' = failures \cup {"clearAll"}
    BY <1>2, <2>1 DEF Inv, Durable
  <2>3. CASE disk' = disk /\ ~leaked' /\ failures' = failures \cup {"clear"}
    BY <1>2, <2>3 DEF Inv, Durable
  <2>2. CASE /\ disk'.in_use = in_use' /\ disk'.deleted = deleted' /\ disk'.total = total'
             /\ disk'.tags = disk.tags /\ ~leaked' /\ failures' = failures
    <3>1. \A p \in UserPools : Live(p)' => Live(p) \/ p \in C
      BY <1>2 DEF Live
    <3>2. \A p \in UserPools : Live(p)' => Live(p)
      BY <1>2, <3>1 DEF Live
    <3> QED
      BY <1>2, <2>2, <3>2 DEF Inv, Durable
  <2> QED
    BY <1>5, <2>1, <2>2, <2>3
<1>10. CanRestore'
  BY <1>5, <1>7 DEF Inv, CanRestore, InDeletion
<1>11. DiskCount' /\ CountExact'
  <2>1. Cardinality(in_use \ C) = Cardinality(in_use) - Cardinality(C)
    <3>1. IsFiniteSet(in_use) /\ in_use \cap C = C
      BY PoolsFacts, FS_Subset DEF Inv, TypeOK
    <3> QED
      BY <3>1, FS_Difference
  <2>2. 0 \notin C
    BY PoolsFacts
  <2> QED
    BY <1>2, <1>5, <2>1, <2>2 DEF Inv, DiskCount, CountExact
<1>12. TagsExact'
  <2> SUFFICES ASSUME failures' \cap {"create", "mark", "clear"} = {}
               PROVE  TagsExact'
    BY DEF TagsExact
  <2>1. /\ \A h \in Tags : tags_map[h] # NoPool => Live(tags_map[h]) /\ tags[tags_map[h]] = h
        /\ \A q \in UserPools : Live(q) /\ tags[q] # NoTag => tags_map[tags[q]] = q
    BY <1>2, <1>5 DEF Inv, TagsExact
  <2>2. C \subseteq deleted
    BY <1>1, <1>2, <1>5 DEF Inv, InDeletion
  <2>3. \A q \in Pools : Live(q)' <=> Live(q)
    BY <1>2, <2>2 DEF Live
  <2>4. \A h \in Tags : tags_map[h] # NoPool => tags_map[h] \in Pools
    BY DEF Inv, TypeOK
  <2>5. \A h \in Tags : tags_map[h] # NoPool => (tags_map[h] \in in_use' /\ tags_map[h] \notin deleted')
    BY <2>1, <2>3, <2>4 DEF Live
  <2>6. \A q \in UserPools : Live(q)' => Live(q)
    BY <2>3, PoolsFacts
  <2> QED
    BY <1>2, <2>1, <2>5, <2>6 DEF TagsExact, Live
<1>13. DiskTags'
  <2>1. CASE disk' = disk /\ failures \subseteq failures'
    BY <2>1 DEF Inv, DiskTags
  <2>2. CASE ~leaked' /\ failures' = failures /\ disk'.in_use = in_use' /\ disk'.deleted = deleted'
    BY <1>2, <1>9, <1>12, <2>2 DEF Inv, DiskTags, Durable, TagsExact, Live
  <2> QED
    BY <1>5, <2>1, <2>2
<1>14. Trimmed'
  <2>1. worker' \in {"wait", "scan"}
    BY <1>4
  <2>2. "mark" \notin failures' => \A p \in UserPools \ in_use' : AllLate(p)
    BY <1>1, <1>2, <1>5 DEF Inv, Trimmed
  <2> QED
    BY <1>2, <2>1, <2>2 DEF Trimmed, AllLate
<1>15. FreedPoolsEmpty'
  <2>1. UserPools \cap in_use' \subseteq disk'.in_use
    BY <1>2, <1>9, PoolsFacts DEF Durable
  <2> QED
    BY <1>2, <1>14, <2>1 DEF Trimmed, FreedPoolsEmpty, AllLate
<1> QED
  BY <1>6, <1>7, <1>8, <1>9, <1>10, <1>11, <1>12, <1>13, <1>14, <1>15 DEF Inv

LEMMA OpenNewInv ==
    ASSUME Inv, TypeOK', OpenNew
    PROVE  Inv'
<1>1. /\ store = "down" /\ store' = "format" /\ total' = 1 /\ ~disk.stamp
      /\ in_use' = in_use /\ deleted' = deleted /\ tags' = tags /\ tags_map' = tags_map
      /\ leaked' = leaked /\ keys' = keys /\ pc' = pc /\ arg' = arg /\ worker' = worker
      /\ to_delete' = to_delete /\ failures' = failures
  BY DEF OpenNew, callers, deletion, history
<1>2. /\ disk'.stamp /\ disk'.total = 1 /\ disk'.in_use = disk.in_use
      /\ disk'.deleted = disk.deleted /\ disk'.tags = disk.tags
  BY DEF OpenNew, Inv, TypeOK, Disk
<1>3. worker = "wait" /\ ~leaked
  BY <1>1 DEF Inv, Quiet
<1>4. Quiet' /\ Blank'
  BY <1>1, <1>2 DEF Inv, Quiet, Blank
<1>5. InDeletion' /\ TagErased' /\ CanRestore' /\ DiskTags'
  BY <1>1, <1>2 DEF Inv, InDeletion, TagErased, CanRestore, DiskTags
<1>6. Durable' /\ DiskCount' /\ CountExact' /\ TagsExact'
  BY <1>1, <1>3 DEF Durable, DiskCount, CountExact, TagsExact
<1>7. Trimmed' /\ FreedPoolsEmpty'
  BY <1>1, <1>2, <1>3 DEF Inv, Trimmed, FreedPoolsEmpty
<1> QED
  BY <1>4, <1>5, <1>6, <1>7 DEF Inv

LEMMA OpenFormatInv ==
    ASSUME Inv, TypeOK', OpenFormat
    PROVE  Inv'
<1>1. /\ store = "format" /\ store' = "up" /\ total' = total /\ in_use' = {0} /\ deleted' = {}
      /\ tags' = tags /\ tags_map' = tags_map /\ leaked' = leaked /\ keys' = keys
      /\ pc' = pc /\ arg' = arg /\ worker' = worker /\ failures' = failures
      /\ disk' = persist_store_info({"in_use", "deleted", "tags"})
  BY DEF OpenFormat, callers, deletion, history
<1>2. /\ disk'.in_use = {0} /\ disk'.deleted = {} /\ disk'.tags = tags
      /\ disk'.stamp = disk.stamp /\ disk'.total = disk.total
  BY <1>1, PoolsFacts, Persisted DEF Inv, TypeOK
<1>3. /\ disk.stamp /\ total = 1 /\ disk.total = 1 /\ keys = NoKeys
      /\ tags_map = EmptyMap /\ worker = "wait" /\ ~leaked
      /\ pc = [t \in Threads |-> "idle"]
  BY <1>1 DEF Inv, Blank, Quiet
<1>4. Quiet' /\ Blank'
  BY <1>1, <1>2, <1>3 DEF Quiet, Blank
<1>5. InDeletion' /\ TagErased' /\ CanRestore'
  BY <1>1, <1>2, <1>3 DEF InDeletion, TagErased, CanRestore
<1>6. DiskTags' /\ Durable'
  BY <1>1, <1>2, <1>3, PoolsFacts DEF DiskTags, Durable
<1>7. DiskCount' /\ CountExact'
  BY <1>1, <1>2, <1>3, FS_Singleton DEF DiskCount, CountExact
<1>8. TagsExact'
  BY <1>1, <1>3, PoolsFacts DEF TagsExact, EmptyMap, Live
<1>9. Trimmed' /\ FreedPoolsEmpty'
  BY <1>1, <1>3, PoolsFacts DEF Trimmed, FreedPoolsEmpty, AllLate, NoKeys
<1> QED
  BY <1>4, <1>5, <1>6, <1>7, <1>8, <1>9 DEF Inv

\* What was true of the device is true of memory again.
LEMMA OpenRestoreInv ==
    ASSUME Inv, TypeOK', OpenRestore
    PROVE  Inv'
<1> DEFINE owners(g) == {p \in UserPools : Live(p)' /\ disk.tags[p] = g}
<1>1. /\ store = "down" /\ store' = "up" /\ disk.stamp /\ disk' = disk
      /\ in_use' = disk.in_use /\ deleted' = disk.deleted /\ total' = disk.total
      /\ tags' = disk.tags /\ leaked' = leaked /\ keys' = keys
      /\ disk.deleted \ {0} \subseteq disk.in_use
      /\ pc' = pc /\ arg' = arg /\ worker' = worker /\ failures' = failures
  BY DEF OpenRestore, callers, deletion, history
<1>2. worker = "wait" /\ ~leaked /\ pc = [t \in Threads |-> "idle"]
  BY <1>1 DEF Inv, Quiet
<1>3. Quiet' /\ Blank'
  BY <1>1 DEF Inv, Quiet, Blank
<1>4. InDeletion' /\ TagErased' /\ CanRestore'
  <2>1. deleted' \subseteq in_use' \cap UserPools
    BY <1>1, PoolsFacts DEF Inv, InDeletion, TypeOK, Disk
  <2> QED
    BY <1>1, <1>2, <2>1 DEF Inv, InDeletion, TagErased, CanRestore
<1>5. DiskTags' /\ Durable' /\ DiskCount' /\ CountExact'
  BY <1>1, <1>2 DEF Inv, DiskTags, Durable, DiskCount, CountExact
<1>6. TagsExact'
  <2> SUFFICES ASSUME failures \cap {"create", "mark", "clear"} = {}
               PROVE  TagsExact'
    BY <1>1 DEF TagsExact
  <2>1. tags_map' = [g \in Tags |-> IF owners(g) = {} THEN NoPool ELSE Least(owners(g))]
    BY DEF OpenRestore
  <2>2. ASSUME NEW g \in Tags, owners(g) # {}
        PROVE  Least(owners(g)) \in owners(g)
    <3>1. owners(g) \in SUBSET Nat
      BY PoolsFacts
    <3> QED
      BY <2>2, <3>1, LeastIsIn
  <2>3. ASSUME NEW g \in Tags, NEW p \in owners(g), NEW q \in owners(g)
        PROVE  p = q
    BY <1>1, PoolsFacts DEF Inv, DiskTags, Live
  <2>4. \A g \in Tags : \A p \in owners(g) : p \in in_use' /\ p \notin deleted' /\ tags'[p] = g
    BY <1>1 DEF Live
  <2>5. ASSUME NEW p \in UserPools, Live(p)', tags'[p] # NoTag
        PROVE  tags'[p] \in Tags /\ p \in owners(tags'[p])
    BY <1>1, <2>5, PoolsFacts DEF Inv, TypeOK, Disk
  <2> HIDE DEF owners
  <2>6. ASSUME NEW g \in Tags, tags_map'[g] # NoPool
        PROVE  tags_map'[g] \in owners(g)
    BY <2>1, <2>2, <2>6
  <2>7. ASSUME NEW p \in UserPools, Live(p)', tags'[p] # NoTag
        PROVE  tags_map'[tags'[p]] = p
    BY <2>1, <2>2, <2>3, <2>5, <2>7
  <2> QED
    BY <2>4, <2>6, <2>7 DEF TagsExact, Live
<1>7. Trimmed' /\ FreedPoolsEmpty'
  BY <1>1, <1>2 DEF Inv, Trimmed, FreedPoolsEmpty, AllLate
<1> QED
  BY <1>3, <1>4, <1>5, <1>6, <1>7 DEF Inv

LEMMA CrashInv ==
    ASSUME Inv, TypeOK', Crash
    PROVE  Inv'
<1>1. /\ store # "down" /\ store' = "down" /\ in_use' = {} /\ deleted' = {} /\ ~leaked'
      /\ tags' = NoTags /\ tags_map' = EmptyMap /\ pc' = [t \in Threads |-> "idle"]
      /\ worker' = "wait" /\ disk' = disk /\ keys' = keys /\ failures \subseteq failures'
      /\ store = "format" => "format" \in failures'
  BY DEF Crash, Fail
<1>2. disk.stamp /\ (store = "format" => disk.in_use = {} /\ keys = NoKeys)
  BY <1>1 DEF Inv, Blank, TypeOK
<1>3. Quiet' /\ Blank'
  BY <1>1, <1>2, Zenon DEF Quiet, Blank
<1>4. InDeletion' /\ TagErased'
  BY <1>1 DEF Inv, InDeletion, TagErased
<1>5. CanRestore' /\ DiskTags' /\ DiskCount'
  BY <1>1 DEF Inv, CanRestore, DiskTags, DiskCount
<1>6. Durable' /\ CountExact' /\ TagsExact'
  BY <1>1, Zenon DEF Durable, CountExact, TagsExact
<1>7. Trimmed' /\ FreedPoolsEmpty'
  BY <1>1 DEF Inv, Trimmed, FreedPoolsEmpty
<1> QED
  BY <1>3, <1>4, <1>5, <1>6, <1>7 DEF Inv

LEMMA StutterInv ==
    ASSUME Inv, UNCHANGED vars
    PROVE  Inv'
<1>1. Untouched /\ UNCHANGED <<deletion, keys>>
  BY DEF vars, Untouched, history
<1>2. TypeOK'
  BY TypeStep DEF Inv
<1>3. Quiet' /\ Blank' /\ InDeletion' /\ TagErased'
  BY DEF vars, memory, callers, deletion, history, Inv, Quiet, Blank, InDeletion, TagErased
<1> QED
  BY <1>1, <1>2, <1>3, IdleWorker, UntouchedInv DEF Working

LEMMA InvStep ==
    ASSUME Inv, [Next]_vars
    PROVE  Inv'
<1>1. TypeOK'
  BY TypeStep DEF Inv
<1>2. ASSUME NEW g \in Tags \cup {NoTag}, CreateKnown(g) \/ CreateFull(g) \/ Create(g)
      PROVE  Inv'
  BY <1>1, <1>2, CreateInv, StutterInv DEF CreateKnown, CreateFull
<1>3. ASSUME NEW t \in Threads, NEW p \in UserPools \cup {All}, DeleteCheck(t, p)
      PROVE  Inv'
  BY <1>1, <1>3, DeleteCheckInv
<1>4. ASSUME NEW t \in Threads, DeleteMark(t)
      PROVE  Inv'
  BY <1>1, <1>4, DeleteMarkInv
<1>5. ASSUME NEW t \in Threads, NEW p \in Pools, PutCheck(t, p)
      PROVE  Inv'
  BY <1>1, <1>5, PutCheckInv
<1>6. ASSUME NEW t \in Threads, PutWrite(t)
      PROVE  Inv'
  BY <1>1, <1>6, PutWriteInv
<1>7. CASE Worker \/ WorkerError
  BY <1>1, <1>7, WorkerStartInv, WorkerScanInv, WorkerTrimInv, WorkerClearInv, WorkerErrorInv
     DEF Worker
<1>8. CASE Open
  BY <1>1, <1>8, OpenNewInv, OpenFormatInv, OpenRestoreInv DEF Open
<1>9. CASE Crash
  BY <1>1, <1>9, CrashInv
<1>10. CASE UNCHANGED vars
  BY <1>10, StutterInv
<1> QED
  BY <1>2, <1>3, <1>4, <1>5, <1>6, <1>7, <1>8, <1>9, <1>10 DEF Next

\* The invariant holds in every behaviour, with any number of crashes and
\* failed writes.
THEOREM Invariance == Spec => []Inv
  BY InvInit, InvStep, PTL DEF Spec

-----------------------------------------------------------------------------
\* The count that create_pool checks is the number of bits set, and the id of
\* the default pool is never handed out, as clear_pool_bitmaps takes back what
\* create_pool added.
THEOREM CountExactHolds == Spec => []CountExact
<1>1. Inv => CountExact
  BY DEF Inv
<1> QED
  BY <1>1, Invariance, PTL

\* m_tags_map and m_pPoolTags agree under creation, deletion, reuse and restore.
THEOREM TagsExactHolds == Spec => []TagsExact
<1>1. Inv => TagsExact
  BY DEF Inv
<1> QED
  BY <1>1, Invariance, PTL

\* What create_pool, delete_pool and the deletion thread acted upon is on the
\* device, unless a write of delete_pool or of the deletion thread failed; the
\* bit of the default pool may be missing there when both the creation of the
\* store was interrupted and a write of create_pool failed.
THEOREM CrashSafeHolds == Spec => []CrashSafe
<1>1. Inv => CrashSafe
  BY DEF Inv, Durable, CrashSafe, DeletionsDurable
<1> QED
  BY <1>1, Invariance, PTL

\* restore never finds a pool in deletion that is not in use.
THEOREM CanRestoreHolds == Spec => []CanRestore
<1>1. Inv => CanRestore
  BY DEF Inv
<1> QED
  BY <1>1, Invariance, PTL

\* The deletion thread frees the id of a pool after its keys, through restarts
\* and failed scans.
THEOREM FreedPoolsEmptyHolds == Spec => []FreedPoolsEmpty
<1>1. Inv => FreedPoolsEmpty
  BY DEF Inv
<1> QED
  BY <1>1, Invariance, PTL
=============================================================================
