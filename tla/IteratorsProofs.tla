--------------------------- MODULE IteratorsProofs ---------------------------
(***************************************************************************)
(* Theorems about Iterators, for any number of callers, places, ranges in  *)
(* a batch, LBAs, pools and hashes, whatever is put, trimmed and expires   *)
(* and whichever pools are deleted and created meanwhile.                  *)
(***************************************************************************)
EXTENDS Iterators, FiniteSetTheorems, TLAPS

-----------------------------------------------------------------------------
(***************************************************************************)
(* The order of a batch: Rank numbers the elements of a finite set from 0. *)
(***************************************************************************)
\* A rank is a number below the size of the set.
LEMMA RankType ==
    ASSUME NEW S \in SUBSET Nat, IsFiniteSet(S), NEW s \in S
    PROVE  Rank(s, S) \in 0 .. Cardinality(S) - 1
<1> DEFINE below == {r \in S : r < s}
<1>1. below \in SUBSET S /\ below # S
  OBVIOUS
<1>2. IsFiniteSet(below) /\ Cardinality(below) <= Cardinality(S) /\ Cardinality(below) # Cardinality(S)
  BY <1>1, FS_Subset
<1>3. Cardinality(below) \in Nat /\ Cardinality(S) \in Nat
  BY <1>2, FS_CardinalityType
<1> QED
  BY <1>2, <1>3 DEF Rank

\* The larger of two elements has the larger rank.
LEMMA RankMonotone ==
    ASSUME NEW S \in SUBSET Nat, IsFiniteSet(S), NEW r \in S, NEW s \in S, r < s
    PROVE  Rank(r, S) < Rank(s, S)
<1> DEFINE below(x) == {q \in S : q < x}
<1>1. below(r) \in SUBSET below(s) /\ below(r) # below(s)
  <2>1. r \in below(s) /\ r \notin below(r)
    OBVIOUS
  <2>2. \A q \in S : q < r => q < s
    OBVIOUS
  <2> QED
    BY <2>1, <2>2
<1>2. IsFiniteSet(below(s))
  BY FS_Subset
<1>3. Cardinality(below(r)) <= Cardinality(below(s)) /\ Cardinality(below(r)) # Cardinality(below(s))
  BY <1>1, <1>2, FS_Subset
<1>4. Cardinality(below(r)) \in Nat /\ Cardinality(below(s)) \in Nat
  BY <1>2, FS_Subset, FS_CardinalityType
<1> QED
  BY <1>3, <1>4 DEF Rank

\* Every number below the size is a rank: there are as many ranks as elements.
LEMMA RankOnto ==
    ASSUME NEW S \in SUBSET Nat, IsFiniteSet(S), NEW j \in 0 .. Cardinality(S) - 1
    PROVE  \E s \in S : Rank(s, S) = j
<1> DEFINE n == Cardinality(S)
           ranks == 0 .. n - 1
           rank == [s \in S |-> Rank(s, S)]
<1>1. n \in Nat
  BY FS_CardinalityType
<1>2. rank \in [S -> ranks]
  BY RankType
<1>3. \A r, s \in S : rank[r] = rank[s] => r = s
  <2> SUFFICES ASSUME NEW r \in S, NEW s \in S, r # s PROVE rank[r] # rank[s]
    OBVIOUS
  <2>1. r < s \/ s < r
    OBVIOUS
  <2>2. rank[r] < rank[s] \/ rank[s] < rank[r]
    BY <2>1, RankMonotone
  <2> QED
    BY <1>1, <1>2, <2>2
<1>4. \A s \in S : rank[s] = Rank(s, S)
  OBVIOUS
<1> HIDE DEF rank
<1>5. rank \in Injection(S, ranks)
  BY <1>2, <1>3 DEF Injection, IsInjective
<1>6. IsFiniteSet(ranks) /\ Cardinality(ranks) = n
  BY <1>1, FS_Interval
<1>7. rank \in Surjection(S, ranks)
  BY <1>5, <1>6, FS_Injection
<1>8. j \in ranks
  OBVIOUS
<1> QED
  BY <1>4, <1>7, <1>8 DEF Surjection

\* The numbering that a batch is stored by: its elements, all of them, in order.
Nth(S, j) == CHOOSE s \in S : Rank(s, S) = j

LEMMA NthInOrder ==
    ASSUME NEW S \in SUBSET Nat, IsFiniteSet(S)
    PROVE  /\ \A j \in 0 .. Cardinality(S) - 1 : Nth(S, j) \in S /\ Rank(Nth(S, j), S) = j
           /\ \A j, k \in 0 .. Cardinality(S) - 1 : j < k => Nth(S, j) < Nth(S, k)
           /\ \A s \in S : \E j \in 0 .. Cardinality(S) - 1 : s = Nth(S, j)
<1> DEFINE numbers == 0 .. Cardinality(S) - 1
<1>1. ASSUME NEW j \in numbers PROVE Nth(S, j) \in S /\ Rank(Nth(S, j), S) = j
  BY RankOnto DEF Nth
<1>2. ASSUME NEW r \in S, NEW s \in S, Rank(r, S) < Rank(s, S) PROVE r < s
  <2>1. r < s \/ r = s \/ s < r
    OBVIOUS
  <2>2. Rank(r, S) \in Nat /\ Rank(s, S) \in Nat
    BY RankType
  <2> QED
    BY <1>2, <2>1, <2>2, RankMonotone
<1>3. ASSUME NEW j \in numbers, NEW k \in numbers, j < k PROVE Nth(S, j) < Nth(S, k)
  BY <1>1, <1>2, <1>3
<1>4. ASSUME NEW s \in S PROVE s = Nth(S, Rank(s, S))
  <2> DEFINE n == Nth(S, Rank(s, S))
  <2>1. n \in S /\ Rank(n, S) = Rank(s, S)
    BY <1>1, RankType
  <2> HIDE DEF n
  <2>2. n < s \/ n = s \/ s < n
    BY <2>1
  <2>3. Rank(s, S) \in Nat
    BY RankType
  <2>4. n = s
    BY <2>1, <2>2, <2>3, RankMonotone
  <2> QED
    BY <2>4 DEF n
<1>5. \A s \in S : \E j \in numbers : s = Nth(S, j)
  BY <1>4, RankType
<1> QED
  BY <1>1, <1>3, <1>5

\* A batch is the first n elements of what is ahead, or all there are: it has a last
\* element, and what it leaves is behind that.
LEMMA FirstOnes ==
    ASSUME NEW S \in SUBSET Nat, IsFiniteSet(S), S # {}, NEW n \in Nat \ {0},
           NEW batch, batch = {s \in S : Rank(s, S) < n}
    PROVE  /\ IsFiniteSet(batch)
           /\ Cardinality(batch) \in 1 .. n
           /\ \E last \in batch : /\ \A r \in batch : r <= last
                                  /\ \A s \in S \ batch : last < s
<1>1. batch \in SUBSET Nat /\ IsFiniteSet(batch) /\ Cardinality(batch) \in Nat
  <2>1. batch \in SUBSET S
    OBVIOUS
  <2> QED
    BY <2>1, FS_Subset, FS_CardinalityType
<1>2. Cardinality(S) \in Nat \ {0}
  BY FS_CardinalityType, FS_EmptySet
<1>3. PICK first \in S : Rank(first, S) = 0
  BY <1>2, RankOnto
<1>4. Cardinality(batch) # 0
  BY <1>1, <1>3, FS_EmptySet
<1>5. PICK last \in batch : Rank(last, batch) = Cardinality(batch) - 1
  <2>1. Cardinality(batch) - 1 \in 0 .. Cardinality(batch) - 1
    BY <1>1, <1>4
  <2> QED
    BY <1>1, <2>1, RankOnto
<1>6. ASSUME NEW r \in batch PROVE r <= last
  <2> SUFFICES ASSUME last < r PROVE FALSE
    OBVIOUS
  <2>1. Rank(last, batch) < Rank(r, batch)
    BY <1>1, RankMonotone
  <2>2. Rank(r, batch) \in 0 .. Cardinality(batch) - 1
    BY <1>1, RankType
  <2> QED
    BY <1>1, <1>5, <2>1, <2>2
<1>7. ASSUME NEW s \in S \ batch PROVE last < s
  <2> SUFFICES ASSUME s <= last, s # last PROVE FALSE
    OBVIOUS
  <2>1. Rank(s, S) < Rank(last, S)
    BY RankMonotone
  <2>2. Rank(s, S) \in Nat /\ Rank(last, S) \in Nat
    BY RankType
  <2> QED
    BY <2>1, <2>2
<1>8. Rank(last, batch) = Rank(last, S)
  <2>1. \A r \in S : r < last => r \in batch
    <3> SUFFICES ASSUME NEW r \in S, r < last, r \notin batch PROVE FALSE
      OBVIOUS
    <3>1. last < r
      BY <1>7
    <3>2. r \in Nat /\ last \in Nat
      BY <1>1
    <3> QED
      BY <3>1, <3>2
  <2>2. {r \in batch : r < last} = {r \in S : r < last}
    BY <2>1
  <2> QED
    BY <2>2 DEF Rank
<1> QED
  BY <1>1, <1>4, <1>5, <1>6, <1>7, <1>8
-----------------------------------------------------------------------------
\* Records are at LBAs with the hash of their pool.
HashesMatch == \A s \in Slots : media[s] # NoRec => SlotHash[s] = PoolHash[media[s].pool]

\* A thread inside a call has an iterator, and knows whether its pool is there.
Owns(t) ==
    /\ pc[t] # "idle" => HasIter(t)
    /\ HasIter(t) => Iter(t) # NoIter /\ Iter(t).start > 0
    /\ HasIter(t) /\ ~lost[t] => Valid(t)

\* Where a call has a buffer, and where it believes to have one: they differ when
\* kv_get_current goes round its loop.
Holding(t) ==
    /\ pc[t] = "idle" => ~acquired[t] /\ (buffers[t] = 0 \/ lost[t])
    /\ pc[t] \in {"get_loc", "read"} => api[t] = "current"
    /\ pc[t] = "get_loc" => buffers[t] = 0
    /\ pc[t] = "read" => buffers[t] = 1 /\ acquired[t]
    /\ pc[t] = "free" => api[t] = "begin" /\ phase[t] # "on"
    /\ pc[t] \in {"iterate", "check"} /\ api[t] = "current" => buffers[t] = 1
    /\ pc[t] # "idle" /\ api[t] # "current" => buffers[t] = 0 /\ ~acquired[t]

\* The entries of the batch of an iterator, and the order they are in.
Entries(i) == 0 .. i.num_ranges_found - 1

Sorted(i) ==
    /\ i.num_ranges_found <= MaxRanges
    /\ IF i.num_ranges_found = 0 THEN i.pos = 0 ELSE i.pos < i.num_ranges_found
    /\ \A j \in Entries(i) : i.ranges[j] \in Slots /\ i.ranges[j] < i.start
    /\ \A j, k \in Entries(i) : j < k => i.ranges[j] < i.ranges[k]

\* LBAs that the iterator has yet to come to.
ToCome(t) ==
    {s \in Slots :
        \/ s >= Iter(t).start
        \/ \E j \in Entries(Iter(t)) :
             /\ s = Iter(t).ranges[j]
             /\ j > Iter(t).pos \/ (j = Iter(t).pos /\ pc[t] = "check")}

\* An iterator that has met neither the end nor an error: where it has been is
\* behind it, and the records that were there all the time it has seen or will see.
OnTheWay(t) ==
    HasIter(t) /\ phase[t] = "on" =>
        /\ Sorted(Iter(t))
        /\ stable[t] \subseteq returned[t] \cup ToCome(t)
        /\ returned[t] # {} \/ pc[t] # "iterate" => Iter(t).num_ranges_found > 0
        /\ IF pc[t] = "check" THEN \A s \in returned[t] : s < Here(t)
                              ELSE \A s \in returned[t] : s <= Here(t)
        /\ pc[t] \in {"idle", "get_loc", "read"} =>
             /\ Here(t) \in returned[t]
             /\ ~stale[t] /\ media[Here(t)] # NoRec => media[Here(t)].pool = Iter(t).pool_id

StillThere(t) ==
    HasIter(t) => \A s \in stable[t] : media[s] # NoRec /\ media[s].pool = Iter(t).pool_id

ThreadInv(t) ==
    /\ Owns(t)
    /\ Holding(t)
    /\ OnTheWay(t)
    /\ StillThere(t)
    /\ phase[t] = "ended" => stable[t] \subseteq returned[t]

OwnPlaces == \A t, u \in Threads : HasIter(t) /\ it_id[t] = it_id[u] => t = u

Inv == TypeOK /\ HashesMatch /\ OwnPlaces /\ \A t \in Threads : ThreadInv(t)
-----------------------------------------------------------------------------
\* What is ahead are finitely many LBAs behind the end of the last batch.
LEMMA AheadFinite ==
    ASSUME NEW t \in Threads, Iter(t) \in Iterators, Iter(t).start > 0
    PROVE  /\ Ahead(t) \in SUBSET Nat /\ Ahead(t) \subseteq Slots
           /\ IsFiniteSet(Ahead(t))
           /\ \A s \in Ahead(t) : s >= Iter(t).start
<1>1. Iter(t).start \in Nat /\ NumSlots \in Nat
  BY IteratorsAssumption DEF Iterators
<1>2. Ahead(t) \in SUBSET (Iter(t).start .. NumSlots)
  BY DEF Ahead
<1>3. IsFiniteSet(Iter(t).start .. NumSlots)
  BY <1>1, FS_Interval
<1> QED
  BY <1>1, <1>2, <1>3, FS_Subset DEF Slots

\* The batch that Fetch gets.
Batch(t) == {s \in Ahead(t) : Rank(s, Ahead(t)) < MaxRanges}

\* An iterator with a new batch is at the first of it, and nothing that is ahead lies
\* between the entries of the batch and what comes after.
LEMMA Refilled ==
    ASSUME NEW t \in Threads, Iter(t) \in Iterators, Iter(t).start > 0, Ahead(t) # {},
           NEW batch, batch = Batch(t), NEW i, i = Refill(t, batch)
    PROVE  /\ i \in Iterators /\ i.start > 0
           /\ i.pool_id = Iter(t).pool_id /\ i.pos = 0 /\ i.num_ranges_found > 0
           /\ Sorted(i)
           /\ \A j \in Entries(i) : i.ranges[j] >= Iter(t).start
           /\ \A s \in Ahead(t) : s >= i.start \/ \E j \in Entries(i) : s = i.ranges[j]
<1> DEFINE n == Cardinality(batch)
           highest == CHOOSE s \in batch : \A r \in batch : r <= s
<1>1. MaxRanges \in Nat \ {0}
  BY IteratorsAssumption
<1>2. /\ Ahead(t) \in SUBSET Nat /\ Ahead(t) \subseteq Slots /\ IsFiniteSet(Ahead(t))
      /\ \A s \in Ahead(t) : s >= Iter(t).start
  BY AheadFinite
<1>3. /\ IsFiniteSet(batch) /\ n \in 1 .. MaxRanges
      /\ \E last \in batch : (\A r \in batch : r <= last) /\ \A s \in Ahead(t) \ batch : last < s
  BY <1>1, <1>2, FirstOnes DEF Batch
<1>4. batch \in SUBSET Nat /\ batch \subseteq Ahead(t)
  BY <1>2 DEF Batch
<1>5. /\ highest \in batch
      /\ \A r \in batch : r <= highest
      /\ \A s \in Ahead(t) \ batch : highest < s
  <2>1. PICK last \in batch : (\A r \in batch : r <= last) /\ \A s \in Ahead(t) \ batch : last < s
    BY <1>3, <1>4
  <2>2. highest \in batch /\ \A r \in batch : r <= highest
    BY <2>1
  <2>3. highest = last
    <3> HIDE DEF highest
    <3> QED
      BY <1>3, <1>4, <2>1, <2>2
  <2> QED
    BY <2>1, <2>3
<1>6. /\ i.pool_id = Iter(t).pool_id /\ i.pos = 0 /\ i.num_ranges_found = n
      /\ i.start = 1 + highest
  BY DEF Refill, Iterators
<1>7. i.ranges = [j \in 0 .. MaxRanges - 1 |-> IF j < n THEN Nth(batch, j) ELSE Iter(t).ranges[j]]
  BY DEF Refill, Iterators, Nth
<1>8. /\ \A j \in 0 .. n - 1 : Nth(batch, j) \in batch
      /\ \A j, k \in 0 .. n - 1 : j < k => Nth(batch, j) < Nth(batch, k)
      /\ \A s \in batch : \E j \in 0 .. n - 1 : s = Nth(batch, j)
  BY <1>3, <1>4, NthInOrder
<1>9. DOMAIN i = {"pool_id", "pos", "num_ranges_found", "start", "ranges"}
  BY DEF Refill, Iterators
<1> HIDE DEF n, highest
<1>10. i.ranges \in [0 .. MaxRanges - 1 -> Nat] /\ \A j \in 0 .. n - 1 : i.ranges[j] = Nth(batch, j)
  <2>1. Iter(t).ranges \in [0 .. MaxRanges - 1 -> Nat]
    BY DEF Iterators
  <2>2. \A j \in 0 .. n - 1 : j \in 0 .. MaxRanges - 1 /\ j < n
    BY <1>1, <1>3, <1>4
  <2>3. \A j \in 0 .. n - 1 : Nth(batch, j) \in Nat
    BY <1>3, <1>4, <1>8
  <2>4. ASSUME NEW j \in 0 .. MaxRanges - 1
        PROVE  (IF j < n THEN Nth(batch, j) ELSE Iter(t).ranges[j]) \in Nat
    <3>1. CASE j < n
      BY <1>3, <1>4, <2>3, <3>1
    <3>2. CASE ~(j < n)
      BY <2>1, <3>2
    <3> QED
      BY <3>1, <3>2
  <2> QED
    BY <1>7, <2>2, <2>4
<1>11. i \in Iterators
  <2>1. Iter(t).pool_id \in Pools
    BY DEF Iterators
  <2>2. n \in Nat /\ 1 + highest \in Nat
    BY <1>1, <1>3, <1>4, <1>5
  <2>3. i = [pool_id |-> Iter(t).pool_id, pos |-> 0, num_ranges_found |-> n,
             start |-> 1 + highest, ranges |-> i.ranges]
    BY <1>6 DEF Refill, Iterators
  <2> QED
    BY <1>10, <2>1, <2>2, <2>3 DEF Iterators
<1>12. Entries(i) = 0 .. n - 1
  BY <1>6 DEF Entries
<1>13. \A j \in Entries(i) : i.ranges[j] = Nth(batch, j) /\ i.ranges[j] \in batch
  BY <1>8, <1>10, <1>12
<1>14. Sorted(i)
  <2>1. \A j \in Entries(i) : i.ranges[j] \in Slots
    BY <1>2, <1>4, <1>13
  <2>2. \A j \in Entries(i) : i.ranges[j] < i.start
    <3> SUFFICES ASSUME NEW j \in Entries(i) PROVE i.ranges[j] < i.start
      OBVIOUS
    <3>1. i.ranges[j] \in Nat /\ i.ranges[j] <= highest /\ highest \in Nat
      BY <1>3, <1>4, <1>5, <1>13
    <3> QED
      BY <1>6, <3>1
  <2>3. \A j, k \in Entries(i) : j < k => i.ranges[j] < i.ranges[k]
    <3> SUFFICES ASSUME NEW j \in Entries(i), NEW k \in Entries(i), j < k
                 PROVE  i.ranges[j] < i.ranges[k]
      OBVIOUS
    <3>1. Nth(batch, j) < Nth(batch, k)
      BY <1>8, <1>12
    <3> QED
      BY <1>13, <3>1
  <2>4. n <= MaxRanges /\ n # 0 /\ 0 < n
    BY <1>1, <1>3, <1>4
  <2> QED
    BY <1>6, <2>1, <2>2, <2>3, <2>4 DEF Sorted
<1>15. \A j \in Entries(i) : i.ranges[j] >= Iter(t).start
  BY <1>2, <1>4, <1>13
<1>16. ASSUME NEW s \in Ahead(t) PROVE s >= i.start \/ \E j \in Entries(i) : s = i.ranges[j]
  <2>1. CASE s \in batch
    <3>1. PICK j \in 0 .. n - 1 : s = Nth(batch, j)
      BY <1>8, <2>1
    <3> QED
      BY <1>12, <1>13, <3>1
  <2>2. CASE s \notin batch
    <3>1. s \in Nat /\ highest \in Nat /\ highest < s
      BY <1>2, <1>3, <1>4, <1>5, <2>2
    <3> QED
      BY <1>6, <3>1
  <2> QED
    BY <2>1, <2>2
<1>17. i.start > 0
  BY <1>3, <1>4, <1>5, <1>6
<1> QED
  BY <1>3, <1>4, <1>6, <1>11, <1>14, <1>15, <1>16, <1>17

-----------------------------------------------------------------------------
\* What a caller's iterator is, in its place and in its batch.
LEMMA ItsIter ==
    ASSUME Inv, NEW t \in Threads, HasIter(t)
    PROVE  /\ it_id[t] \in Places
           /\ Iter(t) \in Iterators /\ Iter(t) = m_iter[it_id[t]]
           /\ Iter(t).pool_id \in Pools /\ Iter(t).pos \in Nat /\ Iter(t).start \in Nat
           /\ Iter(t).num_ranges_found \in Nat
           /\ Iter(t).ranges \in [0 .. MaxRanges - 1 -> Nat]
<1>1. it_id[t] \in Places
  BY DEF Inv, TypeOK, HasIter
<1>2. m_iter[it_id[t]] \in Iterators
  BY <1>1 DEF Inv, TypeOK, ThreadInv, Owns, Iter
<1> QED
  BY <1>1, <1>2 DEF Iter, Iterators

\* An iterator on the way stands at an LBA.
LEMMA ItsPlace ==
    ASSUME Inv, NEW t \in Threads, HasIter(t), phase[t] = "on", Iter(t).num_ranges_found > 0
    PROVE  /\ Iter(t).pos \in Entries(Iter(t))
           /\ Here(t) \in Slots /\ Here(t) < Iter(t).start
<1>1. Sorted(Iter(t))
  BY DEF Inv, ThreadInv, OnTheWay
<1>2. Iter(t).pos \in Entries(Iter(t))
  BY <1>1, ItsIter DEF Sorted, Entries
<1> QED
  BY <1>1, <1>2 DEF Sorted, Here

\* The initial states satisfy the invariant.
LEMMA InitInv == Init => Inv
<1> SUFFICES ASSUME Init PROVE Inv
  OBVIOUS
<1>1. TypeOK
  BY DEF Init, TypeOK
<1>2. HashesMatch
  BY DEF Init, HashesMatch
<1>3. \A t \in Threads : ~HasIter(t)
  BY DEF Init, HasIter
<1>4. ASSUME NEW t \in Threads PROVE ThreadInv(t)
  BY <1>3 DEF Init, ThreadInv, Owns, Holding, OnTheWay, StillThere
<1> QED
  BY <1>1, <1>2, <1>3, <1>4 DEF Inv, OwnPlaces

\* The end of a call that fails, and what its caller notes.
LEMMA FailType ==
    ASSUME Inv, NEW t \in Threads, NEW how \in {"ended", "failed"}, Fail(t, how),
           pc[t] \in {"iterate", "check"}, m_iter' \in [Places -> Iterators \cup {NoIter}]
    PROVE  TypeOK'
<1>1. buffers[t] \in -1 .. 1 /\ (api[t] = "current" => buffers[t] = 1)
  BY DEF Inv, TypeOK, ThreadInv, Holding
<1>2. buffers' \in [Threads -> -1 .. 1]
  BY <1>1 DEF Inv, TypeOK, Fail
<1> QED
  BY <1>2 DEF Inv, TypeOK, Fail, Goto, env

\* Every step leaves the variables in their sets.
LEMMA TypeStep == Inv /\ [Next]_vars => TypeOK'
<1> SUFFICES ASSUME Inv, [Next]_vars PROVE TypeOK'
  OBVIOUS
<1> USE DEF TypeOK, env, bufs, seen, Goto
<1>0. TypeOK
  BY DEF Inv
<1>1. ASSUME NEW s \in Slots, NEW p \in Pools, Put(s, p) PROVE TypeOK'
  <2>1. media' \in [Slots -> Records \cup {NoRec}]
    BY <1>0, <1>1 DEF Put, Records
  <2>2. puts' \in Nat
    BY <1>0, <1>1 DEF Put
  <2>3. stale' \in [Threads -> BOOLEAN]
    BY <1>0, <1>1 DEF Put
  <2> QED
    BY <1>0, <1>1, <2>1, <2>2, <2>3 DEF Put
<1>2. ASSUME NEW s \in Slots, Trim(s) PROVE TypeOK'
  BY <1>0, <1>2 DEF Trim
<1>3. ASSUME NEW s \in Slots, Expire(s) PROVE TypeOK'
  BY <1>0, <1>3 DEF Expire, Records
<1>4. ASSUME NEW p \in Pools, DeletePool(p) PROVE TypeOK'
  BY <1>0, <1>4 DEF DeletePool
<1>5. ASSUME NEW p \in Pools, CreatePool(p) PROVE TypeOK'
  BY <1>0, <1>5 DEF CreatePool
<1>6. ASSUME NEW t \in Threads, NEW p \in Pools, Begin(t, p) PROVE TypeOK'
  <2>1. NewIter(p) \in Iterators
    BY IteratorsAssumption DEF NewIter, Iterators
  <2>2. PICK i \in Places : /\ m_iter' = [m_iter EXCEPT ![i] = NewIter(p)]
                            /\ it_id' = [it_id EXCEPT ![t] = i]
    BY <1>6 DEF Begin
  <2>3. m_iter' \in [Places -> Iterators \cup {NoIter}] /\ it_id' \in [Threads -> Places \cup {-1}]
    BY <1>0, <2>1, <2>2
  <2>4. stable' \in [Threads -> SUBSET Slots] /\ returned' \in [Threads -> SUBSET Nat]
    BY <1>0, <1>6 DEF Begin
  <2>5. buffers' \in [Threads -> -1 .. 1]
    BY <1>0, <1>6 DEF Begin
  <2> QED
    BY <1>0, <1>6, <2>3, <2>4, <2>5 DEF Begin
<1>7. ASSUME NEW t \in Threads, PoolGone(t) \/ CheckError(t) PROVE TypeOK'
  BY <1>0, <1>7, FailType DEF PoolGone, CheckError
<1>8. ASSUME NEW t \in Threads, pc[t] \in {"iterate", "check", "get_loc", "read", "free"}
      PROVE  HasIter(t) /\ Iter(t) \in Iterators /\ it_id[t] \in Places
  BY <1>8, ItsIter DEF Inv, ThreadInv, Owns
<1>9. ASSUME NEW t \in Threads, MoveOn(t) PROVE TypeOK'
  <2>1. [m_iter[it_id[t]] EXCEPT !.pos = @ + 1] \in Iterators
    BY <1>8, <1>9 DEF MoveOn, Iterators, Iter
  <2>2. m_iter' \in [Places -> Iterators \cup {NoIter}]
    BY <1>0, <1>8, <1>9, <2>1 DEF MoveOn
  <2> QED
    BY <1>0, <1>9, <2>2 DEF MoveOn
<1>10. ASSUME NEW t \in Threads, Fetch(t) PROVE TypeOK'
  <2>1. Iter(t) \in Iterators /\ Iter(t).start > 0 /\ Ahead(t) # {}
    BY <1>8, <1>10 DEF Fetch, Inv, ThreadInv, Owns
  <2>2. Refill(t, Batch(t)) \in Iterators
    BY <2>1, Refilled
  <2>3. m_iter' = [m_iter EXCEPT ![it_id[t]] = Refill(t, Batch(t))]
    BY <1>10 DEF Fetch, Batch
  <2>4. m_iter' \in [Places -> Iterators \cup {NoIter}]
    BY <1>0, <2>2, <2>3
  <2> QED
    BY <1>0, <1>10, <2>4 DEF Fetch
<1>11. ASSUME NEW t \in Threads, AtEnd(t) \/ IterateError(t) PROVE TypeOK'
  <2>1. /\ pc[t] = "iterate" /\ m_iter' = [m_iter EXCEPT ![it_id[t]].pos = 0]
        /\ Fail(t, "ended") \/ Fail(t, "failed")
    BY <1>11 DEF AtEnd, IterateError
  <2>2. [m_iter[it_id[t]] EXCEPT !.pos = 0] \in Iterators
    BY <1>8, <2>1 DEF Iterators, Iter
  <2>3. m_iter' \in [Places -> Iterators \cup {NoIter}]
    BY <1>0, <1>8, <2>1, <2>2
  <2> QED
    BY <2>1, <2>3, FailType
<1>12. ASSUME NEW t \in Threads, Skip(t) \/ PassOver(t) PROVE TypeOK'
  BY <1>0, <1>12 DEF Skip, PassOver
<1>13. ASSUME NEW t \in Threads, Stand(t) PROVE TypeOK'
  <2>1. phase[t] = "on" => Here(t) \in Nat
    BY <1>8, <1>13, ItsPlace DEF Stand, Inv, ThreadInv, OnTheWay, Slots
  <2>2. returned' \in [Threads -> SUBSET Nat]
    BY <1>0, <1>13, <2>1 DEF Stand
  <2>3. api[t] = "current" => buffers[t] = 1
    BY <1>13 DEF Stand, Inv, ThreadInv, Holding
  <2>4. buffers' \in [Threads -> -1 .. 1]
    BY <1>0, <1>13, <2>3 DEF Stand
  <2> QED
    BY <1>0, <1>13, <2>2, <2>4 DEF Stand
<1>14. ASSUME NEW t \in Threads, NextCall(t) \/ CurrentCall(t) PROVE TypeOK'
  <2>1. buffers' \in [Threads -> -1 .. 1]
    BY <1>0, <1>14 DEF NextCall, CurrentCall, Call
  <2> QED
    BY <1>0, <1>14, <2>1 DEF NextCall, CurrentCall, Call
<1>15. ASSUME NEW t \in Threads, GetLoc(t) PROVE TypeOK'
  <2>1. buffers[t] = 0
    BY <1>15 DEF GetLoc, Inv, ThreadInv, Holding
  <2>2. buffers' \in [Threads -> -1 .. 1]
    BY <1>0, <1>15, <2>1 DEF GetLoc
  <2> QED
    BY <1>0, <1>15, <2>2 DEF GetLoc
<1>16. ASSUME NEW t \in Threads, GetLocError(t) \/ Answer(t) \/ ReadError(t) PROVE TypeOK'
  <2>1. Exit(t) /\ pc[t] \in {"get_loc", "read"}
    BY <1>16 DEF GetLocError, Answer, ReadError
  <2>2. buffers[t] \in 0 .. 1
    BY <2>1 DEF Inv, ThreadInv, Holding
  <2>3. buffers' \in [Threads -> -1 .. 1]
    BY <1>0, <2>1, <2>2 DEF Exit
  <2> QED
    BY <1>0, <2>1, <2>3 DEF Exit
<1>17. ASSUME NEW t \in Threads, BeginFailed(t) \/ IterationEnd(t) PROVE TypeOK'
  <2>1. it_id[t] \in Places
    BY <1>17, ItsIter, <1>8 DEF BeginFailed, IterationEnd
  <2>2. m_iter' \in [Places -> Iterators \cup {NoIter}] /\ it_id' \in [Threads -> Places \cup {-1}]
    BY <1>0, <1>17, <2>1 DEF BeginFailed, IterationEnd, FreeIterator
  <2>3. stable' \in [Threads -> SUBSET Slots] /\ returned' \in [Threads -> SUBSET Nat]
    BY <1>0, <1>17 DEF BeginFailed, IterationEnd, Forgotten
  <2> QED
    BY <1>0, <1>17, <2>2, <2>3 DEF BeginFailed, IterationEnd, Forgotten
<1>18. CASE UNCHANGED vars
  BY <1>0, <1>18 DEF vars
<1> QED
  BY <1>1, <1>2, <1>3, <1>4, <1>5, <1>6, <1>7, <1>9, <1>10, <1>11, <1>12, <1>13, <1>14, <1>15, <1>16,
     <1>17, <1>18 DEF Next, Environment, Step, Start

-----------------------------------------------------------------------------
(***************************************************************************)
(* Steps of a caller.                                                      *)
(***************************************************************************)
\* A step of t leaves the store, and the others with their iterators, alone.
Apart(t) ==
    /\ \A u \in Threads \ {t} :
         /\ pc'[u] = pc[u] /\ api'[u] = api[u] /\ it_id'[u] = it_id[u]
         /\ acquired'[u] = acquired[u] /\ buffers'[u] = buffers[u]
         /\ stable'[u] = stable[u] /\ returned'[u] = returned[u]
         /\ phase'[u] = phase[u] /\ stale'[u] = stale[u] /\ lost'[u] = lost[u]
         /\ HasIter(u) => m_iter'[it_id[u]] = m_iter[it_id[u]]
    /\ UNCHANGED env

LEMMA OthersKept ==
    ASSUME Inv, NEW t \in Threads, Apart(t), NEW u \in Threads \ {t}
    PROVE  ThreadInv(u)'
<1>1. ThreadInv(u)
  BY DEF Inv
<1>2. /\ pc'[u] = pc[u] /\ api'[u] = api[u] /\ it_id'[u] = it_id[u]
      /\ acquired'[u] = acquired[u] /\ buffers'[u] = buffers[u]
      /\ stable'[u] = stable[u] /\ returned'[u] = returned[u]
      /\ phase'[u] = phase[u] /\ stale'[u] = stale[u] /\ lost'[u] = lost[u]
      /\ UNCHANGED <<media, in_use>>
  BY DEF Apart, env
<1>3. HasIter(u)' <=> HasIter(u)
  BY <1>2 DEF HasIter
<1>4. HasIter(u) => Iter(u)' = Iter(u)
  BY <1>2 DEF Iter, Apart
<1>5. HasIter(u) => Here(u)' = Here(u) /\ ToCome(u)' = ToCome(u)
  BY <1>2, <1>4 DEF Here, ToCome
<1>6. Owns(u)' /\ Holding(u)'
  BY <1>1, <1>2, <1>3, <1>4 DEF ThreadInv, Owns, Holding, Valid
<1>7. StillThere(u)' /\ (phase[u] = "ended" => stable[u] \subseteq returned[u])'
  BY <1>1, <1>2, <1>3, <1>4 DEF ThreadInv, StillThere
<1>8. OnTheWay(u)'
  BY <1>1, <1>2, <1>3, <1>4, <1>5 DEF ThreadInv, OnTheWay, Sorted, Entries
<1> QED
  BY <1>6, <1>7, <1>8 DEF ThreadInv

\* A caller keeps its iterator, or gets one that nobody has.
LEMMA OwnStep ==
    ASSUME Inv, TypeOK', NEW t \in Threads, Apart(t), ThreadInv(t)',
           HasIter(t)' => \/ HasIter(t) /\ it_id'[t] = it_id[t]
                          \/ m_iter[it_id'[t]] = NoIter
    PROVE  Inv'
<1>1. HashesMatch'
  BY DEF Inv, HashesMatch, Apart, env
<1>2. \A u \in Threads \ {t} : it_id'[u] = it_id[u]
  BY DEF Apart
<1>3. \A u \in Threads : HasIter(u) => m_iter[it_id[u]] # NoIter
  BY DEF Inv, ThreadInv, Owns, Iter
<1>4. OwnPlaces'
  BY <1>2, <1>3 DEF Inv, OwnPlaces, HasIter
<1> QED
  BY <1>1, <1>4, OthersKept DEF Inv

\* What concerns one thread, of the steps that change no iterator.
LEMMA KeptApart ==
    ASSUME Inv, NEW t \in Threads, UNCHANGED <<env, m_iter, it_id>>,
           \A u \in Threads \ {t} :
              /\ pc'[u] = pc[u] /\ api'[u] = api[u]
              /\ acquired'[u] = acquired[u] /\ buffers'[u] = buffers[u]
              /\ stable'[u] = stable[u] /\ returned'[u] = returned[u]
              /\ phase'[u] = phase[u] /\ stale'[u] = stale[u] /\ lost'[u] = lost[u]
    PROVE  Apart(t)
  BY DEF Apart

\* Whoever has an iterator is the only one who changes it.
LEMMA MoveApart ==
    ASSUME Inv, NEW t \in Threads, HasIter(t), NEW i, m_iter' = [m_iter EXCEPT ![it_id[t]] = i],
           UNCHANGED <<env, it_id>>,
           \A u \in Threads \ {t} :
              /\ pc'[u] = pc[u] /\ api'[u] = api[u]
              /\ acquired'[u] = acquired[u] /\ buffers'[u] = buffers[u]
              /\ stable'[u] = stable[u] /\ returned'[u] = returned[u]
              /\ phase'[u] = phase[u] /\ stale'[u] = stale[u] /\ lost'[u] = lost[u]
    PROVE  Apart(t) /\ Iter(t)' = i
<1>1. \A u \in Threads \ {t} : HasIter(u) => it_id[u] # it_id[t]
  BY DEF Inv, OwnPlaces
<1>2. \A u \in Threads \ {t} : HasIter(u) => m_iter'[it_id[u]] = m_iter[it_id[u]]
  BY <1>1, ItsIter DEF Inv, TypeOK
<1>3. Iter(t)' = i
  BY ItsIter DEF Iter, Inv, TypeOK
<1> QED
  BY <1>2, <1>3 DEF Apart

\* The calls begin and end without moving the iterator, and kv_get_current takes and
\* releases its buffer.
LEMMA CallStep ==
    ASSUME Inv, TypeOK', NEW t \in Threads,
           \/ NextCall(t) \/ CurrentCall(t) \/ GetLoc(t) \/ GetLocError(t)
           \/ Skip(t) \/ PassOver(t) \/ Answer(t) \/ ReadError(t)
    PROVE  Inv'
<1> USE DEF Goto, bufs, seen
<1>1. UNCHANGED <<env, m_iter, it_id, seen>>
  BY DEF NextCall, CurrentCall, Call, GetLoc, GetLocError, Exit, Skip, PassOver, Answer, ReadError
<1>2. \A u \in Threads \ {t} : /\ pc'[u] = pc[u] /\ api'[u] = api[u]
                               /\ acquired'[u] = acquired[u] /\ buffers'[u] = buffers[u]
  BY DEF NextCall, CurrentCall, Call, GetLoc, GetLocError, Exit, Skip, PassOver, Answer, ReadError,
         Inv, TypeOK
<1>3. Apart(t)
  BY <1>1, <1>2, KeptApart
<1>4. ThreadInv(t) /\ TypeOK
  BY DEF Inv
<1>5. HasIter(t) /\ (HasIter(t) <=> HasIter(t)') /\ Iter(t)' = Iter(t) /\ Here(t)' = Here(t)
  BY <1>1, <1>4 DEF NextCall, CurrentCall, Call, GetLoc, GetLocError, Skip, PassOver, Answer, ReadError,
                    HasIter, Iter, Here, ThreadInv, Owns
<1>6. Owns(t)'
  BY <1>1, <1>4, <1>5 DEF ThreadInv, Owns, Valid, env
<1>7. StillThere(t)' /\ (phase[t] = "ended" => stable[t] \subseteq returned[t])'
  BY <1>1, <1>4, <1>5 DEF ThreadInv, StillThere, env
<1>8. Holding(t)'
  <2>1. CASE NextCall(t) \/ CurrentCall(t)
    BY <1>4, <2>1 DEF ThreadInv, Holding, NextCall, CurrentCall, Call, TypeOK
  <2>2. CASE GetLoc(t)
    BY <1>4, <2>2 DEF ThreadInv, Holding, GetLoc, TypeOK
  <2>3. CASE GetLocError(t)
    <3>1. lost[t] /\ lost' = lost
      BY <1>1, <1>4, <1>5, <2>3 DEF ThreadInv, Owns, GetLocError
    <3> QED
      BY <1>4, <2>3, <3>1 DEF ThreadInv, Holding, GetLocError, Exit, TypeOK
  <2>4. CASE Answer(t) \/ ReadError(t)
    BY <1>4, <2>4 DEF ThreadInv, Holding, Answer, ReadError, Exit, TypeOK
  <2>5. CASE Skip(t) \/ PassOver(t)
    BY <1>4, <2>5 DEF ThreadInv, Holding, Skip, PassOver, TypeOK
  <2> QED
    BY <2>1, <2>2, <2>3, <2>4, <2>5
<1>9. OnTheWay(t)'
  <2> SUFFICES ASSUME phase[t] = "on" PROVE OnTheWay(t)'
    BY <1>1 DEF OnTheWay
  <2>1. OnTheWay(t) /\ Sorted(Iter(t)) /\ Sorted(Iter(t))'
    BY <1>4, <1>5 DEF ThreadInv, OnTheWay, Sorted, Entries
  <2>2. CASE ~Skip(t)
    <3>1. ToCome(t)' = ToCome(t)
      BY <1>1, <1>4, <1>5, <2>2 DEF ToCome, NextCall, CurrentCall, Call, GetLoc, GetLocError, Exit,
                                    PassOver, Answer, ReadError, TypeOK
    <3>2. \/ pc[t] = "idle" /\ pc'[t] \in {"iterate", "get_loc"}
          \/ pc[t] = "get_loc" /\ pc'[t] \in {"read", "idle"}
          \/ pc[t] = "read" /\ pc'[t] \in {"iterate", "idle"}
      BY <1>4, <2>2 DEF NextCall, CurrentCall, Call, GetLoc, GetLocError, Exit,
                        PassOver, Answer, ReadError, TypeOK
    <3> QED
      BY <1>1, <1>5, <2>1, <3>1, <3>2 DEF OnTheWay, env
  <2>3. CASE Skip(t)
    <3>1. pc[t] = "check" /\ pc'[t] = "iterate" /\ ~OfPool(t)
      BY <1>4, <2>3 DEF Skip, TypeOK
    <3>2. Here(t) \notin stable[t]
      <4> SUFFICES ASSUME Here(t) \in stable[t] PROVE FALSE
        OBVIOUS
      <4>1. media[Here(t)] # NoRec /\ media[Here(t)].pool = Iter(t).pool_id
        BY <1>4, <1>5 DEF ThreadInv, StillThere
      <4>2. Here(t) \in Slots
        BY <1>4 DEF TypeOK
      <4>3. OfPool(t)
        BY <4>1, <4>2 DEF OfPool, PoolAt, Inv, HashesMatch
      <4> QED
        BY <3>1, <4>3
    <3>3. stable[t] \subseteq returned[t] \cup ToCome(t)'
      BY <1>5, <2>1, <3>1, <3>2 DEF OnTheWay, ToCome, Here
    <3>4. \A s \in returned[t] : s <= Here(t)
      <4>1. Here(t) \in Slots
        BY <1>5, <2>1, <3>1, ItsPlace DEF OnTheWay
      <4>2. returned[t] \subseteq Nat
        BY <1>4 DEF TypeOK
      <4> QED
        BY <1>5, <2>1, <3>1, <4>1, <4>2 DEF OnTheWay, Slots
    <3> QED
      BY <1>1, <1>5, <2>1, <3>1, <3>3, <3>4 DEF OnTheWay
  <2> QED
    BY <2>2, <2>3
<1> QED
  BY <1>1, <1>3, <1>5, <1>6, <1>7, <1>8, <1>9, OwnStep DEF ThreadInv

\* A call that fails before it comes to another LBA: kv_next and kv_get_current
\* return, kv_begin goes on to free its iterator.
LEMMA FailStep ==
    ASSUME Inv, TypeOK', NEW t \in Threads,
           PoolGone(t) \/ CheckError(t) \/ AtEnd(t) \/ IterateError(t)
    PROVE  Inv'
<1> USE DEF Goto, Fail, bufs
<1>1. /\ pc[t] \in {"iterate", "check"} /\ ThreadInv(t) /\ TypeOK
      /\ AtEnd(t) => pc[t] = "iterate"
  BY DEF PoolGone, CheckError, AtEnd, IterateError, Inv
<1>2. PICK how \in {"ended", "failed"} : Fail(t, how) /\ (how = "ended" => AtEnd(t))
  BY DEF PoolGone, CheckError, AtEnd, IterateError
<1>3. HasIter(t) /\ Iter(t) \in Iterators
  BY <1>1, ItsIter DEF ThreadInv, Owns
<1>4. PICK i \in Iterators : /\ m_iter' = [m_iter EXCEPT ![it_id[t]] = i]
                             /\ i.pool_id = Iter(t).pool_id /\ i.start = Iter(t).start
  <2>1. CASE UNCHANGED m_iter
    <3>1. m_iter' = [m_iter EXCEPT ![it_id[t]] = Iter(t)]
      BY <1>1, <1>3, <2>1, ItsIter DEF TypeOK, Iter
    <3> QED
      BY <1>3, <3>1
  <2>2. CASE m_iter' = [m_iter EXCEPT ![it_id[t]].pos = 0]
    <3> DEFINE j == [Iter(t) EXCEPT !.pos = 0]
    <3>1. j \in Iterators /\ j.pool_id = Iter(t).pool_id /\ j.start = Iter(t).start
      BY <1>3 DEF Iterators
    <3>2. m_iter' = [m_iter EXCEPT ![it_id[t]] = j]
      BY <2>2 DEF Iter
    <3> QED
      BY <3>1, <3>2
  <2> QED
    BY <2>1, <2>2 DEF PoolGone, CheckError, AtEnd, IterateError
<1>5. /\ UNCHANGED <<env, api, it_id, stable, returned, stale, lost>>
      /\ \A u \in Threads \ {t} : /\ pc'[u] = pc[u] /\ acquired'[u] = acquired[u]
                                  /\ buffers'[u] = buffers[u] /\ phase'[u] = phase[u]
  BY <1>1, <1>2 DEF TypeOK
<1>6. Apart(t) /\ Iter(t)' = i
  BY <1>3, <1>4, <1>5, MoveApart
<1>7. HasIter(t)' /\ it_id'[t] = it_id[t]
  BY <1>3, <1>5 DEF HasIter
<1>8. Owns(t)'
  <2>1. i # NoIter /\ i.start > 0
    BY <1>1, <1>3, <1>4, IteratorsAssumption DEF ThreadInv, Owns
  <2> QED
    BY <1>1, <1>3, <1>4, <1>5, <1>6, <1>7, <2>1 DEF ThreadInv, Owns, Valid, env
<1>9. Holding(t)'
  BY <1>1, <1>2 DEF ThreadInv, Holding, TypeOK
<1>10. StillThere(t)'
  BY <1>1, <1>3, <1>4, <1>5, <1>6 DEF ThreadInv, StillThere, env
<1>11. phase'[t] # "on"
  BY <1>1, <1>2 DEF TypeOK
<1>12. ASSUME phase'[t] = "ended" PROVE stable'[t] \subseteq returned'[t]
  <2>1. CASE phase[t] = "ended"
    BY <1>1, <1>5, <2>1 DEF ThreadInv
  <2>2. CASE phase[t] # "ended"
    <3>1. phase[t] = "on" /\ AtEnd(t)
      BY <1>1, <1>2, <1>12, <2>2 DEF TypeOK
    <3>2. ToCome(t) \cap stable[t] = {}
      <4> SUFFICES ASSUME NEW s \in ToCome(t), s \in stable[t] PROVE FALSE
        OBVIOUS
      <4>1. pc[t] = "iterate" /\ ~InBatch(t) /\ Ahead(t) = {}
        BY <3>1 DEF AtEnd
      <4>2. media[s] # NoRec /\ media[s].pool = Iter(t).pool_id
        BY <1>1, <1>3 DEF ThreadInv, StillThere
      <4>3. s \in Slots /\ Iter(t).start \in Nat
        BY <1>3, ItsIter DEF ToCome, Inv
      <4>4. ~(s >= Iter(t).start)
        <5> SUFFICES ASSUME s >= Iter(t).start PROVE FALSE
          OBVIOUS
        <5>1. s \in Iter(t).start .. NumSlots
          BY <4>3, IteratorsAssumption DEF Slots
        <5>2. SlotHash[s] = PoolHash[Iter(t).pool_id]
          BY <4>2, <4>3 DEF Inv, HashesMatch
        <5> QED
          BY <4>1, <4>2, <5>1, <5>2 DEF Ahead
      <4>5. PICK j \in Entries(Iter(t)) : j > Iter(t).pos
        BY <4>1, <4>4 DEF ToCome
      <4> QED
        BY <1>3, <4>1, <4>5, ItsIter DEF InBatch, Entries
    <3>3. stable[t] \subseteq returned[t]
      BY <1>1, <1>3, <3>1, <3>2 DEF ThreadInv, OnTheWay
    <3> QED
      BY <1>5, <3>3
  <2> QED
    BY <2>1, <2>2
<1>13. ThreadInv(t)'
  BY <1>8, <1>9, <1>10, <1>11, <1>12 DEF ThreadInv, OnTheWay
<1> QED
  BY <1>3, <1>6, <1>7, <1>13, OwnStep

\* The iterator goes to the next entry of its batch, which it has not been at.
LEMMA MoveOnStep ==
    ASSUME Inv, TypeOK', NEW t \in Threads, MoveOn(t)
    PROVE  Inv'
<1> USE DEF Goto, bufs, seen
<1>1. pc[t] = "iterate" /\ pc'[t] = "check" /\ ThreadInv(t) /\ TypeOK
  BY DEF MoveOn, Inv, TypeOK
<1>2. HasIter(t) /\ Iter(t) \in Iterators
  BY <1>1, ItsIter DEF ThreadInv, Owns
<1>3. /\ UNCHANGED <<env, api, it_id, acquired, buffers, stable, returned, phase, stale, lost>>
      /\ \A u \in Threads \ {t} : pc'[u] = pc[u]
  BY <1>1 DEF MoveOn, TypeOK
<1>4. PICK i \in Iterators :
        /\ m_iter' = [m_iter EXCEPT ![it_id[t]] = i]
        /\ i.pool_id = Iter(t).pool_id /\ i.start = Iter(t).start
        /\ i.num_ranges_found = Iter(t).num_ranges_found
        /\ i.ranges = Iter(t).ranges /\ i.pos = Iter(t).pos + 1
  <2> DEFINE j == [Iter(t) EXCEPT !.pos = @ + 1]
  <2>1. /\ j.pool_id = Iter(t).pool_id /\ j.start = Iter(t).start
        /\ j.num_ranges_found = Iter(t).num_ranges_found
        /\ j.ranges = Iter(t).ranges /\ j.pos = Iter(t).pos + 1
        /\ j \in Iterators
    BY <1>2 DEF Iterators
  <2>2. m_iter' = [m_iter EXCEPT ![it_id[t]] = j]
    BY DEF MoveOn, Iter
  <2> HIDE DEF j
  <2> QED
    BY <2>1, <2>2
<1>6. Apart(t) /\ Iter(t)' = i
  BY <1>2, <1>3, <1>4, MoveApart
<1>7. HasIter(t)' /\ it_id'[t] = it_id[t]
  BY <1>2, <1>3 DEF HasIter
<1>8. Owns(t)'
  BY <1>1, <1>2, <1>3, <1>4, <1>6, <1>7, IteratorsAssumption DEF ThreadInv, Owns, Valid, env
<1>9. Holding(t)' /\ StillThere(t)' /\ (phase[t] = "ended" => stable[t] \subseteq returned[t])'
  BY <1>1, <1>2, <1>3, <1>4, <1>6 DEF ThreadInv, Holding, StillThere, env
<1>10. OnTheWay(t)'
  <2> SUFFICES ASSUME phase[t] = "on" PROVE OnTheWay(t)'
    BY <1>3 DEF OnTheWay
  <2>1. OnTheWay(t) /\ Sorted(Iter(t)) /\ InBatch(t)
    BY <1>1, <1>2 DEF ThreadInv, OnTheWay, MoveOn
  <2>2. /\ Iter(t).pos \in Nat /\ Iter(t).num_ranges_found \in Nat
        /\ Iter(t).pos + 1 < Iter(t).num_ranges_found
    BY <1>2, <2>1 DEF Iterators, InBatch
  <2>3. Entries(i) = Entries(Iter(t)) /\ Iter(t).pos \in Entries(i) /\ i.pos \in Entries(i)
    BY <1>4, <2>2 DEF Entries
  <2>4. Sorted(i)
    BY <1>4, <2>1, <2>2, <2>3 DEF Sorted
  <2>5. Here(t)' = i.ranges[i.pos] /\ Here(t) = i.ranges[Iter(t).pos]
    BY <1>4, <1>6 DEF Here
  <2>6. Here(t) < Here(t)' /\ Here(t) \in Nat /\ Here(t)' \in Nat
    BY <1>4, <2>2, <2>3, <2>4, <2>5 DEF Sorted, Slots
  <2>7. \A s \in returned[t] : s \in Nat /\ s <= Here(t)
    BY <1>1, <1>2, <2>1 DEF OnTheWay, TypeOK
  <2>8. \A s \in returned'[t] : s < Here(t)'
    BY <1>3, <2>6, <2>7
  <2>9. ToCome(t)' = ToCome(t)
    <3>1. \A j \in Entries(i) : j > Iter(t).pos <=> j > i.pos \/ j = i.pos
      BY <1>4, <2>2 DEF Entries
    <3>2. ToCome(t) = {s \in Slots : s >= i.start
                                     \/ \E j \in Entries(i) : s = i.ranges[j] /\ j > Iter(t).pos}
      BY <1>1, <1>4, <2>3 DEF ToCome
    <3>3. ToCome(t)' = {s \in Slots : s >= i.start
                                      \/ \E j \in Entries(i) : s = i.ranges[j] /\ (j > i.pos \/ j = i.pos)}
      BY <1>1, <1>6 DEF ToCome
    <3> QED
      BY <3>1, <3>2, <3>3
  <2>10. Sorted(Iter(t))' /\ (Iter(t).num_ranges_found > 0)'
    BY <1>4, <1>6, <2>2, <2>4 DEF Sorted, Entries
  <2>11. stable'[t] \subseteq returned'[t] \cup ToCome(t)'
    BY <1>2, <1>3, <2>1, <2>9 DEF OnTheWay
  <2> QED
    BY <1>1, <2>8, <2>10, <2>11 DEF OnTheWay
<1>11. ThreadInv(t)'
  BY <1>8, <1>9, <1>10 DEF ThreadInv
<1> QED
  BY <1>2, <1>6, <1>7, <1>11, OwnStep

\* The iterator gets a new batch and is at the first of it: all of it lies behind where
\* the iterator has been, and the records there all the time are in it or behind it.
LEMMA FetchStep ==
    ASSUME Inv, TypeOK', NEW t \in Threads, Fetch(t)
    PROVE  Inv'
<1> USE DEF Goto, bufs, seen
<1>1. pc[t] = "iterate" /\ pc'[t] = "check" /\ ThreadInv(t) /\ TypeOK
  BY DEF Fetch, Inv, TypeOK
<1>2. HasIter(t) /\ Iter(t) \in Iterators /\ Iter(t).start > 0
  BY <1>1, ItsIter DEF ThreadInv, Owns
<1>3. /\ UNCHANGED <<env, api, it_id, acquired, buffers, stable, returned, phase, stale, lost>>
      /\ \A u \in Threads \ {t} : pc'[u] = pc[u]
  BY <1>1 DEF Fetch, TypeOK
<1>4. PICK i \in Iterators :
        /\ m_iter' = [m_iter EXCEPT ![it_id[t]] = i]
        /\ i.start > 0 /\ i.pool_id = Iter(t).pool_id /\ i.pos = 0 /\ i.num_ranges_found > 0
        /\ Sorted(i)
        /\ \A j \in Entries(i) : i.ranges[j] >= Iter(t).start
        /\ \A s \in Ahead(t) : s >= i.start \/ \E j \in Entries(i) : s = i.ranges[j]
  <2> DEFINE k == Refill(t, Batch(t))
  <2>1. Ahead(t) # {} /\ m_iter' = [m_iter EXCEPT ![it_id[t]] = k]
    BY DEF Fetch, Batch
  <2> HIDE DEF k
  <2>2. /\ k \in Iterators /\ k.start > 0
        /\ k.pool_id = Iter(t).pool_id /\ k.pos = 0 /\ k.num_ranges_found > 0
        /\ Sorted(k)
        /\ \A j \in Entries(k) : k.ranges[j] >= Iter(t).start
        /\ \A s \in Ahead(t) : s >= k.start \/ \E j \in Entries(k) : s = k.ranges[j]
    <3>1. k = Refill(t, Batch(t))
      BY DEF k
    <3> QED
      BY <1>2, <2>1, <3>1, Refilled
  <2> QED
    BY <2>1, <2>2
<1>5. Apart(t) /\ Iter(t)' = i
  BY <1>2, <1>3, <1>4, MoveApart
<1>6. HasIter(t)' /\ it_id'[t] = it_id[t]
  BY <1>2, <1>3 DEF HasIter
<1>7. Owns(t)'
  BY <1>1, <1>2, <1>3, <1>4, <1>5, <1>6, IteratorsAssumption DEF ThreadInv, Owns, Valid, env
<1>8. Holding(t)' /\ StillThere(t)' /\ (phase[t] = "ended" => stable[t] \subseteq returned[t])'
  BY <1>1, <1>2, <1>3, <1>4, <1>5 DEF ThreadInv, Holding, StillThere, env
<1>9. OnTheWay(t)'
  <2> SUFFICES ASSUME phase[t] = "on" PROVE OnTheWay(t)'
    BY <1>3 DEF OnTheWay
  <2>1. OnTheWay(t) /\ Sorted(Iter(t)) /\ ~InBatch(t)
    BY <1>1, <1>2 DEF ThreadInv, OnTheWay, Fetch
  <2>2. i.num_ranges_found \in Nat /\ Iter(t).start \in Nat /\ 0 \in Entries(i)
    BY <1>2, <1>4 DEF Iterators, Entries
  <2>3. Here(t)' = i.ranges[0] /\ Here(t)' \in Slots /\ Here(t)' >= Iter(t).start
    BY <1>4, <1>5, <2>2 DEF Here, Sorted
  <2>4. ASSUME NEW s \in returned[t] PROVE s < Here(t)'
    <3>1. Iter(t).num_ranges_found > 0
      BY <1>2, <2>1 DEF OnTheWay
    <3>2. s <= Here(t) /\ s \in Nat
      BY <1>1, <1>2, <2>1 DEF OnTheWay, TypeOK
    <3>3. Here(t) < Iter(t).start /\ Here(t) \in Slots
      BY <1>2, <3>1, ItsPlace
    <3> QED
      BY <2>2, <2>3, <3>2, <3>3 DEF Slots
  <2>5. ASSUME NEW s \in stable[t], s \notin returned[t] PROVE s \in ToCome(t)'
    <3>1. s \in ToCome(t) /\ s \in Slots
      <4>1. s \in ToCome(t)
        BY <1>2, <2>1, <2>5 DEF OnTheWay
      <4> QED
        BY <4>1 DEF ToCome
    <3>2. ~\E j \in Entries(Iter(t)) : j > Iter(t).pos
      BY <1>2, <2>1 DEF Entries, InBatch, Iterators
    <3>3. s >= Iter(t).start
      BY <1>1, <3>1, <3>2 DEF ToCome
    <3>4. media[s] # NoRec /\ media[s].pool = Iter(t).pool_id
      BY <1>1, <1>2 DEF ThreadInv, StillThere
    <3>5. SlotHash[s] = PoolHash[Iter(t).pool_id]
      BY <3>1, <3>4 DEF Inv, HashesMatch
    <3>6. s \in Iter(t).start .. NumSlots
      BY <2>2, <3>1, <3>3, IteratorsAssumption DEF Slots
    <3>7. s \in Ahead(t)
      BY <3>4, <3>5, <3>6 DEF Ahead
    <3>8. s >= i.start \/ \E j \in Entries(i) : s = i.ranges[j] /\ (j > 0 \/ j = 0)
      BY <1>4, <2>2, <3>7 DEF Entries
    <3> QED
      BY <1>1, <1>4, <1>5, <3>1, <3>8 DEF ToCome
  <2>6. Sorted(Iter(t))' /\ (Iter(t).num_ranges_found > 0)'
    BY <1>4, <1>5 DEF Sorted, Entries
  <2> QED
    BY <1>1, <1>3, <2>4, <2>5, <2>6 DEF OnTheWay
<1>10. ThreadInv(t)'
  BY <1>7, <1>8, <1>9 DEF ThreadInv
<1> QED
  BY <1>2, <1>5, <1>6, <1>10, OwnStep

\* The iterator stops at an LBA of its pool, which it has not been at before.
LEMMA StandStep ==
    ASSUME Inv, TypeOK', NEW t \in Threads, Stand(t)
    PROVE  Inv'
<1> USE DEF Goto, bufs, seen
<1>1. pc[t] = "check" /\ OfPool(t) /\ ThreadInv(t) /\ TypeOK
  BY DEF Stand, Inv
<1>2. HasIter(t) /\ Iter(t) \in Iterators
  BY <1>1, ItsIter DEF ThreadInv, Owns
<1>3. /\ UNCHANGED <<env, m_iter, api, it_id, acquired, stable, phase, lost>>
      /\ \A u \in Threads \ {t} : /\ pc'[u] = pc[u] /\ buffers'[u] = buffers[u]
                                  /\ returned'[u] = returned[u] /\ stale'[u] = stale[u]
      /\ pc'[t] = IF api[t] = "current" THEN "get_loc" ELSE "idle"
      /\ buffers'[t] = IF api[t] = "current" THEN buffers[t] - 1 ELSE buffers[t]
      /\ returned'[t] = IF phase[t] = "on" THEN returned[t] \cup {Here(t)} ELSE returned[t]
      /\ stale'[t] = FALSE
  BY <1>1 DEF Stand, TypeOK
<1>4. Apart(t)
  BY <1>3, KeptApart
<1>5. HasIter(t)' /\ it_id'[t] = it_id[t] /\ Iter(t)' = Iter(t) /\ Here(t)' = Here(t)
  BY <1>2, <1>3 DEF HasIter, Iter, Here
<1>6. Owns(t)' /\ StillThere(t)'
  BY <1>1, <1>2, <1>3, <1>5 DEF ThreadInv, Owns, Valid, StillThere, env
<1>7. Holding(t)'
  BY <1>1, <1>3 DEF ThreadInv, Holding, TypeOK
<1>8. (phase[t] = "ended" => stable[t] \subseteq returned[t])'
  BY <1>1, <1>3 DEF ThreadInv
<1>9. OnTheWay(t)'
  <2> SUFFICES ASSUME phase[t] = "on" PROVE OnTheWay(t)'
    BY <1>3 DEF OnTheWay
  <2>1. OnTheWay(t) /\ Sorted(Iter(t)) /\ Iter(t).num_ranges_found > 0
    BY <1>1, <1>2 DEF ThreadInv, OnTheWay
  <2>2. Here(t) \in Slots
    BY <1>2, <2>1, ItsPlace
  <2>3. \A s \in returned'[t] : s <= Here(t)
    <3>1. \A s \in returned[t] : s < Here(t) /\ s \in Nat
      BY <1>1, <1>2, <2>1 DEF OnTheWay, TypeOK
    <3> QED
      BY <1>3, <2>2, <3>1 DEF Slots
  <2>4. stable[t] \subseteq returned'[t] \cup ToCome(t)'
    BY <1>1, <1>2, <1>3, <1>5, <2>1 DEF OnTheWay, ToCome, Here
  <2>5. media[Here(t)] # NoRec => media[Here(t)].pool = Iter(t).pool_id
    <3> SUFFICES ASSUME media[Here(t)] # NoRec PROVE media[Here(t)].pool = Iter(t).pool_id
      OBVIOUS
    <3>1. /\ SlotHash[Here(t)] = PoolHash[Iter(t).pool_id]
          /\ SlotHash[Here(t)] = PoolHash[media[Here(t)].pool]
          /\ ManyPools => media[Here(t)].pool = Iter(t).pool_id
      BY <1>1, <2>2 DEF OfPool, PoolAt, Inv, HashesMatch
    <3>2. media[Here(t)].pool \in Pools /\ Iter(t).pool_id \in Pools
      BY <1>1, <1>2, <2>2 DEF TypeOK, Records, Iterators
    <3> QED
      BY <3>1, <3>2, IteratorsAssumption
  <2>6. Sorted(Iter(t))'
    BY <1>5, <2>1 DEF Sorted, Entries
  <2> QED
    BY <1>3, <1>5, <2>1, <2>3, <2>4, <2>5, <2>6 DEF OnTheWay, env
<1>10. ThreadInv(t)'
  BY <1>6, <1>7, <1>8, <1>9 DEF ThreadInv
<1> QED
  BY <1>2, <1>4, <1>5, <1>10, OwnStep

\* kv_begin takes a place that nobody has; all records of the pool are yet to come.
LEMMA BeginStep ==
    ASSUME Inv, TypeOK', NEW t \in Threads, NEW p \in Pools, Begin(t, p)
    PROVE  Inv'
<1> USE DEF Goto
<1>1. pc[t] = "idle" /\ ~HasIter(t) /\ p \in in_use /\ ThreadInv(t) /\ TypeOK
  BY DEF Begin, Inv
<1>2. PICK i \in Places : /\ FreePlace(i)
                          /\ m_iter' = [m_iter EXCEPT ![i] = NewIter(p)]
                          /\ it_id' = [it_id EXCEPT ![t] = i]
  BY DEF Begin
<1>3. /\ UNCHANGED <<env, acquired>>
      /\ pc'[t] = "iterate" /\ api'[t] = "begin" /\ buffers'[t] = 0
      /\ stable'[t] = {s \in Slots : media[s] # NoRec /\ media[s].pool = p}
      /\ returned'[t] = {} /\ phase'[t] = "on"
  BY <1>1 DEF Begin, TypeOK
<1>4. lost' = [lost EXCEPT ![t] = FALSE] /\ stale' = [stale EXCEPT ![t] = FALSE]
  BY DEF Begin
<1>5. Apart(t)
  <2> SUFFICES ASSUME NEW u \in Threads \ {t}
               PROVE  /\ pc'[u] = pc[u] /\ api'[u] = api[u] /\ it_id'[u] = it_id[u]
                      /\ acquired'[u] = acquired[u] /\ buffers'[u] = buffers[u]
                      /\ stable'[u] = stable[u] /\ returned'[u] = returned[u]
                      /\ phase'[u] = phase[u] /\ stale'[u] = stale[u] /\ lost'[u] = lost[u]
                      /\ HasIter(u) => m_iter'[it_id[u]] = m_iter[it_id[u]]
    BY <1>3 DEF Apart
  <2>1. HasIter(u) => it_id[u] \in Places /\ it_id[u] # i
    BY <1>2, ItsIter DEF FreePlace, Inv, ThreadInv, Owns, Iter
  <2>2. HasIter(u) => m_iter'[it_id[u]] = m_iter[it_id[u]]
    BY <1>1, <1>2, <2>1 DEF TypeOK
  <2>3. /\ pc'[u] = pc[u] /\ api'[u] = api[u] /\ it_id'[u] = it_id[u]
        /\ acquired'[u] = acquired[u] /\ buffers'[u] = buffers[u]
        /\ stable'[u] = stable[u] /\ returned'[u] = returned[u] /\ phase'[u] = phase[u]
    BY <1>1 DEF Begin, TypeOK
  <2>4. stale'[u] = stale[u] /\ lost'[u] = lost[u]
    BY <1>1, <1>4 DEF TypeOK
  <2> QED
    BY <2>2, <2>3, <2>4
<1>6. it_id'[t] = i /\ i # -1 /\ Iter(t)' = NewIter(p)
  <2>1. it_id'[t] = i /\ m_iter'[i] = NewIter(p)
    BY <1>1, <1>2 DEF TypeOK
  <2>2. i # -1
    BY IteratorsAssumption DEF Places
  <2> QED
    BY <2>1, <2>2 DEF Iter
<1>7. NewIter(p) \in Iterators
  <2>1. [j \in 0 .. MaxRanges - 1 |-> 0] \in [0 .. MaxRanges - 1 -> Nat]
    OBVIOUS
  <2> QED
    BY <2>1 DEF NewIter, Iterators
<1>8. /\ NewIter(p).start = 1 /\ NewIter(p).pool_id = p
      /\ NewIter(p).num_ranges_found = 0 /\ NewIter(p).pos = 0
  BY DEF NewIter
<1> HIDE DEF NewIter
<1>9. Owns(t)'
  BY <1>1, <1>3, <1>6, <1>7, <1>8, IteratorsAssumption DEF Owns, HasIter, Valid, env
<1>10. Holding(t)'
  <2>1. ~acquired[t]
    BY <1>1 DEF ThreadInv, Holding
  <2> QED
    BY <1>3, <2>1 DEF Holding
<1>11. StillThere(t)'
  BY <1>3, <1>6, <1>8 DEF StillThere, env
<1>12. OnTheWay(t)'
  <2>1. MaxRanges \in Nat \ {0} /\ NumSlots \in Nat
    BY IteratorsAssumption
  <2>2. Sorted(NewIter(p))
    BY <1>8, <2>1 DEF Sorted, Entries
  <2>3. Sorted(Iter(t))'
    BY <1>6, <2>2 DEF Sorted, Entries
  <2>4. stable'[t] \subseteq ToCome(t)'
    BY <1>3, <1>6, <1>8, <2>1 DEF ToCome, Slots
  <2> QED
    BY <1>3, <2>3, <2>4 DEF OnTheWay
<1>13. ThreadInv(t)'
  BY <1>3, <1>9, <1>10, <1>11, <1>12 DEF ThreadInv
<1>14. m_iter[it_id'[t]] = NoIter
  BY <1>2, <1>6 DEF FreePlace
<1> QED
  BY <1>5, <1>13, <1>14, OwnStep

\* A caller gives its iterator up, and nobody else's place is touched.
LEMMA FreeStep ==
    ASSUME Inv, TypeOK', NEW t \in Threads, BeginFailed(t) \/ IterationEnd(t)
    PROVE  Inv'
<1> USE DEF Goto, bufs
<1>1. /\ pc[t] \in {"idle", "free"} /\ HasIter(t) /\ FreeIterator(t) /\ Forgotten(t)
      /\ ThreadInv(t) /\ TypeOK
  BY DEF BeginFailed, IterationEnd, Inv, ThreadInv, Owns
<1>2. PICK i : m_iter' = [m_iter EXCEPT ![it_id[t]] = i]
  BY <1>1 DEF FreeIterator
<1>3. /\ UNCHANGED <<env, api, acquired, buffers, lost>>
      /\ it_id'[t] = -1 /\ pc'[t] = "idle" /\ phase'[t] = "on"
  BY <1>1 DEF FreeIterator, Forgotten, BeginFailed, IterationEnd, TypeOK
<1>4. Apart(t)
  <2> SUFFICES ASSUME NEW u \in Threads \ {t}
               PROVE  /\ pc'[u] = pc[u] /\ it_id'[u] = it_id[u]
                      /\ stable'[u] = stable[u] /\ returned'[u] = returned[u]
                      /\ phase'[u] = phase[u] /\ stale'[u] = stale[u]
                      /\ HasIter(u) => m_iter'[it_id[u]] = m_iter[it_id[u]]
    BY <1>3 DEF Apart
  <2>1. HasIter(u) => it_id[u] \in Places /\ it_id[u] # it_id[t]
    BY <1>1, ItsIter DEF Inv, OwnPlaces
  <2>2. HasIter(u) => m_iter'[it_id[u]] = m_iter[it_id[u]]
    BY <1>1, <1>2, <2>1 DEF TypeOK
  <2>3. /\ pc'[u] = pc[u] /\ it_id'[u] = it_id[u]
        /\ stable'[u] = stable[u] /\ returned'[u] = returned[u] /\ phase'[u] = phase[u]
    BY <1>1 DEF FreeIterator, Forgotten, BeginFailed, IterationEnd, TypeOK
  <2>4. stale'[u] = stale[u]
    BY <1>1 DEF Forgotten, TypeOK
  <2> QED
    BY <2>2, <2>3, <2>4
<1>5. ~HasIter(t)'
  BY <1>3 DEF HasIter
<1>6. ~acquired[t] /\ (buffers[t] = 0 \/ lost[t])
  BY <1>1 DEF ThreadInv, Holding
<1>7. ThreadInv(t)'
  BY <1>3, <1>5, <1>6 DEF ThreadInv, Owns, Holding, OnTheWay, StillThere
<1> QED
  BY <1>4, <1>5, <1>7, OwnStep

-----------------------------------------------------------------------------
(***************************************************************************)
(* Steps of the rest of the store.                                         *)
(***************************************************************************)
\* They leave the iterators and the calls alone: what is left to show of a thread is
\* what relates its iterator to the store.
LEMMA EnvironmentKept ==
    ASSUME Inv, TypeOK', UNCHANGED <<m_iter, pc, api, it_id, bufs, returned, phase>>, HashesMatch',
           \A t \in Threads :
              /\ stable'[t] \subseteq stable[t]
              /\ lost[t] => lost'[t]
              /\ HasIter(t) /\ ~lost'[t] => Iter(t).pool_id \in in_use'
              /\ HasIter(t) =>
                    \A s \in stable'[t] : media'[s] # NoRec /\ media'[s].pool = Iter(t).pool_id
              /\ HasIter(t) /\ ~stale'[t] /\ media'[Here(t)] # NoRec =>
                    ~stale[t] /\ media[Here(t)] # NoRec /\ media'[Here(t)].pool = media[Here(t)].pool
    PROVE  Inv'
<1> USE DEF bufs
<1>1. OwnPlaces'
  BY DEF Inv, OwnPlaces, HasIter
<1>2. ASSUME NEW t \in Threads PROVE ThreadInv(t)'
  <2>1. ThreadInv(t) /\ (HasIter(t) <=> HasIter(t)') /\ Iter(t)' = Iter(t) /\ Here(t)' = Here(t)
    BY DEF Inv, HasIter, Iter, Here
  <2>2. ToCome(t)' = ToCome(t) /\ (Sorted(Iter(t)) <=> Sorted(Iter(t))')
    BY <2>1 DEF ToCome, Sorted, Entries
  <2>3. Owns(t)'
    BY <2>1 DEF ThreadInv, Owns, Valid
  <2>4. Holding(t)'
    BY <2>1 DEF ThreadInv, Holding
  <2>5. StillThere(t)'
    BY <2>1 DEF StillThere
  <2>6. OnTheWay(t)'
    <3> SUFFICES ASSUME HasIter(t), phase[t] = "on" PROVE OnTheWay(t)'
      BY <2>1 DEF OnTheWay
    <3>1. stable'[t] \subseteq returned'[t] \cup ToCome(t)'
      BY <2>1, <2>2 DEF ThreadInv, OnTheWay
    <3>2. pc[t] \in {"idle", "get_loc", "read"} =>
             (~stale'[t] /\ media'[Here(t)] # NoRec => media'[Here(t)].pool = Iter(t).pool_id)
      BY <2>1 DEF ThreadInv, OnTheWay
    <3> QED
      BY <2>1, <2>2, <3>1, <3>2 DEF ThreadInv, OnTheWay
  <2>7. (phase[t] = "ended" => stable[t] \subseteq returned[t])'
    BY <2>1 DEF ThreadInv
  <2> QED
    BY <2>3, <2>4, <2>5, <2>6, <2>7 DEF ThreadInv
<1> QED
  BY <1>1, <1>2 DEF Inv

LEMMA EnvironmentStep == ASSUME Inv, TypeOK', Environment PROVE Inv'
<1> USE DEF bufs, seen
<1>0. /\ TypeOK /\ HashesMatch /\ \A t \in Threads : Owns(t) /\ StillThere(t)
      /\ NoRec \notin Records
  BY IteratorsAssumption DEF Inv, ThreadInv
<1>1. ASSUME NEW s \in Slots, NEW p \in Pools, Put(s, p) PROVE Inv'
  <2>1. /\ media'[s] = [pool |-> p, expired |-> FALSE] /\ media'[s].pool = p
        /\ \A r \in Slots \ {s} : media'[r] = media[r]
        /\ media[s] # NoRec => media[s].pool = p
        /\ SlotHash[s] = PoolHash[p]
    BY <1>0, <1>1 DEF Put, TypeOK
  <2>2. UNCHANGED <<m_iter, pc, api, it_id, bufs, returned, phase, in_use, stable, lost>>
    BY <1>1 DEF Put
  <2>3. HashesMatch'
    BY <1>0, <2>1 DEF HashesMatch
  <2>4. ASSUME NEW t \in Threads
        PROVE  /\ HasIter(t) =>
                    \A r \in stable'[t] : media'[r] # NoRec /\ media'[r].pool = Iter(t).pool_id
               /\ HasIter(t) /\ ~lost'[t] => Iter(t).pool_id \in in_use'
    <3>1. media'[s] # NoRec
      <4>1. [pool |-> p, expired |-> FALSE] \in Records
        BY DEF Records
      <4> QED
        BY <1>0, <2>1, <4>1
    <3>2. stable[t] \subseteq Slots
      BY <1>0 DEF TypeOK
    <3> QED
      BY <1>0, <2>1, <2>2, <3>1, <3>2 DEF StillThere, Owns, Valid
  <2>5. ASSUME NEW t \in Threads, HasIter(t), ~stale'[t], media'[Here(t)] # NoRec
        PROVE  ~stale[t] /\ media[Here(t)] # NoRec /\ media'[Here(t)].pool = media[Here(t)].pool
    <3>1. ~stale[t] /\ ~(media[s] = NoRec /\ s = Here(t))
      BY <1>1, <2>5 DEF Put
    <3>2. CASE s = Here(t)
      BY <2>1, <3>1, <3>2
    <3>3. CASE s # Here(t)
      <4>1. media'[Here(t)] = media[Here(t)]
        BY <1>0, <1>1, <3>3 DEF Put, TypeOK
      <4> QED
        BY <2>5, <3>1, <4>1
    <3> QED
      BY <3>2, <3>3
  <2> QED
    BY <2>2, <2>3, <2>4, <2>5, EnvironmentKept
<1>2. ASSUME NEW s \in Slots, Trim(s) PROVE Inv'
  <2>1. /\ media'[s] = NoRec /\ \A r \in Slots \ {s} : media'[r] = media[r]
        /\ \A t \in Threads : stable'[t] = stable[t] \ {s} /\ stable[t] \subseteq Slots
    BY <1>0, <1>2 DEF Trim, TypeOK
  <2>2. UNCHANGED <<m_iter, pc, api, it_id, bufs, returned, phase, in_use, lost>>
    BY <1>2 DEF Trim
  <2>3. HashesMatch'
    BY <1>0, <2>1 DEF HashesMatch
  <2>4. ASSUME NEW t \in Threads
        PROVE  /\ HasIter(t) =>
                    \A r \in stable'[t] : media'[r] # NoRec /\ media'[r].pool = Iter(t).pool_id
               /\ HasIter(t) /\ ~lost'[t] => Iter(t).pool_id \in in_use'
               /\ stable'[t] \subseteq stable[t]
    BY <1>0, <2>1, <2>2 DEF StillThere, Owns, Valid
  <2>5. ASSUME NEW t \in Threads, HasIter(t), ~stale'[t], media'[Here(t)] # NoRec
        PROVE  ~stale[t] /\ media[Here(t)] # NoRec /\ media'[Here(t)].pool = media[Here(t)].pool
    <3>1. ~stale[t] /\ s # Here(t)
      BY <1>2, <2>5 DEF Trim
    <3>2. media'[Here(t)] = media[Here(t)]
      BY <1>0, <1>2, <3>1 DEF Trim, TypeOK
    <3> QED
      BY <2>5, <3>1, <3>2
  <2> QED
    BY <2>2, <2>3, <2>4, <2>5, EnvironmentKept
<1>3. ASSUME NEW s \in Slots, Expire(s) PROVE Inv'
  <2>1. media[s] \in Records /\ media[s] # NoRec
    BY <1>0, <1>3 DEF Expire, TypeOK
  <2>2. media'[s] = [media[s] EXCEPT !.expired = TRUE]
    BY <1>0, <1>3 DEF Expire, TypeOK
  <2>3. media'[s] \in Records /\ media'[s].pool = media[s].pool
    BY <2>1, <2>2 DEF Records
  <2>4. \A r : r # s => media'[r] = media[r]
    BY <1>0, <1>3 DEF Expire, TypeOK
  <2>5. \A r : media'[r] # NoRec => media[r] # NoRec /\ media'[r].pool = media[r].pool
    BY <2>1, <2>3, <2>4
  <2>6. \A r : media[r] # NoRec => media'[r] # NoRec
    BY <1>0, <2>3, <2>4
  <2>7. UNCHANGED <<m_iter, pc, api, it_id, bufs, returned, phase, in_use, lost, stable, stale>>
    BY <1>3 DEF Expire
  <2>8. HashesMatch'
    BY <1>0, <2>5 DEF HashesMatch
  <2>9. ASSUME NEW t \in Threads
        PROVE  /\ HasIter(t) =>
                    \A r \in stable'[t] : media'[r] # NoRec /\ media'[r].pool = Iter(t).pool_id
               /\ HasIter(t) /\ ~lost'[t] => Iter(t).pool_id \in in_use'
    BY <1>0, <2>5, <2>6, <2>7 DEF StillThere, Owns, Valid
  <2> QED
    BY <2>5, <2>7, <2>8, <2>9, EnvironmentKept
<1>4. ASSUME NEW p \in Pools, DeletePool(p) \/ CreatePool(p) PROVE Inv'
  <2>1. UNCHANGED <<m_iter, pc, api, it_id, bufs, returned, phase, media, stable, stale>>
    BY <1>4 DEF DeletePool, CreatePool
  <2>2. HashesMatch'
    BY <1>0, <2>1 DEF HashesMatch
  <2>3. ASSUME NEW t \in Threads
        PROVE  (lost[t] => lost'[t]) /\ (HasIter(t) /\ ~lost'[t] => Iter(t).pool_id \in in_use')
    BY <1>0, <1>4 DEF DeletePool, CreatePool, Owns, Valid
  <2>4. ASSUME NEW t \in Threads
        PROVE  HasIter(t) =>
                    \A r \in stable'[t] : media'[r] # NoRec /\ media'[r].pool = Iter(t).pool_id
    BY <1>0, <2>1 DEF StillThere
  <2> QED
    BY <2>1, <2>2, <2>3, <2>4, EnvironmentKept
<1> QED
  BY <1>1, <1>2, <1>3, <1>4 DEF Environment

-----------------------------------------------------------------------------
LEMMA Inductive == Inv /\ [Next]_vars => Inv'
<1> SUFFICES ASSUME Inv, [Next]_vars PROVE Inv'
  OBVIOUS
<1>1. TypeOK'
  BY TypeStep
<1>2. CASE Environment
  BY <1>1, <1>2, EnvironmentStep
<1>3. ASSUME NEW t \in Threads, Step(t) PROVE Inv'
  BY <1>1, <1>3, CallStep, FailStep, MoveOnStep, FetchStep, StandStep, FreeStep DEF Step
<1>4. ASSUME NEW t \in Threads, Start(t) PROVE Inv'
  BY <1>1, <1>4, CallStep, BeginStep, FreeStep DEF Start
<1>5. CASE UNCHANGED vars
  BY <1>1, <1>5, EnvironmentKept DEF vars, env, bufs, seen, Inv, HashesMatch, ThreadInv, StillThere,
                                     Owns, Valid
<1> QED
  BY <1>2, <1>3, <1>4, <1>5 DEF Next

LEMMA Invariance == Spec => []Inv
<1> QED
  BY InitInv, Inductive, PTL DEF Spec

-----------------------------------------------------------------------------
\* The variables are in their sets.
THEOREM TypeCorrect == Spec => []TypeOK
<1>1. Inv => TypeOK
  BY DEF Inv
<1> QED
  BY <1>1, Invariance, PTL

\* No two callers have the same iterator, and nobody's is freed under it (alloc_iter,
\* free_iterator).
THEOREM OneOwnerHolds == Spec => []OneOwner
<1>1. Inv => OneOwner
  BY DEF Inv, OwnPlaces, ThreadInv, Owns, OneOwner
<1> QED
  BY <1>1, Invariance, PTL

\* An iteration moves forward until the end or an error (iterate).
THEOREM ForwardHolds == Spec => []Forward
<1>1. Inv => Forward
  BY DEF Inv, ThreadInv, Owns, OnTheWay, Forward
<1> QED
  BY <1>1, Invariance, PTL

\* An iteration that met the end was at every record of its pool that was there all the
\* time (iter_over_pool).
THEOREM CompleteHolds == Spec => []Complete
<1>1. Inv => Complete
  BY DEF Inv, ThreadInv, Complete
<1> QED
  BY <1>1, Invariance, PTL

\* kv_get_current reads a record of the iterator's pool where nothing was written since
\* the iterator was placed.
THEOREM ReadsItsPoolHolds == Spec => []ReadsItsPool
<1>1. Inv => ReadsItsPool
  BY DEF Inv, ThreadInv, Owns, OnTheWay, ReadsItsPool
<1> QED
  BY <1>1, Invariance, PTL

\* A call that returned has released the buffers it took, if the pool was not deleted
\* (kv_get_current).
THEOREM BuffersReturnedHolds == Spec => []BuffersReturned
<1>1. Inv => BuffersReturned
  BY DEF Inv, ThreadInv, Holding, BuffersReturned
<1> QED
  BY <1>1, Invariance, PTL

\* A caller that gives its iterator up leaves its place free, if the pool was not deleted
\* (free_iterator).
THEOREM PlaceComesBackHolds == Spec => PlaceComesBack
<1>1. ASSUME Inv, [Next]_vars, NEW t \in Threads, HasIter(t), it_id'[t] = -1
      PROVE  lost[t] \/ m_iter'[it_id[t]] = NoIter
  <2>1. it_id'[t] # it_id[t]
    BY <1>1 DEF HasIter
  <2>2. FreeIterator(t)
    <3>1. ASSUME NEW u \in Threads \ {t}, it_id' = [it_id EXCEPT ![u] = -1] PROVE FALSE
      <4>1. it_id \in [Threads -> Places \cup {-1}]
        BY <1>1 DEF Inv, TypeOK
      <4> QED
        BY <2>1, <3>1, <4>1
    <3>2. ASSUME NEW u \in Threads, NEW p \in Pools PROVE ~Begin(u, p)
      <4> SUFFICES ASSUME Begin(u, p) PROVE FALSE
        OBVIOUS
      <4>1. PICK i \in Places : it_id' = [it_id EXCEPT ![u] = i]
        BY DEF Begin
      <4>2. u # t
        BY <1>1 DEF Begin
      <4> QED
        BY <2>1, <4>1, <4>2 DEF Inv, TypeOK
    <3> QED
      BY <1>1, <2>1, <3>1, <3>2
      DEF Next, Step, Start, Environment, Put, Trim, Expire, DeletePool, CreatePool, vars, PoolGone,
          MoveOn, Fetch, AtEnd, IterateError, Skip, CheckError, Fail, Stand, NextCall, CurrentCall,
          Call, GetLoc, GetLocError, PassOver, Answer, ReadError, Exit, BeginFailed, IterationEnd,
          FreeIterator
  <2>3. ~lost[t] => Valid(t)
    BY <1>1 DEF Inv, ThreadInv, Owns
  <2> QED
    BY <1>1, <2>2, <2>3, ItsIter DEF FreeIterator, Inv, TypeOK
<1>2. Inv /\ [Next]_vars => [\A t \in Threads : HasIter(t) /\ it_id'[t] = -1 =>
                                 lost[t] \/ m_iter'[it_id[t]] = NoIter]_vars
  BY <1>1
<1> QED
  BY <1>2, Invariance, PTL DEF Spec, PlaceComesBack
=============================================================================
