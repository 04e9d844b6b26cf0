----------------------------- MODULE ExpiryProofs -----------------------------
(***************************************************************************)
(* Theorems about Expiry, for any number of callers, of threads that trim  *)
(* expired records, of LBAs, of vectors in a batch and of ranges in a scan.*)
(***************************************************************************)
EXTENDS Expiry, KVOpsProofs, FiniteSetTheorems

-----------------------------------------------------------------------------
(***************************************************************************)
(* The order of the ranges: Rank numbers the elements of a finite set from 0. *)
(***************************************************************************)
\* A rank is a number below the size of the set.
LEMMA RankType ==
    ASSUME NEW S \in SUBSET Nat, IsFiniteSet(S), NEW s \in S
    PROVE  Rank(s, S) \in 0 .. Cardinality(S) - 1
<1> DEFINE below == {r \in S : r < s}
<1>1. below \in SUBSET S /\ below # S
  OBVIOUS
<1>2. IsFiniteSet(below) /\ Cardinality(below) <= Cardinality(S) /\ Cardinality(below) # Cardinality(S)
  BY <1>1, FS_Subset
<1>3. Cardinality(below) \in Nat /\ Cardinality(S) \in Nat
  BY <1>2, FS_CardinalityType
<1> QED
  BY <1>2, <1>3 DEF Rank

\* The larger of two elements has the larger rank.
LEMMA RankMonotone ==
    ASSUME NEW S \in SUBSET Nat, IsFiniteSet(S), NEW r \in S, NEW s \in S, r < s
    PROVE  Rank(r, S) < Rank(s, S)
<1> DEFINE below(x) == {q \in S : q < x}
<1>1. below(r) \in SUBSET below(s) /\ below(r) # below(s)
  <2>1. r \in below(s) /\ r \notin below(r)
    OBVIOUS
  <2>2. \A q \in S : q < r => q < s
    OBVIOUS
  <2> QED
    BY <2>1, <2>2
<1>2. IsFiniteSet(below(s))
  BY FS_Subset
<1>3. Cardinality(below(r)) <= Cardinality(below(s)) /\ Cardinality(below(r)) # Cardinality(below(s))
  BY <1>1, <1>2, FS_Subset
<1>4. Cardinality(below(r)) \in Nat /\ Cardinality(below(s)) \in Nat
  BY <1>2, FS_Subset, FS_CardinalityType
<1> QED
  BY <1>3, <1>4 DEF Rank

\* Every number below the size is a rank: there are as many ranks as elements.
LEMMA RankOnto ==
    ASSUME NEW S \in SUBSET Nat, IsFiniteSet(S), NEW j \in 0 .. Cardinality(S) - 1
    PROVE  \E s \in S : Rank(s, S) = j
<1> DEFINE n == Cardinality(S)
           ranks == 0 .. n - 1
           rank == [s \in S |-> Rank(s, S)]
<1>1. n \in Nat
  BY FS_CardinalityType
<1>2. rank \in [S -> ranks]
  BY RankType
<1>3. \A r, s \in S : rank[r] = rank[s] => r = s
  <2> SUFFICES ASSUME NEW r \in S, NEW s \in S, r # s PROVE rank[r] # rank[s]
    OBVIOUS
  <2>1. r < s \/ s < r
    OBVIOUS
  <2>2. rank[r] < rank[s] \/ rank[s] < rank[r]
    BY <2>1, RankMonotone
  <2> QED
    BY <1>1, <1>2, <2>2
<1>4. \A s \in S : rank[s] = Rank(s, S)
  OBVIOUS
<1> HIDE DEF rank
<1>5. rank \in Injection(S, ranks)
  BY <1>2, <1>3 DEF Injection, IsInjective
<1>6. IsFiniteSet(ranks) /\ Cardinality(ranks) = n
  BY <1>1, FS_Interval
<1>7. rank \in Surjection(S, ranks)
  BY <1>5, <1>6, FS_Injection
<1>8. j \in ranks
  OBVIOUS
<1> QED
  BY <1>4, <1>7, <1>8 DEF Surjection

-----------------------------------------------------------------------------
\* What a thread has in its arrays where it is: the entry it comes to is in the
\* batch, and there is room in it when the manager collects.
Positions ==
    /\ wpc \in [Workers -> WorkerPcs]
    /\ batch \in [Workers -> Seq(Slots)]
    /\ ix \in [Workers -> 1 .. MaxIovs]
    /\ \A w \in Workers :
         /\ Len(batch[w]) <= MaxIovs
         /\ wpc[w] \in {"insert", "trim", "release"} => ix[w] <= Len(batch[w])
         /\ wpc[w] \notin {"insert", "release"} => ix[w] = 1
         /\ wpc[w] \in {"wait", "ready"} => batch[w] = <<>>
         /\ wpc[w] \in {"ready", "scan", "check"} => w = Manager
         /\ wpc[w] \in {"scan", "check"} => Len(batch[w]) < MaxIovs
    /\ iter \in [start : Nat, pos : Nat, ranges : Seq(Slots)]
    /\ iter.pos > 0
    /\ wpc[Manager] = "check" => iter.pos <= Len(iter.ranges)
    /\ code \in {"ok", "expired", "failed"}
    /\ over \in BOOLEAN

\* What the manager shares with the deletion thread, and the observer.
SharedOK ==
    /\ glb \in {"free", "expiry", "pool_del"}
    /\ dpc \in {"wait", "lock", "work"}
    /\ pool_del_status \in BOOLEAN
    /\ expiry_mode \in ExpiryModes
    /\ rewritten \subseteq Slots

\* Whoever means to trim an LBA found an expired record there, and it is there
\* still unless the LBA was written or read blindly.
ClaimsExpired ==
    \A s \in Claimed : media[s] # NoRec => Expired(media[s]) \/ s \in rewritten

\* The inductive invariant of the threads and the calls.
EInv == IInv /\ Positions /\ SharedOK /\ ClaimsExpired

-----------------------------------------------------------------------------
\* An LBA that a thread has inserted, entry by entry.
InsertedAt(w, j) ==
    \/ wpc[w] = "insert" /\ j < ix[w]
    \/ wpc[w] = "trim"
    \/ wpc[w] = "release" /\ j >= ix[w]

\* A thread has inserted no LBA twice.
Distinct ==
    \A w \in Workers : \A i, j \in 1 .. Len(batch[w]) :
        InsertedAt(w, i) /\ InsertedAt(w, j) /\ batch[w][i] = batch[w][j] => i = j

\* Who has an LBA in the list.
Has(x, s) ==
    IF x \in Workers
    THEN \E j \in 1 .. Len(batch[x]) : InsertedAt(x, j) /\ batch[x][j] = s
    ELSE held[x] /\ lba[x] = s

Owners == Threads \cup Workers

\* LbasExact, LBA by LBA.
HeldExactly ==
    /\ \A s \in Slots : s \in safe <=> \E x \in Owners : Has(x, s)
    /\ \A s \in Slots : \A x, y \in Owners : Has(x, s) /\ Has(y, s) => x = y

\* The inductive invariant of the safe LBA list.
EHolds == EInv /\ HoldsWhere /\ Distinct /\ HeldExactly

-----------------------------------------------------------------------------
LEMMA TypesFollow == EInv => ETypeOK
  BY DEF EInv, IInv, Positions, SharedOK, ETypeOK

\* The first MaxRanges LBAs ahead: the manager's iterator stands at the first of
\* them and goes on behind the last.
LEMMA RangesAhead ==
    ASSUME Positions, Ahead # {}
    PROVE  /\ NextRanges \in [start : Nat, pos : Nat, ranges : Seq(Slots)]
           /\ NextRanges.pos = 1
           /\ Len(NextRanges.ranges) >= 1
           /\ \A j \in 1 .. Len(NextRanges.ranges) : NextRanges.ranges[j] \in Ahead
<1> DEFINE found == {s \in Ahead : Rank(s, Ahead) < MaxRanges}
           n == Cardinality(found)
           at(j) == CHOOSE s \in found : Rank(s, found) = j - 1
           ranges == [j \in 1 .. n |-> at(j)]
           last == CHOOSE s \in found : \A r \in found : r <= s
<1>1. Ahead \in SUBSET Slots /\ Ahead \in SUBSET Nat /\ IsFiniteSet(Ahead)
  <2>1. Ahead \in SUBSET Slots
    BY DEF Ahead
  <2> QED
    BY <2>1, ExpiryAssumption, FS_Subset
<1>2. found \in SUBSET Ahead /\ found \in SUBSET Nat /\ IsFiniteSet(found)
  <2>1. found \in SUBSET Ahead
    OBVIOUS
  <2> QED
    BY <1>1, <2>1, FS_Subset
<1>3. found # {}
  <2>1. Cardinality(Ahead) \in Nat \ {0}
    BY <1>1, FS_CardinalityType, FS_EmptySet
  <2>2. PICK first \in Ahead : Rank(first, Ahead) = 0
    BY <1>1, <2>1, RankOnto
  <2> QED
    BY <2>2, ExpiryAssumption
<1>4. n \in Nat \ {0}
  BY <1>2, <1>3, FS_CardinalityType, FS_EmptySet
<1>5. NextRanges = [start |-> 1 + last, pos |-> 1, ranges |-> ranges]
  BY DEF NextRanges
<1> HIDE DEF found
<1>6. \A j \in 1 .. n : at(j) \in found
  BY <1>2, <1>4, RankOnto
<1>7. last \in found
  <2>1. PICK top \in found : Rank(top, found) = n - 1
    BY <1>2, <1>4, RankOnto
  <2>2. \A r \in found : r <= top
    <3> SUFFICES ASSUME NEW r \in found, top < r PROVE FALSE
      BY <1>2
    <3>1. Rank(top, found) < Rank(r, found)
      BY <1>2, RankMonotone
    <3>2. Rank(r, found) \in 0 .. n - 1
      BY <1>2, RankType
    <3> QED
      BY <1>4, <2>1, <3>1, <3>2
  <2> QED
    BY <2>2
<1> HIDE DEF n, at, last
<1>8. ranges \in Seq(Slots) /\ Len(ranges) = n
  <2>1. \A j \in 1 .. n : at(j) \in Slots
    BY <1>1, <1>2, <1>6
  <2>2. ranges \in [1 .. n -> Slots]
    BY <2>1
  <2> QED
    BY <1>4, <2>2
<1>9. \A j \in 1 .. n : ranges[j] \in Ahead
  BY <1>2, <1>6
<1>10. 1 + last \in Nat
  BY <1>2, <1>7
<1> HIDE DEF ranges
<1> QED
  BY <1>4, <1>5, <1>8, <1>9, <1>10

\* Where the iterator moves.
LEMMA MovedTo ==
    ASSUME Positions, InRanges \/ Ahead # {}
    PROVE  /\ Moved \in [start : Nat, pos : Nat, ranges : Seq(Slots)]
           /\ Moved.pos \in 1 .. Len(Moved.ranges)
           /\ Moved.ranges[Moved.pos] \in Slots
<1>1. CASE InRanges
  <2>1. Moved = [iter EXCEPT !.pos = @ + 1]
    BY <1>1 DEF Moved
  <2>2. iter.pos \in Nat /\ iter.pos + 1 \in Nat /\ iter.ranges \in Seq(Slots) /\ iter.start \in Nat
    BY DEF Positions
  <2>3. Moved.pos = iter.pos + 1 /\ Moved.ranges = iter.ranges /\ Moved.start = iter.start
    BY <2>1 DEF Positions
  <2>4. Moved \in [start : Nat, pos : Nat, ranges : Seq(Slots)]
    BY <2>1, <2>2 DEF Positions
  <2>5. iter.pos + 1 \in 1 .. Len(iter.ranges)
    BY <1>1, <2>2 DEF InRanges, Positions
  <2>6. iter.ranges[iter.pos + 1] \in Slots
    BY <2>2, <2>5
  <2> QED
    BY <2>3, <2>4, <2>5, <2>6
<1>2. CASE ~InRanges
  <2>1. Moved = NextRanges
    BY <1>2 DEF Moved
  <2>2. Moved.ranges \in Seq(Slots) /\ Moved.pos = 1 /\ Len(Moved.ranges) \in Nat
    BY <1>2, <2>1, RangesAhead
  <2>3. 1 \in 1 .. Len(Moved.ranges)
    BY <1>2, <2>1, <2>2, RangesAhead
  <2> QED
    BY <1>2, <2>1, <2>2, <2>3, RangesAhead
<1> QED
  BY <1>1, <1>2

-----------------------------------------------------------------------------
\* The initial states satisfy the invariant.
LEMMA InitEInv == EInit => EInv
<1> SUFFICES ASSUME EInit PROVE EInv
  OBVIOUS
<1>1. IInv
  <2>1. (CHOOSE s \in Slots : TRUE) \in Slots
    BY KVOpsAssumption
  <2>2. media \in [Slots -> Record \cup {NoRec}]
    BY ExpiryAssumption DEF EInit
  <2>3. Opened
    BY DEF EInit
  <2>4. TypeOK
    BY <2>1, <2>2, <2>3, KVOpsAssumption DEF Opened, TypeOK, Pcs, Results
  <2>5. Located
    BY <2>3 DEF Opened, Located, GenPcs, ReadPcs, DeletePcs
  <2> QED
    BY <2>4, <2>5 DEF EInit, IInv
<1>2. Positions
  <2>1. <<>> \in Seq(Slots) /\ Len(<<>>) = 0
    OBVIOUS
  <2>2. 1 \in 1 .. MaxIovs /\ MaxIovs \in Nat /\ MaxIovs > 0
    BY KVOpsAssumption
  <2>3. Manager \in Workers
    BY DEF Workers
  <2>4. wpc[Manager] = "wait" /\ \A w \in Workers : wpc[w] = "wait" /\ batch[w] = <<>> /\ ix[w] = 1
    BY <2>3 DEF EInit
  <2>5. /\ wpc \in [Workers -> WorkerPcs]
        /\ batch \in [Workers -> Seq(Slots)]
        /\ ix \in [Workers -> 1 .. MaxIovs]
    BY <2>1, <2>2 DEF EInit, WorkerPcs
  <2>6. /\ iter \in [start : Nat, pos : Nat, ranges : Seq(Slots)] /\ iter.pos > 0
    BY <2>1 DEF EInit
  <2>7. code \in {"ok", "expired", "failed"} /\ over \in BOOLEAN
    BY DEF EInit
  <2> QED
    BY <2>1, <2>2, <2>4, <2>5, <2>6, <2>7 DEF Positions
<1>3. SharedOK
  BY DEF EInit, SharedOK
<1>4. Claimed = {}
  <2>1. \A t \in Threads : pc[t] # "expire"
    BY DEF EInit, Opened
  <2>2. Range(expq) = {} /\ \A w \in Workers : Range(batch[w]) = {}
    BY DEF EInit, Opened, Range
  <2>3. {iter.ranges[j] : j \in 2 .. Len(iter.ranges)} = {}
    BY DEF EInit
  <2> QED
    BY <2>1, <2>2, <2>3 DEF Claimed
<1> QED
  BY <1>1, <1>2, <1>3, <1>4 DEF EInv, ClaimsExpired

\* A step of a call, or of the clock, is one of KVOps.
LEMMA CallsAreNext ==
    ASSUME \/ \E t \in Threads : Step(t) \/ \E r \in Requests : Call(t, r)
           \/ Tick
    PROVE  Next
  BY DEF Next

\* What the threads do to the calls: they trim records, insert and delete LBAs and
\* take blocks off the queue.
LEMMA QuietStep ==
    ASSUME IInv, UNCHANGED <<clock, pc, local>>, safe' \subseteq Slots, expq' \in Seq(Slots),
           UNCHANGED media \/ \E S : media' = [s \in Slots |-> IF s \in S THEN NoRec ELSE media[s]]
    PROVE  IInv'
<1>1. /\ media' \in [Slots -> Record \cup {NoRec}]
      /\ \A s \in Slots : media'[s] # NoRec => media'[s] = media[s]
  BY DEF IInv, TypeOK
<1>2. TypeOK'
  BY <1>1 DEF IInv, TypeOK, local
<1>3. Located'
  BY DEF IInv, Located, local
<1>4. Placement'
  BY <1>1 DEF IInv, Placement, local
<1> QED
  BY <1>2, <1>3, <1>4 DEF IInv

\* Every step of the threads is one of these.
ThreadStep ==
    \/ \E w \in Workers : Background(w)
    \/ Wake \/ WaitForTrigger \/ Pass
    \/ DeletionThread

LEMMA StepIsEither ==
    ASSUME ENext
    PROVE  \/ Calls(Next)
           \/ ThreadStep
  BY CallsAreNext DEF ENext, Calls, ThreadStep

\* The next entry of a batch is an LBA.
LEMMA EntryIsSlot ==
    ASSUME Positions, NEW w \in Workers, wpc[w] \in {"insert", "trim", "release"}
    PROVE  ix[w] \in 1 .. Len(batch[w]) /\ batch[w][ix[w]] \in Slots
<1>1. batch[w] \in Seq(Slots) /\ ix[w] \in 1 .. MaxIovs /\ ix[w] <= Len(batch[w])
  BY DEF Positions
<1>2. ix[w] \in 1 .. Len(batch[w])
  BY <1>1, KVOpsAssumption
<1> QED
  BY <1>1, <1>2

\* A block of the queue: its first MaxIovs entries.
LEMMA BlockOfQueue ==
    ASSUME TypeOK, Len(expq) >= MaxIovs
    PROVE  /\ SubSeq(expq, 1, MaxIovs) \in Seq(Slots)
           /\ Len(SubSeq(expq, 1, MaxIovs)) = MaxIovs
           /\ \A j \in 1 .. MaxIovs : SubSeq(expq, 1, MaxIovs)[j] \in Range(expq)
           /\ SubSeq(expq, MaxIovs + 1, Len(expq)) \in Seq(Slots)
           /\ Range(SubSeq(expq, MaxIovs + 1, Len(expq))) \subseteq Range(expq)
<1> DEFINE rest == SubSeq(expq, MaxIovs + 1, Len(expq))
           block == SubSeq(expq, 1, MaxIovs)
<1>1. expq \in Seq(Slots) /\ Len(expq) \in Nat /\ MaxIovs \in Nat \ {0}
  BY KVOpsAssumption DEF TypeOK
<1>2. \A j \in 1 .. Len(expq) : expq[j] \in Slots /\ expq[j] \in Range(expq)
  BY <1>1 DEF Range
<1>3. Len(block) = MaxIovs /\ \A j \in 1 .. MaxIovs : block[j] = expq[j]
  BY <1>1
<1>4. Len(rest) = Len(expq) - MaxIovs /\ \A j \in 1 .. Len(rest) : rest[j] = expq[MaxIovs + j]
  BY <1>1
<1>5. block \in Seq(Slots) /\ rest \in Seq(Slots)
  BY <1>1
<1>6. \A j \in 1 .. Len(rest) : rest[j] \in Range(expq)
  BY <1>1, <1>2, <1>4
<1>7. DOMAIN rest = 1 .. Len(rest)
  BY <1>5
<1> HIDE DEF rest, block
<1>8. Range(rest) \subseteq Range(expq)
  BY <1>6, <1>7 DEF Range
<1>9. \A j \in 1 .. MaxIovs : block[j] \in Range(expq)
  BY <1>1, <1>2, <1>3
<1> QED
  BY <1>3, <1>5, <1>8, <1>9 DEF rest, block

-----------------------------------------------------------------------------
\* The manager is not one of the threads of the asynchronous expiry.
LEMMA ManagerIsWorker == Manager \in Workers /\ Manager \notin AsyncThreads
  BY ExpiryAssumption DEF Workers

\* The LBA at which the iterator stands fits in the batch.
LEMMA CollectPlaces ==
    ASSUME Positions, wpc[Manager] \in {"scan", "check"}, NEW i, i.ranges[i.pos] \in Slots,
           Collect(i), UNCHANGED <<ix, over>>,
           iter' \in [start : Nat, pos : Nat, ranges : Seq(Slots)], iter'.pos > 0,
           code' \in {"ok", "expired", "failed"}
    PROVE  Positions'
<1> DEFINE new == Append(batch[Manager], i.ranges[i.pos])
<1>1. batch[Manager] \in Seq(Slots) /\ Len(batch[Manager]) < MaxIovs /\ ix[Manager] = 1
  BY ManagerIsWorker DEF Positions
<1>2. new \in Seq(Slots) /\ Len(new) = Len(batch[Manager]) + 1
  BY <1>1
<1>3. batch' = [batch EXCEPT ![Manager] = new]
  BY DEF Collect
<1> HIDE DEF new
<1>4. batch'[Manager] = new
  BY <1>3, ManagerIsWorker DEF Positions
<1>5. Len(new) <= MaxIovs /\ Len(new) >= 1 /\ (Len(new) # MaxIovs => Len(new) < MaxIovs)
  BY <1>1, <1>2, KVOpsAssumption
<1>6. CASE Len(new) = MaxIovs
  <2>1. wpc' = [wpc EXCEPT ![Manager] = "insert"]
    BY <1>4, <1>6 DEF Collect, Full, WGoto
  <2> QED
    BY <1>1, <1>2, <1>3, <1>5, <2>1, ManagerIsWorker DEF Positions, WorkerPcs
<1>7. CASE Len(new) # MaxIovs
  <2>1. wpc' = [wpc EXCEPT ![Manager] = "scan"]
    BY <1>4, <1>7 DEF Collect, Full, WGoto
  <2> QED
    BY <1>1, <1>2, <1>3, <1>5, <1>7, <2>1, ManagerIsWorker DEF Positions, WorkerPcs
<1> QED
  BY <1>6, <1>7

\* The end of a pass: what was collected is trimmed or forgotten.
LEMMA EndPassPlaces ==
    ASSUME Positions, wpc[Manager] \in {"scan", "check"}, NEW outcome,
           NEW i \in [start : Nat, pos : Nat, ranges : Seq(Slots)], i.pos > 0,
           EndPass(outcome, i), UNCHANGED ix, code' = "ok"
    PROVE  Positions'
<1>1. batch[Manager] \in Seq(Slots) /\ Len(batch[Manager]) < MaxIovs /\ ix[Manager] = 1
  BY ManagerIsWorker DEF Positions
<1>2. CASE batch[Manager] # <<>> /\ outcome = "ok"
  <2>1. /\ wpc' = [wpc EXCEPT ![Manager] = "insert"]
        /\ over' = TRUE /\ iter' = i /\ UNCHANGED batch
    BY <1>2 DEF EndPass, WGoto
  <2>2. Len(batch[Manager]) >= 1
    BY <1>1, <1>2
  <2> QED
    BY <1>1, <2>1, <2>2, ManagerIsWorker DEF Positions, WorkerPcs
<1>3. CASE ~(batch[Manager] # <<>> /\ outcome = "ok")
  <2>1. /\ wpc' = [wpc EXCEPT ![Manager] = "ready"]
        /\ batch' = [batch EXCEPT ![Manager] = <<>>]
        /\ iter' = Reset(i) /\ UNCHANGED over
    BY <1>3 DEF EndPass, WGoto
  <2>2. Reset(i) \in [start : Nat, pos : Nat, ranges : Seq(Slots)] /\ Reset(i).pos > 0
    BY DEF Reset
  <2>3. <<>> \in Seq(Slots) /\ Len(<<>>) = 0 /\ MaxIovs \in Nat \ {0}
    BY KVOpsAssumption
  <2> QED
    BY <1>1, <2>1, <2>2, <2>3, ManagerIsWorker DEF Positions, WorkerPcs
<1> QED
  BY <1>2, <1>3

\* Every thread has what it needs where it goes.

LEMMA PositionsStep == EInv /\ ENext => Positions'
<1> SUFFICES ASSUME EInv, ENext PROVE Positions'
  OBVIOUS
<1> USE DEF EInv
<1>1. CASE Calls(Next)
  BY <1>1 DEF Calls, manager, Positions
<1>2. ASSUME NEW w \in Workers, InsertLba(w) PROVE Positions'
  <2>1. ix[w] \in 1 .. Len(batch[w]) /\ Len(batch[w]) <= MaxIovs /\ batch[w] \in Seq(Slots)
    BY <1>2, EntryIsSlot DEF InsertLba, Positions
  <2>2. UNCHANGED <<batch, manager>>
    BY <1>2 DEF InsertLba
  <2>3. CASE ix[w] = Len(batch[w])
    <3>1. ix' = [ix EXCEPT ![w] = 1] /\ wpc' = [wpc EXCEPT ![w] = "trim"]
      BY <1>2, <2>3 DEF InsertLba, WGoto, Positions
    <3> QED
      BY <1>2, <2>1, <2>2, <3>1, KVOpsAssumption DEF InsertLba, manager, Positions, WorkerPcs
  <2>4. CASE ix[w] # Len(batch[w])
    <3>1. ix' = [ix EXCEPT ![w] = ix[w] + 1] /\ wpc' = wpc
      BY <1>2, <2>4 DEF InsertLba, Positions
    <3>2. ix[w] + 1 \in 1 .. MaxIovs /\ ix[w] + 1 <= Len(batch[w])
      BY <2>1, <2>4, KVOpsAssumption
    <3> QED
      BY <1>2, <2>2, <3>1, <3>2 DEF InsertLba, manager, Positions
  <2> QED
    BY <2>3, <2>4
<1>3. ASSUME NEW w \in Workers, TrimBatch(w) PROVE Positions'
  <2>1. wpc[w] = "trim" /\ wpc' = [wpc EXCEPT ![w] = "release"] /\ UNCHANGED <<batch, ix, iter, over>>
    BY <1>3 DEF TrimBatch, WGoto
  <2>2. code' \in {"ok", "expired", "failed"}
    BY <1>3 DEF TrimBatch, Positions
  <2> QED
    BY <2>1, <2>2 DEF Positions, WorkerPcs
<1>4. ASSUME NEW w \in Workers, DeleteLba(w) PROVE Positions'
  <2>1. /\ wpc[w] = "release" /\ ix' = [ix EXCEPT ![w] = ix[w] + 1]
        /\ ix[w] < Len(batch[w]) /\ UNCHANGED <<wpc, batch, iter, code, over>>
    BY <1>4 DEF DeleteLba, manager, Positions
  <2>2. ix[w] + 1 \in 1 .. MaxIovs /\ ix[w] + 1 <= Len(batch[w])
    <3>1. Len(batch[w]) \in Nat /\ Len(batch[w]) <= MaxIovs /\ ix[w] \in Nat
      BY DEF Positions
    <3> QED
      BY <2>1, <3>1, KVOpsAssumption
  <2> QED
    BY <2>1, <2>2 DEF Positions
<1>5. ASSUME NEW w \in Workers, NEW to \in {"wait", "ready", "scan"}, DeleteLast(w, to),
             to # "wait" => w = Manager,
             iter' \in [start : Nat, pos : Nat, ranges : Seq(Slots)], iter'.pos > 0,
             wpc[Manager] # "check" \/ UNCHANGED iter,
             code' \in {"ok", "expired", "failed"}, over' \in BOOLEAN
      PROVE  Positions'
  <2>1. /\ wpc' = [wpc EXCEPT ![w] = to] /\ ix' = [ix EXCEPT ![w] = 1]
        /\ batch' = [batch EXCEPT ![w] = <<>>]
    BY <1>5 DEF DeleteLast, WGoto
  <2>2. <<>> \in Seq(Slots) /\ Len(<<>>) = 0 /\ MaxIovs \in Nat \ {0} /\ 1 \in 1 .. MaxIovs
    BY KVOpsAssumption
  <2>3. wpc' \in [Workers -> WorkerPcs] /\ batch' \in [Workers -> Seq(Slots)]
        /\ ix' \in [Workers -> 1 .. MaxIovs]
    BY <2>1, <2>2 DEF Positions, WorkerPcs
  <2>4. ASSUME NEW u \in Workers
        PROVE  /\ Len(batch'[u]) <= MaxIovs
               /\ wpc'[u] \in {"insert", "trim", "release"} => ix'[u] <= Len(batch'[u])
               /\ wpc'[u] \notin {"insert", "release"} => ix'[u] = 1
               /\ wpc'[u] \in {"wait", "ready"} => batch'[u] = <<>>
               /\ wpc'[u] \in {"ready", "scan", "check"} => u = Manager
               /\ wpc'[u] \in {"scan", "check"} => Len(batch'[u]) < MaxIovs
    BY <1>5, <2>1, <2>2 DEF Positions
  <2>5. wpc'[Manager] = "check" => iter'.pos <= Len(iter'.ranges)
    BY <1>5, <2>1, ManagerIsWorker DEF Positions
  <2> QED
    BY <1>5, <2>3, <2>4, <2>5 DEF Positions
<1>6. ASSUME NEW w \in Workers, PopBlock(w) PROVE Positions'
  <2>1. /\ SubSeq(expq, 1, MaxIovs) \in Seq(Slots)
        /\ Len(SubSeq(expq, 1, MaxIovs)) = MaxIovs
    BY <1>6, BlockOfQueue DEF PopBlock, IInv
  <2> DEFINE block == SubSeq(expq, 1, MaxIovs)
  <2>2. /\ wpc[w] = "wait" /\ wpc' = [wpc EXCEPT ![w] = "insert"]
        /\ batch' = [batch EXCEPT ![w] = block] /\ UNCHANGED <<ix, iter, code, over>>
    BY <1>6 DEF PopBlock, WGoto, manager
  <2>3. block \in Seq(Slots) /\ Len(block) = MaxIovs /\ MaxIovs \in Nat \ {0} /\ MaxIovs >= 1
    BY <2>1, KVOpsAssumption
  <2> HIDE DEF block
  <2> QED
    BY <2>2, <2>3 DEF Positions, WorkerPcs
<1>7. ASSUME NEW w \in Workers, BlockDone(w) PROVE Positions'
  BY <1>5, <1>7 DEF BlockDone, manager, Positions
<1>8. CASE Wake \/ WaitForTrigger \/ StartPass
  <2>1. \E to \in {"ready", "wait", "scan"} :
          /\ wpc' = [wpc EXCEPT ![Manager] = to]
          /\ to # "ready" => wpc[Manager] = "ready"
          /\ to = "ready" => wpc[Manager] = "wait"
          /\ UNCHANGED <<batch, ix, iter, code, over>>
    BY <1>8 DEF Wake, WaitForTrigger, StartPass, WGoto, manager
  <2>2. Len(<<>>) = 0 /\ MaxIovs \in Nat \ {0}
    BY KVOpsAssumption
  <2> QED
    BY <2>1, <2>2, ManagerIsWorker DEF Positions, WorkerPcs
<1>9. CASE YieldPass
  BY <1>9, EndPassPlaces DEF YieldPass, Positions
<1>10. ASSUME NEW i, i = iter \/ i = [iter EXCEPT !.pos = 1]
       PROVE  i \in [start : Nat, pos : Nat, ranges : Seq(Slots)] /\ i.pos > 0
  BY <1>10 DEF Positions
<1>11. CASE EndOfDevice
  BY <1>10, <1>11, EndPassPlaces DEF EndOfDevice
<1>12. CASE ScanError
  <2>1. PICK i : /\ i = iter \/ i = [iter EXCEPT !.pos = 1]
                 /\ EndPass("failed", i)
    BY <1>12 DEF ScanError
  <2> QED
    BY <1>10, <1>12, <2>1, EndPassPlaces DEF ScanError
<1>13. CASE Scan
  <2>1. /\ iter' = Moved /\ wpc[Manager] = "scan" /\ code' = "ok" /\ UNCHANGED <<ix, over>>
        /\ InRanges \/ Ahead # {}
    BY <1>13 DEF Scan
  <2>2. /\ Moved \in [start : Nat, pos : Nat, ranges : Seq(Slots)]
        /\ Moved.pos \in 1 .. Len(Moved.ranges)
        /\ Moved.ranges[Moved.pos] \in Slots
    BY <2>1, MovedTo
  <2>3. Moved.pos > 0 /\ Moved.pos <= Len(Moved.ranges)
    BY <2>2
  <2>4. CASE Global
    BY <1>13, <2>1, <2>2, <2>3, <2>4, CollectPlaces DEF Scan
  <2>5. CASE ~Global
    <3>1. wpc' = [wpc EXCEPT ![Manager] = "check"] /\ UNCHANGED batch
      BY <1>13, <2>5 DEF Scan, WGoto
    <3> QED
      BY <2>1, <2>2, <2>3, <3>1, ManagerIsWorker DEF Positions, WorkerPcs
  <2> QED
    BY <2>4, <2>5
<1>14. CASE Check
  <2>1. wpc[Manager] = "check" /\ UNCHANGED <<ix, iter, over>>
    BY <1>14 DEF Check
  <2>2. iter.ranges \in Seq(Slots) /\ iter.pos \in 1 .. Len(iter.ranges)
    BY <2>1 DEF Positions
  <2>3. iter.ranges[iter.pos] \in Slots
    BY <2>2
  <2>4. CASE Collect(iter) /\ code' = "expired"
    BY <2>1, <2>3, <2>4, CollectPlaces DEF Positions
  <2>5. CASE WGoto(Manager, "scan") /\ code' = "ok" /\ UNCHANGED batch
    BY <2>1, <2>5, ManagerIsWorker DEF WGoto, Positions, WorkerPcs
  <2> QED
    BY <1>14, <2>4, <2>5 DEF Check
<1>15. CASE BatchDone
  <2>1. PICK to \in {"ready", "scan"} : DeleteLast(Manager, to)
    BY <1>15 DEF BatchDone
  <2>2. iter' = iter \/ iter' = [iter EXCEPT !.start = 0]
    BY <1>15 DEF BatchDone, Reset
  <2>3. iter' \in [start : Nat, pos : Nat, ranges : Seq(Slots)] /\ iter'.pos > 0
    BY <2>2 DEF Positions
  <2>4. code' = "ok" /\ over' = FALSE /\ wpc[Manager] = "release"
    BY <1>15 DEF BatchDone, DeleteLast
  <2> QED
    BY <1>5, <2>1, <2>3, <2>4, ManagerIsWorker
<1>16. CASE DeletionThread
  <2>1. UNCHANGED <<wpc, batch, ix, manager>>
    BY <1>16 DEF DeletionThread, Announce, LockGlb, DeletionDone
  <2> QED
    BY <2>1 DEF manager, Positions
<1> QED
  BY <1>1, <1>2, <1>3, <1>4, <1>6, <1>7, <1>8, <1>9, <1>11, <1>12, <1>13, <1>14,
     <1>15, <1>16, StepIsEither DEF ThreadStep, Background, Pass

-----------------------------------------------------------------------------
\* No step of the threads disturbs a call, but for the record it may look for.
LEMMA IInvStep == EInv /\ ENext => IInv'
<1> SUFFICES ASSUME EInv, ENext PROVE IInv'
  OBVIOUS
<1> USE DEF EInv
<1>1. CASE Calls(Next)
  BY <1>1, Inductive DEF Calls
<1>2. safe \subseteq Slots /\ expq \in Seq(Slots)
  BY DEF IInv, TypeOK
<1>3. ASSUME NEW w \in Workers, InsertLba(w) PROVE IInv'
  <2>1. batch[w][ix[w]] \in Slots
    BY <1>3, EntryIsSlot DEF InsertLba
  <2> QED
    BY <1>2, <1>3, <2>1, QuietStep DEF InsertLba, TakeLba, calling
<1>4. ASSUME NEW w \in Workers, TrimBatch(w) PROVE IInv'
  BY <1>2, <1>4, QuietStep DEF TrimBatch, calling
<1>5. ASSUME NEW w \in Workers, DeleteLba(w) \/ BlockDone(w) PROVE IInv'
  <2>1. safe' \subseteq safe /\ UNCHANGED <<media, clock, expq, pc, local>>
    BY <1>5 DEF DeleteLba, BlockDone, DeleteLast, DropLba, calling
  <2> QED
    BY <1>2, <2>1, QuietStep
<1>6. ASSUME NEW w \in Workers, PopBlock(w) PROVE IInv'
  <2>1. expq' \in Seq(Slots)
    BY <1>6, BlockOfQueue DEF PopBlock, IInv
  <2> QED
    BY <1>2, <1>6, <2>1, QuietStep DEF PopBlock
<1>7. CASE BatchDone
  <2>1. safe' \subseteq safe /\ UNCHANGED <<media, clock, expq, pc, local>>
    BY <1>7 DEF BatchDone, DeleteLast, DropLba, calling
  <2> QED
    BY <1>2, <2>1, QuietStep
<1>8. CASE \/ Wake \/ WaitForTrigger \/ StartPass \/ YieldPass \/ Scan \/ EndOfDevice
           \/ ScanError \/ Check
  <2>1. UNCHANGED <<media, safe, clock, expq, pc, local>>
    BY <1>8 DEF Wake, WaitForTrigger, StartPass, YieldPass, Scan, EndOfDevice, ScanError,
                Check, calling
  <2> QED
    BY <1>2, <2>1, QuietStep
<1>9. CASE DeletionThread
  <2>1. UNCHANGED <<media, safe, clock, expq, pc, local>>
    BY <1>9 DEF DeletionThread, Announce, LockGlb, DeletionDone, vars, local
  <2> QED
    BY <1>2, <2>1, QuietStep
<1> QED
  BY <1>1, <1>3, <1>4, <1>5, <1>6, <1>7, <1>8, <1>9, StepIsEither
  DEF ThreadStep, Background, Pass

\* The four ways to mean to trim an LBA, now and in the next state.
Claims(s) ==
    \/ \E t \in Threads : pc[t] = "expire" /\ s = lba[t]
    \/ s \in Range(expq)
    \/ \E w \in Workers : s \in Range(batch[w])
    \/ Global /\ \E j \in 2 .. Len(iter.ranges) : s = iter.ranges[j]

LEMMA WhoClaims ==
    ASSUME NEW s
    PROVE  /\ s \in Claimed <=> Claims(s)
           /\ s \in Claimed' <=> Claims(s)'
<1> DEFINE ofCalls == {lba[t] : t \in {u \in Threads : pc[u] = "expire"}}
           batches == UNION {Range(batch[w]) : w \in Workers}
           ranges == IF Global THEN {iter.ranges[j] : j \in 2 .. Len(iter.ranges)} ELSE {}
<1>1. Claimed = ofCalls \cup Range(expq) \cup batches \cup ranges
  BY Zenon DEF Claimed
<1>2. s \in ofCalls <=> \E t \in Threads : pc[t] = "expire" /\ s = lba[t]
  OBVIOUS
<1>3. s \in batches <=> \E w \in Workers : s \in Range(batch[w])
  OBVIOUS
<1>4. s \in ranges <=> Global /\ \E j \in 2 .. Len(iter.ranges) : s = iter.ranges[j]
  OBVIOUS
<1>5. Claimed' = (ofCalls \cup Range(expq) \cup batches \cup ranges)'
  BY Zenon DEF Claimed
<1>6. s \in ofCalls' <=> \E t \in Threads : pc'[t] = "expire" /\ s = lba'[t]
  OBVIOUS
<1>7. s \in batches' <=> \E w \in Workers : s \in Range(batch'[w])
  OBVIOUS
<1>8. s \in ranges' <=> Global' /\ \E j \in 2 .. Len(iter'.ranges) : s = iter'.ranges[j]
  OBVIOUS
<1> HIDE DEF ofCalls, batches, ranges
<1>9. s \in Claimed <=> Claims(s)
  BY <1>1, <1>2, <1>3, <1>4 DEF Claims
<1>10. s \in Claimed' <=> Claims(s)'
  BY <1>5, <1>6, <1>7, <1>8 DEF Claims
<1> QED
  BY <1>9, <1>10

\* What is claimed are LBAs.
LEMMA ClaimedAreSlots ==
    ASSUME EInv
    PROVE  Claimed \subseteq Slots
<1>1. \A t \in Threads : lba[t] \in Slots
  BY DEF EInv, IInv, TypeOK
<1>2. Range(expq) \subseteq Slots
  BY DEF EInv, IInv, TypeOK, Range
<1>3. \A w \in Workers : Range(batch[w]) \subseteq Slots
  <2>1. \A w \in Workers : batch[w] \in Seq(Slots)
    BY DEF EInv, Positions
  <2> QED
    BY <2>1 DEF Range
<1>4. \A j \in 2 .. Len(iter.ranges) : iter.ranges[j] \in Slots
  <2>1. iter.ranges \in Seq(Slots)
    BY DEF EInv, Positions
  <2> QED
    BY <2>1
<1> SUFFICES ASSUME NEW s \in Claimed PROVE s \in Slots
  OBVIOUS
<1> QED
  BY <1>1, <1>2, <1>3, <1>4, WhoClaims DEF Claims

LEMMA SharedStep == EInv /\ ENext => SharedOK'
<1> SUFFICES ASSUME EInv, ENext PROVE SharedOK'
  OBVIOUS
<1>1. rewritten' \subseteq Slots
  <2>1. ObserveWrites /\ rewritten \subseteq Slots
    BY DEF ENext, EInv, SharedOK
  <2> QED
    BY <2>1, ClaimedAreSlots DEF ObserveWrites
<1>2. expiry_mode' \in ExpiryModes
  BY DEF ENext, EInv, SharedOK
<1> DEFINE Same == UNCHANGED <<glb, deleter>>
<1>3. CASE Same
  BY <1>1, <1>2, <1>3 DEF EInv, SharedOK, deleter
<1>4. CASE Calls(Next)
  BY <1>3, <1>4 DEF Calls
<1>5. ASSUME NEW w \in Workers, Background(w) PROVE Same
  BY <1>5 DEF Background, InsertLba, TrimBatch, DeleteLba, PopBlock, BlockDone, DeleteLast
<1>6. CASE Pass
  BY <1>3, <1>6 DEF Pass, StartPass, YieldPass, Scan, EndOfDevice, ScanError, Check, BatchDone,
                    DeleteLast
<1>7. CASE Wake \/ WaitForTrigger
  BY <1>1, <1>2, <1>7 DEF Wake, WaitForTrigger, EInv, SharedOK, deleter
<1>8. CASE DeletionThread
  BY <1>1, <1>2, <1>8 DEF DeletionThread, Announce, LockGlb, DeletionDone, EInv, SharedOK
<1> QED
  BY <1>3, <1>4, <1>5, <1>6, <1>7, <1>8, StepIsEither DEF ThreadStep

-----------------------------------------------------------------------------
(***************************************************************************)
(* Where the LBAs come from that somebody means to trim.                   *)
(***************************************************************************)
\* A step of the threads neither starts a call's claim nor changes its LBA.
LEMMA ThreadsLeaveCalls ==
    ASSUME ThreadStep
    PROVE  UNCHANGED <<clock, pc, local>>
<1>1. ASSUME NEW w \in Workers, Background(w) PROVE UNCHANGED <<clock, pc, local>>
  BY <1>1 DEF Background, InsertLba, TrimBatch, DeleteLba, PopBlock, BlockDone, DeleteLast, calling
<1>2. CASE Wake \/ WaitForTrigger \/ Pass
  BY <1>2 DEF Wake, WaitForTrigger, Pass, StartPass, YieldPass, Scan, EndOfDevice, ScanError,
              Check, BatchDone, DeleteLast, calling
<1>3. CASE DeletionThread
  BY <1>3 DEF DeletionThread, Announce, LockGlb, DeletionDone, vars, local
<1> QED
  BY <1>1, <1>2, <1>3 DEF ThreadStep

\* A call comes to update_expiry_queue with the LBA of a record that it found
\* expired, or that it could not read.
LEMMA CallClaims ==
    ASSUME EInv, ENext, NEW t \in Threads, pc'[t] = "expire"
    PROVE  \/ pc[t] = "expire" /\ lba'[t] = lba[t]
           \/ /\ pc[t] = "read_media" /\ UNCHANGED <<media, clock>>
              /\ \E s \in Slots : lba'[t] = s /\ media[s] # NoRec
<1> USE DEF EInv, IInv, TypeOK, Goto, Done, local
<1>1. CASE ThreadStep
  BY <1>1, ThreadsLeaveCalls
<1>2. ASSUME Calls(Next), pc[t] = "expire"
      PROVE  lba'[t] = lba[t]
  <2>1. ASSUME NEW u \in Threads, Step(u) PROVE lba'[t] = lba[t]
    <3>1. CASE u # t
      BY <2>1, <3>1 DEF Step, Contend, GenRange, GenInsert, GenReadMatch, GenReadMismatch, GenDrop,
         NextProbe, PutWrite, GetRange, ReadMatch, ReadMismatch, BlindRead, Expire, DelRead, DelInsert,
         DelReread, DelFound, ProbeOn, DelTrim, Insert, DeviceError, Finish
    <3>2. CASE u = t
      BY <1>2, <2>1, <3>2 DEF Step, Contend, GenRange, GenInsert, GenReadMatch, GenReadMismatch,
         GenDrop, PutWrite, GetRange, ReadMatch, ReadMismatch, BlindRead, Expire, DelRead, DelInsert,
         DelReread, DelFound, ProbeOn, DelTrim, Insert, DeviceError, Finish
    <3> QED
      BY <3>1, <3>2
  <2>2. ASSUME NEW u \in Threads, NEW r \in Requests, Call(u, r) PROVE lba'[t] = lba[t]
    BY <1>2, <2>2 DEF Call, Begin
  <2>3. CASE Tick
    BY <2>3 DEF Tick
  <2> QED
    BY <1>2, <2>1, <2>2, <2>3 DEF Calls, Next
<1>3. ASSUME Calls(Next), pc[t] # "expire"
      PROVE  ReadMatch(t) \/ BlindRead(t)
  <2>1. ASSUME NEW u \in Threads, Step(u) PROVE ReadMatch(t) \/ BlindRead(t)
    BY <1>3, <2>1 DEF Step, Contend, GenRange, GenInsert, GenReadMatch, LockFirst, GenReadMismatch, GenDrop,
       NextProbe, PutWrite, GetRange, ReadMatch, ReadMismatch, BlindRead, Rehash, Expire, DelRead, DelInsert,
       DelReread, DelFound, ProbeOn, DelTrim, Insert, DeviceError, Finish, Pcs
  <2>2. ASSUME NEW u \in Threads, NEW r \in Requests, Call(u, r) PROVE FALSE
    BY <1>3, <2>2 DEF Call, Begin
  <2>3. CASE Tick
    BY <1>3, <2>3 DEF Tick
  <2> QED
    BY <1>3, <2>1, <2>2, <2>3 DEF Calls, Next
<1>4. ASSUME ReadMatch(t) \/ BlindRead(t), pc[t] # "expire"
      PROVE  /\ pc[t] = "read_media" /\ UNCHANGED <<media, clock>>
             /\ \E s \in Slots : lba'[t] = s /\ media[s] # NoRec
  <2>1. req[t] \in Requests
    BY <1>4 DEF ReadMatch, BlindRead, Located
  <2>2. Slot(t) \in Slots
    BY <2>1, RequestFields, ProbeIsSlot DEF Slot
  <2>3. lba' = [lba EXCEPT ![t] = Slot(t)] /\ media[Slot(t)] # NoRec
    BY <1>4 DEF ReadMatch, BlindRead, Matches, Rehash
  <2> QED
    BY <1>4, <2>2, <2>3 DEF ReadMatch, BlindRead
<1> QED
  BY <1>1, <1>2, <1>3, <1>4, StepIsEither

\* update_expiry_queue appends the LBA of the call, and blocks are taken off in front.
LEMMA QueueClaims ==
    ASSUME EInv, ENext, NEW s, s \in Range(expq')
    PROVE  s \in Claimed
<1> USE DEF EInv
<1>1. CASE s \in Range(expq)
  BY <1>1, WhoClaims DEF Claims
<1>2. CASE Calls(Next)
  <2>1. CASE UNCHANGED expq
    BY <1>1, <2>1
  <2>2. ASSUME NEW t \in Threads, Expire(t), expq' = Append(expq, lba[t]) PROVE s \in Claimed
    <3>1. expq \in Seq(Slots) /\ lba[t] \in Slots
      BY DEF IInv, TypeOK
    <3>2. \A j \in DOMAIN expq' : expq'[j] = lba[t] \/ (j \in DOMAIN expq /\ expq'[j] = expq[j])
      BY <2>2, <3>1
    <3>3. s = lba[t] \/ s \in Range(expq)
      BY <3>2 DEF Range
    <3> QED
      BY <1>1, <2>2, <3>3, WhoClaims DEF Claims, Expire
  <2>3. \/ UNCHANGED expq
        \/ \E t \in Threads : Expire(t) /\ expq' = Append(expq, lba[t])
    <3>1. ASSUME NEW t \in Threads, Step(t) PROVE UNCHANGED expq \/ (Expire(t) /\ expq' = Append(expq, lba[t]))
      BY <3>1 DEF Step, Contend, GenRange, GenInsert, GenReadMatch, GenReadMismatch, GenDrop,
         PutWrite, GetRange, ReadMatch, ReadMismatch, BlindRead, Expire, DelRead, DelInsert,
         DelReread, DelFound, ProbeOn, DelTrim, Insert, DeviceError, Finish
    <3> QED
      BY <1>2, <3>1 DEF Calls, Next, Call, Begin, Tick
  <2> QED
    BY <2>1, <2>2, <2>3
<1>3. ASSUME NEW w \in Workers, PopBlock(w) PROVE s \in Claimed
  BY <1>1, <1>3, BlockOfQueue DEF PopBlock, IInv
<1>4. CASE ThreadStep /\ ~\E w \in Workers : PopBlock(w)
  <2>1. UNCHANGED expq
    BY <1>4 DEF ThreadStep, Background, InsertLba, TrimBatch, DeleteLba, BlockDone, DeleteLast, calling,
       Wake, WaitForTrigger, Pass, StartPass, YieldPass, Scan, EndOfDevice, ScanError, Check, BatchDone,
       DeletionThread, Announce, LockGlb, DeletionDone, vars
  <2> QED
    BY <1>1, <2>1
<1> QED
  BY <1>2, <1>3, <1>4, StepIsEither

\* When no header is read, what the ranges of the iterator offer is old enough.
LEMMA RangeClaims ==
    ASSUME EInv, ENext, Global, NEW j \in 2 .. Len(iter'.ranges)
    PROVE  \/ j \in 2 .. Len(iter.ranges) /\ iter'.ranges[j] = iter.ranges[j]
           \/ /\ UNCHANGED media
              /\ media[iter'.ranges[j]] # NoRec /\ Expired(media[iter'.ranges[j]])
<1>1. CASE UNCHANGED iter
  BY <1>1
<1>2. CASE iter'.ranges = iter.ranges
  BY <1>2
<1>3. CASE Scan /\ ~InRanges
  <2>1. iter' = NextRanges /\ Ahead # {} /\ UNCHANGED media
    BY <1>3 DEF Scan, Moved
  <2>2. Len(NextRanges.ranges) \in Nat
    BY <2>1, RangesAhead DEF EInv
  <2>3. NextRanges.ranges[j] \in Ahead
    BY <2>1, <2>2, RangesAhead DEF EInv
  <2> QED
    BY <2>1, <2>3 DEF Ahead
<1>4. ASSUME NEW i, i = iter \/ i = [iter EXCEPT !.pos = 1], NEW outcome, EndPass(outcome, i)
      PROVE  iter'.ranges = iter.ranges
  <2>1. iter' = i \/ iter' = [i EXCEPT !.start = 0]
    BY <1>4 DEF EndPass, Reset
  <2>2. i.ranges = iter.ranges /\ i \in [start : Nat, pos : Nat, ranges : Seq(Slots)]
    BY <1>4 DEF EInv, Positions
  <2> QED
    BY <2>1, <2>2
<1>5. CASE YieldPass \/ EndOfDevice \/ ScanError
  <2>1. PICK i : /\ i = iter \/ i = [iter EXCEPT !.pos = 1]
                 /\ \E outcome \in {"ok", "expired", "failed"} : EndPass(outcome, i)
    BY <1>5 DEF YieldPass, EndOfDevice, ScanError, EInv, Positions
  <2> QED
    BY <1>2, <1>4, <2>1
<1>6. CASE Scan /\ InRanges
  <2>1. iter' = [iter EXCEPT !.pos = @ + 1]
    BY <1>6 DEF Scan, Moved
  <2> QED
    BY <1>2, <2>1 DEF EInv, Positions
<1>7. CASE BatchDone
  <2>1. iter' = iter \/ iter' = [iter EXCEPT !.start = 0]
    BY <1>7 DEF BatchDone, Reset
  <2> QED
    BY <1>2, <2>1 DEF EInv, Positions
<1>8. CASE \/ Calls(Next) \/ (\E w \in Workers : Background(w))
           \/ Wake \/ WaitForTrigger \/ StartPass \/ Check \/ DeletionThread
  <2>1. UNCHANGED iter
    BY <1>8 DEF Calls, Background, InsertLba, TrimBatch, DeleteLba, PopBlock, BlockDone, manager,
       Wake, WaitForTrigger, StartPass, Check, DeletionThread, Announce, LockGlb, DeletionDone
  <2> QED
    BY <1>1, <2>1
<1> QED
  BY <1>3, <1>5, <1>6, <1>7, <1>8, StepIsEither DEF ThreadStep, Pass

\* The manager collects what it found expired, or what it had claimed.
LEMMA CollectClaims ==
    ASSUME EInv, NEW i, Collect(i), i.ranges[i.pos] \in Slots,
           NEW w \in Workers, NEW s, s \in Range(batch'[w])
    PROVE  s \in Claimed \/ s = i.ranges[i.pos]
<1>1. CASE w # Manager
  <2>1. batch'[w] = batch[w]
    BY <1>1 DEF Collect, EInv, Positions
  <2> QED
    BY <2>1, WhoClaims DEF Claims
<1>2. CASE w = Manager
  <2>1. batch'[w] = Append(batch[w], i.ranges[i.pos]) /\ batch[w] \in Seq(Slots)
    BY <1>2 DEF Collect, EInv, Positions
  <2>2. \A j \in DOMAIN batch'[w] :
          batch'[w][j] = i.ranges[i.pos] \/ (j \in DOMAIN batch[w] /\ batch'[w][j] = batch[w][j])
    BY <2>1
  <2>3. s = i.ranges[i.pos] \/ s \in Range(batch[w])
    BY <2>2 DEF Range
  <2> QED
    BY <2>3, WhoClaims DEF Claims
<1> QED
  BY <1>1, <1>2

LEMMA BatchClaims ==
    ASSUME EInv, ENext, NEW w \in Workers, NEW s, s \in Range(batch'[w])
    PROVE  \/ s \in Claimed
           \/ UNCHANGED media /\ media[s] # NoRec /\ Expired(media[s])
<1> USE DEF EInv
<1>1. CASE batch'[w] = batch[w]
  BY <1>1, WhoClaims DEF Claims
<1>2. CASE batch'[w] = <<>>
  BY <1>2 DEF Range
<1>3. ASSUME NEW u \in Workers, PopBlock(u) PROVE s \in Claimed
  <2>1. CASE u # w
    <3>1. batch'[w] = batch[w]
      BY <1>3, <2>1 DEF PopBlock, Positions
    <3> QED
      BY <3>1, WhoClaims DEF Claims
  <2>2. CASE u = w
    <3> DEFINE block == SubSeq(expq, 1, MaxIovs)
    <3>1. batch'[w] = block
      BY <1>3, <2>2 DEF PopBlock, Positions
    <3>2. block \in Seq(Slots) /\ Len(block) = MaxIovs /\ \A j \in 1 .. MaxIovs : block[j] \in Range(expq)
      BY <1>3, BlockOfQueue DEF PopBlock, IInv
    <3> HIDE DEF block
    <3>3. DOMAIN block = 1 .. MaxIovs
      BY <3>2
    <3>4. s \in Range(expq)
      BY <3>1, <3>2, <3>3 DEF Range
    <3> QED
      BY <3>4, WhoClaims DEF Claims
  <2> QED
    BY <2>1, <2>2
<1>4. ASSUME NEW u \in Workers, NEW to, DeleteLast(u, to)
      PROVE  batch'[w] = batch[w] \/ batch'[w] = <<>>
  BY <1>4 DEF DeleteLast, Positions
<1>5. ASSUME NEW i, NEW outcome, EndPass(outcome, i)
      PROVE  batch'[w] = batch[w] \/ batch'[w] = <<>>
  BY <1>5 DEF EndPass, Positions
<1>6. CASE Scan
  <2>1. (InRanges \/ Ahead # {}) /\ UNCHANGED media
    BY <1>6 DEF Scan
  <2>2. Moved.ranges[Moved.pos] \in Slots
    BY <2>1, MovedTo
  <2>3. CASE ~Global
    BY <1>1, <1>6, <2>3 DEF Scan
  <2>4. ASSUME Global, s = Moved.ranges[Moved.pos], InRanges PROVE s \in Claimed
    <3>1. Moved.pos = iter.pos + 1 /\ Moved.ranges = iter.ranges
      BY <2>4 DEF Moved, Positions
    <3>2. iter.pos + 1 \in 2 .. Len(iter.ranges)
      BY <2>4 DEF InRanges, Positions
    <3> QED
      BY <2>4, <3>1, <3>2, WhoClaims DEF Claims
  <2>5. ASSUME Global, s = Moved.ranges[Moved.pos], ~InRanges PROVE media[s] # NoRec /\ Expired(media[s])
    <3>1. Moved = NextRanges /\ Ahead # {}
      BY <2>1, <2>5 DEF Moved
    <3>2. Moved.pos = 1 /\ Len(Moved.ranges) >= 1 /\ Len(Moved.ranges) \in Nat
      BY <3>1, RangesAhead
    <3>3. 1 \in 1 .. Len(Moved.ranges)
      BY <3>2
    <3>4. s \in Ahead
      BY <2>5, <3>1, <3>2, <3>3, RangesAhead
    <3> QED
      BY <2>5, <3>4 DEF Ahead
  <2>6. CASE Global
    <3>1. Collect(Moved)
      BY <1>6, <2>6 DEF Scan
    <3>2. s \in Claimed \/ s = Moved.ranges[Moved.pos]
      BY <2>2, <3>1, CollectClaims
    <3> QED
      BY <2>1, <2>4, <2>5, <2>6, <3>2
  <2> QED
    BY <2>3, <2>6
<1>7. CASE Check
  <2>1. iter.ranges[iter.pos] \in Slots /\ UNCHANGED media
    <3>1. wpc[Manager] = "check"
      BY <1>7 DEF Check
    <3>2. iter.ranges \in Seq(Slots) /\ iter.pos \in 1 .. Len(iter.ranges)
      BY <3>1 DEF Positions
    <3> QED
      BY <1>7, <3>2 DEF Check
  <2>2. CASE is_valid_for_del(iter.ranges[iter.pos])
    <3>1. Collect(iter)
      BY <1>7, <2>2 DEF Check
    <3>2. s \in Claimed \/ s = iter.ranges[iter.pos]
      BY <2>1, <3>1, CollectClaims
    <3> QED
      BY <2>1, <2>2, <3>2 DEF is_valid_for_del
  <2>3. CASE ~is_valid_for_del(iter.ranges[iter.pos])
    BY <1>1, <1>7, <2>3 DEF Check
  <2> QED
    BY <2>2, <2>3
<1>8. CASE (\E u \in Workers : BlockDone(u)) \/ BatchDone
  <2>1. PICK u \in Workers, to \in WorkerPcs : DeleteLast(u, to)
    BY <1>8, ManagerIsWorker DEF BlockDone, BatchDone, WorkerPcs
  <2> QED
    BY <1>1, <1>2, <1>4, <2>1
<1>9. CASE YieldPass \/ EndOfDevice \/ ScanError
  BY <1>1, <1>2, <1>5, <1>9 DEF YieldPass, EndOfDevice, ScanError
<1>10. CASE \/ Calls(Next) \/ Wake \/ WaitForTrigger \/ StartPass \/ DeletionThread
            \/ \E u \in Workers : InsertLba(u) \/ TrimBatch(u) \/ DeleteLba(u)
  BY <1>1, <1>10 DEF Calls, InsertLba, TrimBatch, DeleteLba, Wake, WaitForTrigger, StartPass,
     DeletionThread, Announce, LockGlb, DeletionDone
<1> QED
  BY <1>3, <1>6, <1>7, <1>8, <1>9, <1>10, StepIsEither DEF ThreadStep, Background, Pass

\* An expired record stays expired.
LEMMA ClockGrows ==
    ASSUME EInv, ENext
    PROVE  clock' \in Nat /\ clock' >= clock
<1>1. clock \in Nat
  BY DEF EInv, IInv, TypeOK
<1>2. CASE UNCHANGED clock
  BY <1>1, <1>2
<1>3. CASE Tick
  BY <1>1, <1>3 DEF Tick
<1>4. ASSUME NEW t \in Threads, Step(t) \/ \E r \in Requests : Call(t, r)
      PROVE  UNCHANGED clock
  BY <1>4 DEF Step, Contend, GenRange, GenInsert, GenReadMatch, GenReadMismatch, GenDrop,
     PutWrite, GetRange, ReadMatch, ReadMismatch, BlindRead, Expire, DelRead, DelInsert,
     DelReread, DelFound, ProbeOn, DelTrim, Insert, DeviceError, Finish, Call, Begin
<1>5. CASE ThreadStep
  BY <1>2, <1>5, ThreadsLeaveCalls
<1> QED
  BY <1>2, <1>3, <1>4, <1>5, StepIsEither DEF Calls, Next

\* A new claim is one of a record that was found expired or could not be read.
LEMMA NewClaims ==
    ASSUME EInv, ENext, NEW s \in Slots, s \in Claimed', s \notin Claimed
    PROVE  UNCHANGED media /\ (Expired(media[s]) \/ s \in rewritten')
<1>1. ASSUME NEW t \in Threads, pc'[t] = "expire", s = lba'[t]
      PROVE  UNCHANGED media /\ (Expired(media[s]) \/ s \in rewritten')
  <2>1. ~(pc[t] = "expire" /\ lba'[t] = lba[t])
    BY <1>1, WhoClaims DEF Claims
  <2>2. pc[t] = "read_media" /\ UNCHANGED media
    BY <1>1, <2>1, CallClaims
  <2>3. ObserveWrites
    BY DEF ENext
  <2> QED
    BY <1>1, <2>2, <2>3 DEF ObserveWrites
<1>2. s \notin Range(expq')
  BY QueueClaims
<1>3. ASSUME NEW w \in Workers, s \in Range(batch'[w])
      PROVE  UNCHANGED media /\ Expired(media[s])
  BY <1>3, BatchClaims
<1>4. ASSUME Global', NEW j \in 2 .. Len(iter'.ranges), s = iter'.ranges[j]
      PROVE  UNCHANGED media /\ Expired(media[s])
  <2>1. Global
    BY <1>4 DEF ENext, Global
  <2>2. ~(j \in 2 .. Len(iter.ranges) /\ iter'.ranges[j] = iter.ranges[j])
    BY <1>4, <2>1, WhoClaims DEF Claims
  <2> QED
    BY <1>4, <2>1, <2>2, RangeClaims
<1>5. Claims(s)'
  BY WhoClaims
<1> QED
  BY <1>1, <1>2, <1>3, <1>4, <1>5 DEF Claims

LEMMA ClaimsStep == EInv /\ ENext => ClaimsExpired'
<1> SUFFICES ASSUME EInv, ENext, NEW s, s \in Claimed', media'[s] # NoRec, s \notin rewritten'
             PROVE  Expired(media[s])'
  BY DEF ClaimsExpired
<1>1. s \in Slots
  <2>1. IInv' /\ Positions'
    BY IInvStep, PositionsStep
  <2>2. Claims(s)'
    BY WhoClaims
  <2>3. \A t \in Threads : lba'[t] \in Slots
    BY <2>1 DEF IInv, TypeOK
  <2>4. expq' \in Seq(Slots) /\ iter'.ranges \in Seq(Slots)
    BY <2>1 DEF IInv, TypeOK, Positions
  <2>5. \A w \in Workers : batch'[w] \in Seq(Slots)
    BY <2>1 DEF Positions
  <2>6. \A j \in 2 .. Len(iter'.ranges) : iter'.ranges[j] \in Slots
    BY <2>4
  <2> QED
    BY <2>2, <2>3, <2>4, <2>5, <2>6 DEF Claims, Range
<1>2. media'[s] = media[s] /\ Expired(media[s])
  <2>1. CASE s \in Claimed
    <3>1. ObserveWrites
      BY DEF ENext
    <3>2. media'[s] = media[s] /\ s \notin rewritten
      BY <2>1, <3>1 DEF ObserveWrites
    <3> QED
      BY <2>1, <3>2 DEF EInv, ClaimsExpired
  <2>2. CASE s \notin Claimed
    BY <1>1, <2>2, NewClaims
  <2> QED
    BY <2>1, <2>2
<1>3. media[s] \in Record
  BY <1>1, <1>2 DEF EInv, IInv, TypeOK
<1>4. media[s].expiry \in Nat /\ clock \in Nat /\ clock > media[s].expiry
  BY <1>2, <1>3 DEF Record, Expired, EInv, IInv, TypeOK
<1>5. clock' > media[s].expiry
  BY <1>4, ClockGrows
<1> QED
  BY <1>2, <1>5 DEF Expired

\* Every step keeps the invariant.
LEMMA EInductive == EInv /\ [ENext]_evars => EInv'
<1>1. ASSUME EInv, UNCHANGED evars PROVE EInv'
  <2>1. UNCHANGED vars
    BY <1>1 DEF evars
  <2>2. IInv'
    BY <1>1, <2>1, Inductive DEF EInv
  <2>3. Positions' /\ SharedOK'
    BY <1>1 DEF evars, manager, deleter, EInv, Positions, SharedOK
  <2>4. Claimed' = Claimed
    BY <1>1 DEF evars, vars, manager, Claimed, Global
  <2>5. ClaimsExpired'
    BY <1>1, <2>4 DEF EInv, ClaimsExpired, evars, vars, Expired
  <2> QED
    BY <2>2, <2>3, <2>5 DEF EInv
<1> QED
  BY <1>1, IInvStep, PositionsStep, SharedStep, ClaimsStep DEF EInv

\* Whatever the calls, the two kinds of threads and the deletion thread do, no batch
\* outgrows the vectors of its thread and no thread leaves its batch.
THEOREM ETypeCorrect == ESpec => []ETypeOK
  BY InitEInv, EInductive, TypesFollow, PTL DEF ESpec

\* Only a record that was found expired is trimmed behind the calls, unless its LBA
\* was written or read blindly between the decision and the trim.
THEOREM ExpiredOnlyHolds == ESpec => ExpiredOnly
<1> DEFINE Only == \A s \in Slots : Discarded(s) => Expired(media[s]) \/ s \in rewritten
<1>1. EInv /\ [ENext]_evars => [Only]_evars
  <2> SUFFICES ASSUME EInv, ENext, NEW s \in Slots, Discarded(s)
               PROVE  Expired(media[s]) \/ s \in rewritten
    OBVIOUS
  <2>1. media[s] # NoRec /\ media'[s] = NoRec /\ pc' = pc
    BY DEF Discarded
  <2>2. ASSUME NEW w \in Workers, TrimBatch(w) PROVE s \in Claimed
    <3>1. s \in Range(batch[w])
      BY <2>1, <2>2 DEF TrimBatch
    <3> QED
      BY <3>1, WhoClaims DEF Claims
  <2>3. ASSUME NEW t \in Threads, Step(t) \/ \E r \in Requests : Call(t, r) PROVE FALSE
    <3>1. CASE PutWrite(t) \/ DelTrim(t)
      BY <2>1, <3>1 DEF PutWrite, DelTrim, Done, Goto, EInv, IInv, TypeOK
    <3>2. CASE ~PutWrite(t) /\ ~DelTrim(t)
      BY <2>1, <2>3, <3>2 DEF Step, Contend, GenRange, GenInsert, GenReadMatch, GenReadMismatch, GenDrop,
         GetRange, ReadMatch, ReadMismatch, BlindRead, Expire, DelRead, DelInsert,
         DelReread, DelFound, ProbeOn, Insert, DeviceError, Finish, Call, Begin
    <3> QED
      BY <3>1, <3>2
  <2>4. ASSUME ThreadStep, ~\E w \in Workers : TrimBatch(w) PROVE FALSE
    <3>1. UNCHANGED media
      BY <2>4 DEF ThreadStep, Background, InsertLba, DeleteLba, PopBlock, BlockDone, DeleteLast,
         Wake, WaitForTrigger, Pass, StartPass, YieldPass, Scan, EndOfDevice, ScanError, Check,
         BatchDone, DeletionThread, Announce, LockGlb, DeletionDone, vars
    <3> QED
      BY <2>1, <3>1
  <2>5. ~Tick
    BY <2>1 DEF Tick
  <2>6. ~Calls(Next)
    BY <2>3, <2>5 DEF Calls, Next
  <2>7. s \in Claimed
    BY <2>2, <2>4, <2>6, StepIsEither
  <2> QED
    BY <2>1, <2>7 DEF EInv, ClaimsExpired
<1>2. ESpec => [][Only]_evars
  BY InitEInv, EInductive, <1>1, PTL DEF ESpec
<1> QED
  BY <1>2 DEF ExpiredOnly

\* Who owns what, in terms of the state: a worker is not a caller.
LEMMA OwnerIs ==
    ASSUME NEW s
    PROVE  /\ \A t \in Threads : Has(t, s) <=> held[t] /\ lba[t] = s
           /\ \A t \in Threads : Has(t, s)' <=> held'[t] /\ lba'[t] = s
           /\ \A w \in Workers : Has(w, s) <=> \E j \in 1 .. Len(batch[w]) : InsertedAt(w, j) /\ batch[w][j] = s
           /\ \A w \in Workers : Has(w, s)' <=>
                \E j \in 1 .. Len(batch'[w]) : InsertedAt(w, j)' /\ batch'[w][j] = s
<1>1. \A t \in Threads : t \notin Workers
  BY ExpiryAssumption
<1> QED
  BY <1>1 DEF Has

\* LbasExact says the same of all LBAs at once.
LEMMA ExactIsExact ==
    ASSUME EInv, HeldExactly
    PROVE  LbasExact
<1> DEFINE holds == [x \in Threads \cup Workers |->
                       IF x \in Workers THEN Inserted(x)
                       ELSE IF held[x] THEN {lba[x]} ELSE {}]
<1>1. ASSUME NEW x \in Owners, NEW s PROVE s \in holds[x] <=> Has(x, s)
  <2>1. CASE x \in Workers
    <3>1. holds[x] = Inserted(x)
      BY <2>1 DEF Owners
    <3>2. batch[x] \in Seq(Slots)
      BY <2>1 DEF EInv, Positions
    <3>3. DOMAIN batch[x] = 1 .. Len(batch[x])
      BY <3>2
    <3> QED
      BY <2>1, <3>1, <3>3 DEF Inserted, Has, InsertedAt
  <2>2. CASE x \notin Workers
    BY <2>2 DEF Owners, Has
  <2> QED
    BY <2>1, <2>2
<1>2. ASSUME NEW x \in Owners, NEW s, Has(x, s) PROVE s \in Slots
  <2>1. CASE x \in Workers
    <3>1. batch[x] \in Seq(Slots)
      BY <2>1 DEF EInv, Positions
    <3> QED
      BY <1>2, <2>1, <3>1 DEF Has
  <2>2. CASE x \in Threads
    <3>1. lba[x] = s
      BY <1>2, <2>2, OwnerIs
    <3>2. lba[x] \in Slots
      BY <2>2 DEF EInv, IInv, TypeOK
    <3> QED
      BY <3>1, <3>2
  <2> QED
    BY <2>1, <2>2 DEF Owners
<1>3. DOMAIN holds = Owners
  BY DEF Owners
<1> HIDE DEF holds
<1>4. safe \subseteq Slots
  BY DEF EInv, IInv, TypeOK
<1>5. ASSUME NEW s PROVE s \in safe <=> s \in UNION Range(holds)
  <2>1. s \in UNION Range(holds) <=> \E x \in Owners : s \in holds[x]
    BY <1>3 DEF Range
  <2>2. s \in UNION Range(holds) <=> \E x \in Owners : Has(x, s)
    BY <1>1, <2>1
  <2> QED
    BY <1>2, <1>4, <2>2 DEF HeldExactly
<1>6. safe = UNION Range(holds)
  BY <1>5
<1>7. ASSUME NEW x \in Owners, NEW y \in Owners, x # y PROVE holds[x] \cap holds[y] = {}
  <2> SUFFICES ASSUME NEW s, s \in holds[x], s \in holds[y] PROVE FALSE
    OBVIOUS
  <2>1. Has(x, s) /\ Has(y, s)
    BY <1>1
  <2> QED
    BY <1>2, <1>7, <2>1 DEF HeldExactly
<1>8. safe = UNION Range(holds) /\ \A x, y \in DOMAIN holds : x # y => holds[x] \cap holds[y] = {}
  BY <1>3, <1>6, <1>7
<1> QED
  BY <1>8 DEF holds, LbasExact

-----------------------------------------------------------------------------
(***************************************************************************)
(* The three things a step does to the list.                               *)
(***************************************************************************)
\* Nobody comes to hold an LBA or to hold it no more.
LEMMA Keeps ==
    ASSUME HeldExactly, UNCHANGED safe, \A y \in Owners, r \in Slots : Has(y, r)' <=> Has(y, r)
    PROVE  HeldExactly'
  BY DEF HeldExactly

\* An owner inserts an LBA that is not in the list.
LEMMA Takes ==
    ASSUME HeldExactly, NEW x \in Owners, NEW s \in Slots, s \notin safe, safe' = safe \cup {s},
           \A y \in Owners, r \in Slots : Has(y, r)' <=> Has(y, r) \/ (y = x /\ r = s)
    PROVE  HeldExactly'
<1>1. ASSUME NEW r \in Slots PROVE r \in safe' <=> \E y \in Owners : Has(y, r)'
  BY DEF HeldExactly
<1>2. ASSUME NEW r \in Slots, NEW y \in Owners, NEW z \in Owners, Has(y, r)', Has(z, r)'
      PROVE  y = z
  BY <1>2 DEF HeldExactly
<1> QED
  BY <1>1, <1>2 DEF HeldExactly

\* An owner deletes one of its LBAs.
LEMMA Gives ==
    ASSUME HeldExactly, NEW x \in Owners, NEW s \in Slots, Has(x, s), safe' = safe \ {s},
           \A y \in Owners, r \in Slots : Has(y, r)' <=> Has(y, r) /\ ~(y = x /\ r = s)
    PROVE  HeldExactly'
<1>1. ASSUME NEW r \in Slots PROVE r \in safe' <=> \E y \in Owners : Has(y, r)'
  BY DEF HeldExactly
<1>2. ASSUME NEW r \in Slots, NEW y \in Owners, NEW z \in Owners, Has(y, r)', Has(z, r)'
      PROVE  y = z
  BY <1>2 DEF HeldExactly
<1> QED
  BY <1>1, <1>2 DEF HeldExactly

\* What a step of one thread cannot change.
LEMMA OthersUnmoved ==
    ASSUME EInv, NEW w \in Workers, UNCHANGED <<held, lba>>,
           \A u \in Workers \ {w} : wpc'[u] = wpc[u] /\ ix'[u] = ix[u] /\ batch'[u] = batch[u]
    PROVE  /\ \A y \in Owners : y # w => \A r \in Slots : Has(y, r)' <=> Has(y, r)
           /\ \A u \in Workers : u # w => \A j : InsertedAt(u, j)' <=> InsertedAt(u, j)
<1>1. ASSUME NEW u \in Workers, u # w, NEW j PROVE InsertedAt(u, j)' <=> InsertedAt(u, j)
  BY <1>1 DEF InsertedAt
<1>2. ASSUME NEW u \in Workers, u # w, NEW r \in Slots PROVE Has(u, r)' <=> Has(u, r)
  <2>1. Has(u, r) <=> \E j \in 1 .. Len(batch[u]) : InsertedAt(u, j) /\ batch[u][j] = r
    BY OwnerIs
  <2>2. Has(u, r)' <=> \E j \in 1 .. Len(batch'[u]) : InsertedAt(u, j)' /\ batch'[u][j] = r
    BY OwnerIs
  <2>3. batch'[u] = batch[u] /\ \A j : InsertedAt(u, j)' <=> InsertedAt(u, j)
    BY <1>1, <1>2
  <2> QED
    BY <2>1, <2>2, <2>3
<1>3. ASSUME NEW t \in Threads, NEW r \in Slots PROVE Has(t, r)' <=> Has(t, r)
  BY OwnerIs
<1> QED
  BY <1>1, <1>2, <1>3 DEF Owners

-----------------------------------------------------------------------------
LEMMA InitEHolds == EInit => EHolds
<1> SUFFICES ASSUME EInit PROVE EHolds
  OBVIOUS
<1>1. EInv
  BY InitEInv
<1>2. HoldsWhere
  BY DEF EInit, Opened, HoldsWhere
<1>3. ASSUME NEW w \in Workers PROVE Len(batch[w]) = 0
  BY <1>3 DEF EInit
<1>4. Distinct
  BY <1>3 DEF Distinct
<1>5. ASSUME NEW x \in Owners, NEW s PROVE ~Has(x, s)
  <2>1. \A t \in Threads : ~held[t]
    BY DEF EInit, Opened
  <2> QED
    BY <1>3, <2>1, OwnerIs DEF Owners
<1>6. HeldExactly
  BY <1>5 DEF EInit, Opened, HeldExactly
<1> QED
  BY <1>1, <1>2, <1>4, <1>6 DEF EHolds

\* The calls insert and delete their own LBAs.
LEMMA CallsKeepExact ==
    ASSUME "delete" \notin Ops, EHolds, Calls(Next)
    PROVE  Distinct' /\ HeldExactly'
<1> USE DEF EHolds, EInv
<1>1. UNCHANGED <<wpc, batch, ix>>
  BY DEF Calls
<1>2. ASSUME NEW w \in Workers, NEW j PROVE InsertedAt(w, j)' <=> InsertedAt(w, j)
  BY <1>1 DEF InsertedAt
<1>3. Distinct'
  BY <1>1, <1>2 DEF Distinct
<1>4. ASSUME NEW w \in Workers, NEW r \in Slots PROVE Has(w, r)' <=> Has(w, r)
  <2>1. Has(w, r) <=> \E j \in 1 .. Len(batch[w]) : InsertedAt(w, j) /\ batch[w][j] = r
    BY OwnerIs
  <2>2. Has(w, r)' <=> \E j \in 1 .. Len(batch'[w]) : InsertedAt(w, j)' /\ batch'[w][j] = r
    BY OwnerIs
  <2> QED
    BY <1>1, <1>2, <2>1, <2>2
<1>5. ASSUME NEW t \in Threads, Step(t) \/ \E r \in Requests : Call(t, r) PROVE HeldExactly'
  <2>1. t \in Owners /\ lba[t] \in Slots
    BY DEF Owners, IInv, TypeOK
  <2>2. \A u \in Threads \ {t} : (held'[u] <=> held[u]) /\ lba'[u] = lba[u]
    BY <1>5, LockEffect DEF ListEffect
  <2>3. \A u \in Threads : u # t => \A r \in Slots : Has(u, r)' <=> Has(u, r)
    BY <2>2, OwnerIs
  <2>4. \A y \in Owners : y # t => \A r \in Slots : Has(y, r)' <=> Has(y, r)
    BY <1>4, <2>3 DEF Owners
  <2>5. CASE UNCHANGED safe /\ (held'[t] <=> held[t]) /\ (held[t] => lba'[t] = lba[t])
    <3>1. \A r \in Slots : Has(t, r)' <=> Has(t, r)
      BY <2>5, OwnerIs
    <3> QED
      BY <2>4, <2>5, <3>1, Keeps
  <2>6. CASE /\ ~held[t] /\ held'[t] /\ lba'[t] = lba[t]
             /\ lba[t] \notin safe /\ safe' = safe \cup {lba[t]}
    <3>1. \A r \in Slots : Has(t, r)' <=> Has(t, r) \/ r = lba[t]
      BY <2>6, OwnerIs
    <3> QED
      BY <2>1, <2>4, <2>6, <3>1, Takes
  <2>7. CASE held[t] /\ ~held'[t] /\ safe' = safe \ {lba[t]}
    <3>1. \A r \in Slots : Has(t, r)' <=> Has(t, r) /\ r # lba[t]
      BY <2>7, OwnerIs
    <3>2. Has(t, lba[t])
      BY <2>7, OwnerIs
    <3> QED
      BY <2>1, <2>4, <2>7, <3>1, <3>2, Gives
  <2> QED
    BY <1>5, <2>5, <2>6, <2>7, LockEffect DEF ListEffect
<1>6. CASE Tick
  <2>1. UNCHANGED <<safe, held, lba>>
    BY <1>6 DEF Tick, local
  <2>2. \A t \in Threads : \A r \in Slots : Has(t, r)' <=> Has(t, r)
    BY <2>1, OwnerIs
  <2>3. \A y \in Owners, r \in Slots : Has(y, r)' <=> Has(y, r)
    BY <1>4, <2>2 DEF Owners
  <2> QED
    BY <1>3, <2>1, <2>3, Keeps
<1> QED
  BY <1>3, <1>5, <1>6 DEF Calls, Next

\* A thread that has inserted nothing, before and after: it waits, collects or is at the
\* beginning of a batch.
LEMMA EmptyHanded ==
    ASSUME EHolds, NEW w \in Workers, UNCHANGED <<held, lba, safe>>,
           \A u \in Workers \ {w} : wpc'[u] = wpc[u] /\ ix'[u] = ix[u] /\ batch'[u] = batch[u],
           wpc[w] \in {"wait", "ready", "scan", "check"},
           wpc'[w] \in {"wait", "ready", "scan", "check", "insert"}, ix'[w] = 1
    PROVE  Distinct' /\ HeldExactly'
<1>1. /\ \A y \in Owners : y # w => \A r \in Slots : Has(y, r)' <=> Has(y, r)
      /\ \A u \in Workers : u # w => \A j : InsertedAt(u, j)' <=> InsertedAt(u, j)
  BY OthersUnmoved DEF EHolds
<1>2. \A j \in Nat : j >= 1 => ~InsertedAt(w, j) /\ ~InsertedAt(w, j)'
  BY DEF InsertedAt
<1>3. ASSUME NEW n, NEW j \in 1 .. n PROVE ~InsertedAt(w, j) /\ ~InsertedAt(w, j)'
  BY <1>2
<1>4. \A r : ~Has(w, r) /\ ~Has(w, r)'
  BY <1>3, OwnerIs
<1>5. Distinct'
  BY <1>1, <1>3 DEF EHolds, Distinct
<1>6. HeldExactly'
  BY <1>1, <1>4, Keeps DEF EHolds
<1> QED
  BY <1>5, <1>6

\* insert_lba_to_safe_list: one more entry of the batch is in the list.
LEMMA InsertKeepsExact ==
    ASSUME EHolds, NEW w \in Workers, InsertLba(w)
    PROVE  Distinct' /\ HeldExactly'
<1> DEFINE s == batch[w][ix[w]]
<1> USE DEF EHolds, EInv
<1>1. wpc[w] = "insert" /\ s \notin safe /\ safe' = safe \cup {s} /\ UNCHANGED batch
  BY DEF InsertLba, TakeLba
<1>2. ix[w] \in 1 .. Len(batch[w]) /\ s \in Slots
  BY <1>1, EntryIsSlot
<1>3. UNCHANGED <<held, lba>>
  BY DEF InsertLba, calling, local
<1>4. \A u \in Workers \ {w} : wpc'[u] = wpc[u] /\ ix'[u] = ix[u] /\ batch'[u] = batch[u]
  BY DEF InsertLba, WGoto, Positions
<1>5. /\ \A y \in Owners : y # w => \A r \in Slots : Has(y, r)' <=> Has(y, r)
      /\ \A u \in Workers : u # w => \A j : InsertedAt(u, j)' <=> InsertedAt(u, j)
  BY <1>3, <1>4, OthersUnmoved
<1>6. ASSUME NEW j \in 1 .. Len(batch[w])
      PROVE  InsertedAt(w, j)' <=> InsertedAt(w, j) \/ j = ix[w]
  <2>1. InsertedAt(w, j) <=> j < ix[w]
    BY <1>1 DEF InsertedAt
  <2>2. CASE ix[w] = Len(batch[w])
    <3>1. wpc'[w] = "trim"
      BY <2>2 DEF InsertLba, WGoto, Positions
    <3>2. InsertedAt(w, j)'
      BY <3>1 DEF InsertedAt
    <3> QED
      BY <1>2, <2>1, <2>2, <3>2
  <2>3. CASE ix[w] # Len(batch[w])
    <3>1. wpc'[w] = "insert" /\ ix'[w] = ix[w] + 1
      BY <1>1, <2>3 DEF InsertLba, Positions
    <3>2. InsertedAt(w, j)' <=> j < ix[w] + 1
      BY <3>1 DEF InsertedAt
    <3> QED
      BY <1>2, <2>1, <3>2
  <2> QED
    BY <2>2, <2>3
<1> HIDE DEF s
<1>7. w \in Owners
  BY DEF Owners
<1>8. \A r : Has(w, r) <=> \E j \in 1 .. Len(batch[w]) : InsertedAt(w, j) /\ batch[w][j] = r
  BY OwnerIs
<1>9. \A r : Has(w, r)' <=> \E j \in 1 .. Len(batch[w]) : InsertedAt(w, j)' /\ batch[w][j] = r
  BY <1>1, OwnerIs
<1>10. batch[w][ix[w]] = s
  BY DEF s
<1>11. \A r \in Slots : Has(w, r)' <=> Has(w, r) \/ r = s
  BY <1>2, <1>6, <1>8, <1>9, <1>10
<1>12. HeldExactly'
  BY <1>1, <1>2, <1>5, <1>7, <1>11, Takes
<1>13. ASSUME NEW j \in 1 .. Len(batch[w]), InsertedAt(w, j) PROVE batch[w][j] # s
  <2>1. Has(w, batch[w][j])
    BY <1>8, <1>13
  <2> QED
    BY <1>1, <1>2, <1>7, <2>1 DEF HeldExactly
<1>14. ASSUME NEW i \in 1 .. Len(batch[w]), NEW j \in 1 .. Len(batch[w]),
              InsertedAt(w, i)', InsertedAt(w, j)', batch[w][i] = batch[w][j]
       PROVE  i = j
  <2>1. CASE i # ix[w] /\ j # ix[w]
    BY <1>6, <1>14, <2>1 DEF Distinct
  <2>2. CASE i = ix[w] \/ j = ix[w]
    BY <1>6, <1>10, <1>13, <1>14, <2>2
  <2> QED
    BY <2>1, <2>2
<1>15. Distinct'
  BY <1>1, <1>5, <1>14 DEF Distinct
<1> QED
  BY <1>12, <1>15

\* The trim comes when all of the batch is in the list, and none of it has left yet.
LEMMA TrimKeepsExact ==
    ASSUME EHolds, NEW w \in Workers, TrimBatch(w)
    PROVE  Distinct' /\ HeldExactly'
<1> USE DEF EHolds, EInv
<1>1. /\ wpc[w] = "trim" /\ wpc' = [wpc EXCEPT ![w] = "release"]
      /\ ix[w] = 1 /\ UNCHANGED <<batch, ix, safe, held, lba>>
  BY DEF TrimBatch, WGoto, Positions, calling, local
<1>2. \A u \in Workers \ {w} : wpc'[u] = wpc[u] /\ ix'[u] = ix[u] /\ batch'[u] = batch[u]
  BY <1>1 DEF Positions
<1>3. /\ \A y \in Owners : y # w => \A r \in Slots : Has(y, r)' <=> Has(y, r)
      /\ \A u \in Workers : u # w => \A j : InsertedAt(u, j)' <=> InsertedAt(u, j)
  BY <1>1, <1>2, OthersUnmoved
<1>4. wpc'[w] = "release"
  BY <1>1 DEF Positions
<1>5. ASSUME NEW j \in 1 .. Len(batch[w]) PROVE InsertedAt(w, j) /\ InsertedAt(w, j)'
  BY <1>1, <1>4 DEF InsertedAt
<1>6. \A r \in Slots : Has(w, r)' <=> Has(w, r)
  <2>1. \A r : Has(w, r) <=> \E j \in 1 .. Len(batch[w]) : InsertedAt(w, j) /\ batch[w][j] = r
    BY OwnerIs
  <2>2. \A r : Has(w, r)' <=> \E j \in 1 .. Len(batch[w]) : InsertedAt(w, j)' /\ batch[w][j] = r
    BY <1>1, OwnerIs
  <2> QED
    BY <1>5, <2>1, <2>2
<1>7. \A y \in Owners, r \in Slots : Has(y, r)' <=> Has(y, r)
  BY <1>3, <1>6
<1>8. HeldExactly'
  BY <1>1, <1>7, Keeps
<1>9. Distinct'
  BY <1>1, <1>3, <1>5 DEF Distinct
<1> QED
  BY <1>8, <1>9

\* delete_lba_from_safe_list: the entry that the thread is at leaves the list, whether
\* it goes on to the next or is done with the batch.
LEMMA DropKeepsExact ==
    ASSUME EHolds, NEW w \in Workers, wpc[w] = "release", DropLba(w), UNCHANGED <<held, lba>>,
           \A u \in Workers \ {w} : wpc'[u] = wpc[u] /\ ix'[u] = ix[u] /\ batch'[u] = batch[u],
           \/ wpc'[w] = "release" /\ ix'[w] = ix[w] + 1 /\ batch'[w] = batch[w]
           \/ ix[w] = Len(batch[w]) /\ batch'[w] = <<>>
    PROVE  Distinct' /\ HeldExactly'
<1> DEFINE s == batch[w][ix[w]]
<1> USE DEF EHolds, EInv
<1>1. ix[w] \in 1 .. Len(batch[w]) /\ s \in Slots
  BY EntryIsSlot
<1>2. safe' = safe \ {s}
  BY DEF DropLba
<1>3. /\ \A y \in Owners : y # w => \A r \in Slots : Has(y, r)' <=> Has(y, r)
      /\ \A u \in Workers : u # w => \A j : InsertedAt(u, j)' <=> InsertedAt(u, j)
  BY OthersUnmoved
<1>4. ASSUME NEW j \in 1 .. Len(batch[w]) PROVE InsertedAt(w, j) <=> j >= ix[w]
  BY DEF InsertedAt
<1> HIDE DEF s
<1>5. batch[w][ix[w]] = s /\ w \in Owners
  BY DEF s, Owners
<1>6. \A r : Has(w, r) <=> \E j \in 1 .. Len(batch[w]) : InsertedAt(w, j) /\ batch[w][j] = r
  BY OwnerIs
<1>7. \A r : Has(w, r)' <=> \E j \in 1 .. Len(batch'[w]) : InsertedAt(w, j)' /\ batch'[w][j] = r
  BY OwnerIs
<1>8. InsertedAt(w, ix[w])
  BY <1>1, <1>4
<1>9. ASSUME wpc'[w] = "release", ix'[w] = ix[w] + 1, batch'[w] = batch[w]
      PROVE  /\ \A r \in Slots : Has(w, r)' <=> Has(w, r) /\ r # s
             /\ \A i, j \in 1 .. Len(batch'[w]) :
                  InsertedAt(w, i)' /\ InsertedAt(w, j)' /\ batch'[w][i] = batch'[w][j] => i = j
  <2>1. ASSUME NEW j \in 1 .. Len(batch[w])
        PROVE  InsertedAt(w, j)' <=> InsertedAt(w, j) /\ j # ix[w]
    <3>1. InsertedAt(w, j)' <=> j >= ix[w] + 1
      BY <1>9 DEF InsertedAt
    <3> QED
      BY <1>1, <1>4, <3>1
  <2>2. ASSUME NEW j \in 1 .. Len(batch[w]), InsertedAt(w, j), batch[w][j] = s PROVE j = ix[w]
    BY <1>1, <1>5, <1>8, <2>2 DEF Distinct
  <2>3. \A r \in Slots : Has(w, r)' <=> Has(w, r) /\ r # s
    BY <1>5, <1>6, <1>7, <1>9, <2>1, <2>2
  <2>4. \A i, j \in 1 .. Len(batch'[w]) :
          InsertedAt(w, i)' /\ InsertedAt(w, j)' /\ batch'[w][i] = batch'[w][j] => i = j
    BY <1>9, <2>1 DEF Distinct
  <2> QED
    BY <2>3, <2>4
<1>10. ASSUME ix[w] = Len(batch[w]), batch'[w] = <<>>
       PROVE  /\ \A r \in Slots : Has(w, r)' <=> Has(w, r) /\ r # s
              /\ \A i, j \in 1 .. Len(batch'[w]) :
                  InsertedAt(w, i)' /\ InsertedAt(w, j)' /\ batch'[w][i] = batch'[w][j] => i = j
  <2>1. 1 .. Len(batch'[w]) = {}
    BY <1>10
  <2>2. \A r : ~Has(w, r)'
    BY <1>7, <2>1
  <2>3. \A j \in 1 .. Len(batch[w]) : InsertedAt(w, j) => j = ix[w]
    BY <1>1, <1>4, <1>10
  <2>4. \A r : Has(w, r) => r = s
    BY <1>5, <1>6, <2>3
  <2> QED
    BY <2>1, <2>2, <2>4
<1>11. \A r \in Slots : Has(w, r)' <=> Has(w, r) /\ r # s
  BY <1>9, <1>10
<1>12. Has(w, s)
  BY <1>1, <1>5, <1>6, <1>8
<1>13. \A y \in Owners, r \in Slots : Has(y, r)' <=> Has(y, r) /\ ~(y = w /\ r = s)
  BY <1>3, <1>11
<1>14. HeldExactly'
  BY <1>1, <1>2, <1>5, <1>12, <1>13, Gives
<1>15. ASSUME NEW u \in Workers, NEW i \in 1 .. Len(batch'[u]), NEW j \in 1 .. Len(batch'[u]),
              InsertedAt(u, i)', InsertedAt(u, j)', batch'[u][i] = batch'[u][j]
       PROVE  i = j
  <2>1. CASE u = w
    BY <1>9, <1>10, <1>15, <2>1
  <2>2. CASE u # w
    <3>1. batch'[u] = batch[u] /\ InsertedAt(u, i) /\ InsertedAt(u, j)
      BY <1>3, <1>15, <2>2
    <3> QED
      BY <1>15, <3>1 DEF Distinct
  <2> QED
    BY <2>1, <2>2
<1> QED
  BY <1>14, <1>15 DEF Distinct

\* Every step keeps the list exact.
LEMMA EHoldsStep ==
    ASSUME "delete" \notin Ops, EHolds, ENext
    PROVE  Distinct' /\ HeldExactly'
<1> USE DEF EHolds, EInv
<1>1. CASE Calls(Next)
  BY <1>1, CallsKeepExact
<1>2. ASSUME NEW w \in Workers, InsertLba(w) PROVE Distinct' /\ HeldExactly'
  BY <1>2, InsertKeepsExact
<1>3. ASSUME NEW w \in Workers, TrimBatch(w) PROVE Distinct' /\ HeldExactly'
  BY <1>3, TrimKeepsExact
<1>4. ASSUME NEW w \in Workers, DeleteLba(w) PROVE Distinct' /\ HeldExactly'
  <2>1. /\ wpc[w] = "release" /\ DropLba(w) /\ UNCHANGED <<wpc, batch, held, lba>>
        /\ ix' = [ix EXCEPT ![w] = ix[w] + 1]
    BY <1>4 DEF DeleteLba, calling, local, Positions
  <2>2. ix'[w] = ix[w] + 1 /\ \A u \in Workers \ {w} : ix'[u] = ix[u]
    BY <2>1 DEF Positions
  <2> QED
    BY <2>1, <2>2, DropKeepsExact
<1>5. ASSUME NEW w \in Workers, NEW to, DeleteLast(w, to) PROVE Distinct' /\ HeldExactly'
  <2>1. /\ wpc[w] = "release" /\ DropLba(w) /\ UNCHANGED <<held, lba>>
        /\ ix[w] = Len(batch[w])
    BY <1>5 DEF DeleteLast, calling, local
  <2>2. /\ batch'[w] = <<>>
        /\ \A u \in Workers \ {w} : wpc'[u] = wpc[u] /\ ix'[u] = ix[u] /\ batch'[u] = batch[u]
    BY <1>5 DEF DeleteLast, WGoto, Positions
  <2> QED
    BY <2>1, <2>2, DropKeepsExact
<1>6. ASSUME NEW w \in Workers, PopBlock(w) PROVE Distinct' /\ HeldExactly'
  <2>1. UNCHANGED <<safe, held, lba>> /\ wpc[w] = "wait"
    BY <1>6 DEF PopBlock, local
  <2>2. /\ wpc'[w] = "insert" /\ ix'[w] = 1
        /\ \A u \in Workers \ {w} : wpc'[u] = wpc[u] /\ ix'[u] = ix[u] /\ batch'[u] = batch[u]
    BY <1>6 DEF PopBlock, WGoto, Positions
  <2> QED
    BY <2>1, <2>2, EmptyHanded
<1>7. CASE \/ Wake \/ WaitForTrigger \/ StartPass \/ YieldPass \/ Scan \/ EndOfDevice
           \/ ScanError \/ Check
  <2>1. wpc[Manager] \in {"wait", "ready", "scan", "check"}
    BY <1>7 DEF Wake, WaitForTrigger, StartPass, YieldPass, Scan, EndOfDevice, ScanError, Check
  <2>2. UNCHANGED <<safe, held, lba, ix>>
    BY <1>7 DEF Wake, WaitForTrigger, StartPass, YieldPass, Scan, EndOfDevice, ScanError, Check,
                calling, local
  <2>3. /\ wpc'[Manager] \in {"wait", "ready", "scan", "check", "insert"}
        /\ \A u \in Workers \ {Manager} : wpc'[u] = wpc[u] /\ batch'[u] = batch[u]
    <3>1. \E to \in {"wait", "ready", "scan", "check", "insert"} : wpc' = [wpc EXCEPT ![Manager] = to]
      BY <1>7 DEF Wake, WaitForTrigger, StartPass, YieldPass, Scan, EndOfDevice, ScanError, Check,
                  EndPass, Collect, WGoto
    <3>2. UNCHANGED batch \/ \E b : batch' = [batch EXCEPT ![Manager] = b]
      BY <1>7 DEF Wake, WaitForTrigger, StartPass, YieldPass, Scan, EndOfDevice, ScanError, Check,
                  EndPass, Collect
    <3> QED
      BY <3>1, <3>2, ManagerIsWorker DEF Positions
  <2>4. ix[Manager] = 1
    BY <2>1, ManagerIsWorker DEF Positions
  <2> QED
    BY <2>1, <2>2, <2>3, <2>4, ManagerIsWorker, EmptyHanded
<1>8. CASE DeletionThread
  <2>1. UNCHANGED <<wpc, batch, ix, safe, held, lba>>
    BY <1>8 DEF DeletionThread, Announce, LockGlb, DeletionDone, vars
  <2> QED
    BY <2>1 DEF Distinct, HeldExactly, Has, InsertedAt
<1>9. CASE BatchDone
  BY <1>5, <1>9, ManagerIsWorker DEF BatchDone
<1> QED
  BY <1>1, <1>2, <1>3, <1>4, <1>5, <1>6, <1>7, <1>8, <1>9, StepIsEither
  DEF ThreadStep, Background, Pass, BlockDone

LEMMA EHoldsInductive ==
    ASSUME "delete" \notin Ops
    PROVE  EHolds /\ [ENext]_evars => EHolds'
<1> SUFFICES ASSUME EHolds, [ENext]_evars PROVE EHolds'
  OBVIOUS
<1>1. EInv'
  BY EInductive DEF EHolds
<1>2. HoldsWhere'
  <2>1. CASE Calls(Next)
    BY <2>1, HoldsWhereStep DEF EHolds, EInv, Calls
  <2>2. CASE ThreadStep
    BY <2>2, ThreadsLeaveCalls DEF EHolds, HoldsWhere, local
  <2>3. CASE UNCHANGED evars
    BY <2>3 DEF evars, vars, EHolds, HoldsWhere
  <2> QED
    BY <2>1, <2>2, <2>3, StepIsEither
<1>3. Distinct' /\ HeldExactly'
  <2>1. CASE UNCHANGED evars
    BY <2>1 DEF evars, vars, EHolds, Distinct, HeldExactly, Has, InsertedAt
  <2> QED
    BY <2>1, EHoldsStep
<1> QED
  BY <1>1, <1>2, <1>3 DEF EHolds

\* While keys are put, read and expired but not deleted, the safe LBA list is exactly
\* what the calls and the threads that trim believe it is, entry by entry of every batch,
\* and no two of them have the same LBA in it.
THEOREM LbasExactHolds ==
    ASSUME "delete" \notin Ops
    PROVE  ESpec => []LbasExact
<1>1. EHolds => LbasExact
  BY ExactIsExact DEF EHolds
<1>2. EHolds /\ [ENext]_evars => EHolds'
  BY EHoldsInductive
<1> QED
  BY InitEHolds, <1>1, <1>2, PTL DEF ESpec
=============================================================================
