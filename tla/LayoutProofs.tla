----------------------------- MODULE LayoutProofs -----------------------------
(***************************************************************************)
(* The calls leave the metadata of a store alone, for any device, hashes,  *)
(* keys and pools, whatever they put and delete in whatever order; and     *)
(* they keep what was put, unless pools that share value ranges delete.    *)
(***************************************************************************)
EXTENDS Layout, TLAPS

\* Where a record begins, the value range from there on has no metadata: kv_put
\* saw it free when the key was new, and a delete trims no more than that.
Clear(lba) == Sectors(lba, ValueRange) \cap MetaLbas = {}

RangesClear ==
    \A s \in Lbas : media[s] \in Record /\ media[s].part = 0 => Clear(s)

Inv ==
    /\ hash \in [Keys \X Pools -> HashValues]
    /\ MetadataKept
    /\ RangesClear

\* A new store has its metadata, and no record.
LEMMA InitInv == Init => Inv
<1> SUFFICES ASSUME Init PROVE Inv
  OBVIOUS
<1>1. \A s \in Lbas : media[s] = IF s \in MetaLbas THEN Meta ELSE NoData
  BY DEF Init
<1>2. MetadataKept
  BY <1>1, AddressAssumption DEF MetadataKept
<1>3. RangesClear
  BY <1>1, MarkAssumption DEF RangesClear
<1> QED
  BY <1>2, <1>3 DEF Inv, Init

\* The calls probe at LBAs of the device.
LEMMA ProbesOnDevice ==
    ASSUME Inv, NEW k \in Keys, NEW p \in Pools, NEW i \in 1 .. MaxCollision
    PROVE  Probe(k, p, i) \in Lbas
<1>1. hash[<<k, p>>] \in HashValues
  BY DEF Inv
<1> QED
  BY <1>1, AddressAssumption DEF Probe

\* What kv_read_media finds is the begin of a record.
LEMMA ReadClear ==
    ASSUME Inv, NEW k \in Keys, NEW p \in Pools, NEW lba \in ReadLba(k, p)
    PROVE  lba \in Lbas /\ Clear(lba)
<1>1. PICK i \in 1 .. MaxCollision : lba = Probe(k, p, i) /\ Holds(Probe(k, p, i), k, p)
  BY DEF ReadLba, First
<1>2. lba \in Lbas
  BY <1>1, ProbesOnDevice
<1> QED
  BY <1>1, <1>2 DEF Holds, Inv, RangesClear

\* Where kv_gen_lba lets a put write there is a free range, or a record of the key.
LEMMA PutClear ==
    ASSUME Inv, NEW k \in Keys, NEW p \in Pools, NEW lba \in PutLba(k, p)
    PROVE  lba \in Lbas /\ Clear(lba)
<1>1. PICK i \in 1 .. MaxCollision :
          lba = Probe(k, p, i) /\ (Free(Probe(k, p, i)) \/ Holds(Probe(k, p, i), k, p))
  BY DEF PutLba, First
<1>2. lba \in Lbas
  BY <1>1, ProbesOnDevice
<1>3. CASE Free(lba)
  <2>1. \A s \in Sectors(lba, ValueRange) \cap Lbas : media[s] = NoData
    BY <1>3 DEF Free
  <2>2. \A s \in MetaLbas : s \in Lbas /\ media[s] = Meta
    BY AddressAssumption DEF Inv, MetadataKept
  <2> QED
    BY <1>2, <2>1, <2>2, LayoutAssumption DEF Clear
<1>4. CASE Holds(lba, k, p)
  BY <1>2, <1>4 DEF Holds, Inv, RangesClear
<1> QED
  BY <1>1, <1>3, <1>4

\* A record is no longer than a value range.
LEMMA ShortRecords ==
    ASSUME NEW lba \in Lbas, NEW n \in 1 .. MaxSectors
    PROVE  Sectors(lba, n) \subseteq Sectors(lba, ValueRange)
<1>1. ValueRange \in Nat \ {0} /\ lba \in Int
  BY LayoutAssumption DEF Lbas
<1>2. n \in Nat /\ n <= ValueRange
  BY <1>1 DEF MaxSectors
<1> QED
  BY <1>1, <1>2 DEF Sectors

\* kv_put writes where nothing but the record it replaces can be.
LEMMA PutStep ==
    ASSUME Inv, NEW k \in Keys, NEW p \in Pools, NEW n \in 1 .. MaxSectors, Put(k, p, n)
    PROVE  Inv'
<1>1. PICK lba \in PutLba(k, p) :
          /\ media' = [s \in Lbas |->
               IF s \in Sectors(lba, n)
               THEN [key |-> k, pool |-> p, secs |-> n, part |-> s - lba] ELSE media[s]]
          /\ UNCHANGED hash
  BY DEF Put
<1>2. lba \in Lbas /\ Clear(lba)
  BY PutClear
<1>3. lba \in Int
  BY <1>2 DEF Lbas
<1>4. Sectors(lba, n) \cap MetaLbas = {}
  BY <1>2, ShortRecords DEF Clear
<1>5. MetadataKept'
  BY <1>1, <1>4, AddressAssumption DEF Inv, MetadataKept
<1>6. ASSUME NEW s \in Lbas, media'[s] \in Record, media'[s].part = 0 PROVE Clear(s)
  <2>1. CASE s \in Sectors(lba, n)
    <3>1. s - lba = 0
      BY <1>1, <1>6, <2>1
    <3>2. s \in Int
      BY DEF Lbas
    <3> QED
      BY <1>2, <1>3, <3>1, <3>2
  <2>2. CASE s \notin Sectors(lba, n)
    BY <1>1, <1>6, <2>2 DEF Inv, RangesClear
  <2> QED
    BY <2>1, <2>2
<1> QED
  BY <1>1, <1>5, <1>6 DEF Inv, RangesClear, Clear

\* kv_delete trims one value range, from the begin of a record on.
LEMMA DeleteStep ==
    ASSUME Inv, NEW k \in Keys, NEW p \in Pools, Delete(k, p) PROVE Inv'
<1>1. PICK lba \in ReadLba(k, p) :
          /\ media' = [s \in Lbas |->
                         IF s \in Sectors(lba, ValueRange) THEN NoData ELSE media[s]]
          /\ UNCHANGED hash
  BY DEF Delete, Trimmed
<1>2. Clear(lba)
  BY ReadClear
<1>3. MetadataKept'
  BY <1>1, <1>2, AddressAssumption DEF Inv, MetadataKept, Clear
<1>4. ASSUME NEW s \in Lbas, media'[s] \in Record PROVE media'[s] = media[s]
  BY <1>1, <1>4, MarkAssumption
<1> QED
  BY <1>1, <1>3, <1>4 DEF Inv, RangesClear, Clear

\* No call writes or trims metadata, bitmaps or pool tags, though keys hash to the
\* ranges where these are: kv_range_exists finds them mapped, and what a delete trims
\* was free, as a whole, when the key was put.
THEOREM MetadataKeptHolds == Spec => []MetadataKept
<1>1. Inv /\ [Next]_vars => Inv'
  <2> SUFFICES ASSUME Inv, [Next]_vars PROVE Inv'
    OBVIOUS
  <2>1. CASE Next
    BY <2>1, PutStep, DeleteStep DEF Next
  <2>2. CASE UNCHANGED vars
    BY <2>2 DEF vars, Inv, MetadataKept, RangesClear, Clear
  <2> QED
    BY <2>1, <2>2
<1>2. Inv => MetadataKept
  BY DEF Inv
<1> QED
  BY InitInv, <1>1, <1>2, PTL DEF Spec

-----------------------------------------------------------------------------
(***************************************************************************)
(* A stored key is kept.                                                   *)
(***************************************************************************)
\* The remainder of a multiple of v by a multiple of v is one.
LEMMA RemainderAligned ==
    ASSUME NEW v \in Nat \ {0}, NEW a \in Nat, NEW m \in Nat \ {0}
    PROVE  \E n \in Nat : (a * v) % (m * v) = n * v
<1> DEFINE x == a * v
           d == m * v
           n == a - (x \div d) * m
<1>1. x \in Nat /\ d \in Nat \ {0}
  <2>1. x \in Int /\ x >= 0
    OBVIOUS
  <2>2. d \in Int /\ d > 0
    OBVIOUS
  <2> QED
    BY <2>1, <2>2
<1> HIDE DEF x, d
<1>2. x = d * (x \div d) + (x % d) /\ x \div d \in Int /\ x % d \in 0 .. d - 1
  BY <1>1
<1>3. n \in Int /\ x % d = n * v
  <2>1. PICK q \in Int : q = x \div d
    BY <1>2
  <2>2. x - d * q = x % d
    BY <1>1, <1>2, <2>1
  <2>3. x - d * q = (a - q * m) * v
    BY DEF x, d
  <2> QED
    BY <2>1, <2>2, <2>3
<1> HIDE DEF n
<1>4. n >= 0
  <2> SUFFICES ASSUME n <= -1 PROVE FALSE
    BY <1>3
  <2>1. n * v < 0
    BY <1>3
  <2> QED
    BY <1>1, <1>2, <1>3, <2>1
<1> QED
  BY <1>3, <1>4 DEF x, d

\* Where the records of a pool may begin.
Locations(p) == {location[<<h, p, i>>] : h \in HashValues, i \in 1 .. MaxCollision}

\* They are a number of value ranges behind the hash of the pool.
LEMMA LocationsAligned ==
    ASSUME NEW p \in Pools, NEW lba \in Locations(p)
    PROVE  \E n \in Nat : lba = get_poolid_hash(p) + n * ValueRange
<1> DEFINE pool == get_poolid_hash(p)
<1>1. PICK h \in HashValues, i \in 1 .. MaxCollision : lba = location[<<h, p, i>>]
  BY DEF Locations
<1>2. PICK f \in Nat : f = Folded(Redistributed(h), m_keyBits)
  BY AlignmentAssumption
<1>3. PICK v \in Nat \ {0} : v = ValueRange
  BY LayoutAssumption
<1>4. key_hash(h) = f * v
  BY <1>2, <1>3, AlignmentAssumption DEF key_hash
<1>5. lba = pool + IF i = 1 THEN key_hash(h) ELSE sequential_probe(key_hash(h), i - 1)
  <2>1. <<h, p, i>> \in HashValues \X Pools \X (1 .. MaxCollision)
    OBVIOUS
  <2> HIDE DEF pool
  <2> QED
    BY <1>1, <2>1 DEF location, pool
<1>6. CASE i = 1
  BY <1>3, <1>4, <1>5, <1>6
<1>7. CASE i # 1
  <2>1. PICK m \in Nat \ {0} : 2^(comp_sparse_addr_bits - align_left) = m * v
    BY <1>3, AlignmentAssumption
  <2>2. i \in Nat /\ i - 1 \in Nat
    BY LayoutAssumption
  <2>3. sequential_probe(key_hash(h), i - 1) = (f * v + (i - 1) * v) % (m * v)
    BY <1>3, <1>4, <2>1, AlignmentAssumption DEF sequential_probe
  <2>4. f * v + (i - 1) * v = (f + (i - 1)) * v /\ f + (i - 1) \in Nat
    BY <2>2
  <2>5. \E n \in Nat : ((f + (i - 1)) * v) % (m * v) = n * v
    BY <2>4, RemainderAligned
  <2> QED
    BY <1>3, <1>5, <1>7, <2>3, <2>4, <2>5
<1> QED
  BY <1>6, <1>7

\* So two of them are a value range apart.
LEMMA LocationsApart ==
    ASSUME NEW p \in Pools, NEW lba \in Locations(p), NEW far \in Locations(p), lba < far
    PROVE  lba + ValueRange <= far
<1>1. PICK m \in Nat : lba = get_poolid_hash(p) + m * ValueRange
  BY LocationsAligned
<1>2. PICK n \in Nat : far = get_poolid_hash(p) + n * ValueRange
  BY LocationsAligned
<1>3. PICK v \in Nat \ {0} : v = ValueRange
  BY LayoutAssumption
<1>4. PICK pool \in Nat : pool = get_poolid_hash(p)
  BY AlignmentAssumption
<1>5. pool + m * v < pool + n * v
  BY <1>1, <1>2, <1>3, <1>4
<1>6. m < n
  <2> SUFFICES ASSUME n <= m PROVE FALSE
    OBVIOUS
  <2>1. n * v <= m * v
    OBVIOUS
  <2> QED
    BY <1>5, <2>1
<1>7. (m + 1) * v <= n * v
  BY <1>6
<1>8. (m + 1) * v = m * v + v
  OBVIOUS
<1> QED
  BY <1>1, <1>2, <1>3, <1>4, <1>7, <1>8

-----------------------------------------------------------------------------
\* A record lies at an LBA with all its sectors.
RecordAt(lba, k, p, n) ==
    \A s \in Sectors(lba, n) : media[s] = [key |-> k, pool |-> p, secs |-> n, part |-> s - lba]

\* Every sector of data is of a record that lies, whole, at a location of its pool.
Whole ==
    \A s \in Lbas, k \in Keys, p \in Pools, n \in 1 .. MaxSectors :
        media[s] \in Record /\ media[s].key = k /\ media[s].pool = p /\ media[s].secs = n =>
            \E lba \in Locations(p) : s \in Sectors(lba, n) /\ RecordAt(lba, k, p, n)

\* The record of a key that was put is at the first of its locations that has one;
\* what is left of the key at later ones is never reached.
StoredFirst ==
    \A k \in Keys, p \in Pools : stored[<<k, p>>] # NoData =>
        LET at == stored[<<k, p>>] IN
        /\ at.secs \in 1 .. MaxSectors
        /\ RecordAt(at.lba, k, p, at.secs)
        /\ \E i \in 1 .. MaxCollision :
             /\ at.lba = Probe(k, p, i)
             /\ \A j \in 1 .. MaxCollision : j < i => ~Holds(Probe(k, p, j), k, p)

KeptInv ==
    /\ Inv
    /\ stored \in [Keys \X Pools -> Place \cup {NoData}]
    /\ Whole
    /\ StoredFirst

\* A location of a pool and what fits there is on the device.
LEMMA LocationsOnDevice ==
    ASSUME NEW p \in Pools, NEW lba \in Locations(p)
    PROVE  /\ lba \in Lbas /\ lba \in Nat
           /\ \A n \in 1 .. MaxSectors : lba + n <= m_kv_len /\ Sectors(lba, n) \subseteq Lbas
<1>1. PICK h \in HashValues, i \in 1 .. MaxCollision : lba = location[<<h, p, i>>]
  BY DEF Locations
<1>2. <<h, p, i>> \in HashValues \X Pools \X (1 .. MaxCollision)
  OBVIOUS
<1>3. lba \in Lbas /\ lba + MaxSectors <= m_kv_len
  BY <1>1, <1>2, AddressAssumption
<1>4. m_kv_len \in Nat /\ MaxSectors \in Nat
  BY AddressAssumption, LayoutAssumption DEF MaxSectors
<1> QED
  BY <1>3, <1>4 DEF Lbas, Sectors

LEMMA ProbeLocation ==
    ASSUME Inv, NEW k \in Keys, NEW p \in Pools, NEW i \in 1 .. MaxCollision
    PROVE  Probe(k, p, i) \in Locations(p)
<1>1. hash[<<k, p>>] \in HashValues
  BY DEF Inv
<1> QED
  BY <1>1 DEF Probe, Locations

\* What the sectors of a record hold.
LEMMA RecordSectors ==
    ASSUME NEW lba \in Nat, NEW k \in Keys, NEW p \in Pools, NEW n \in 1 .. MaxSectors,
           RecordAt(lba, k, p, n), NEW s \in Sectors(lba, n)
    PROVE  /\ media[s] \in Record
           /\ media[s].key = k /\ media[s].pool = p /\ media[s].secs = n /\ media[s].part = s - lba
<1>1. media[s] = [key |-> k, pool |-> p, secs |-> n, part |-> s - lba]
  BY DEF RecordAt
<1>2. MaxSectors \in Nat
  BY LayoutAssumption DEF MaxSectors
<1>3. s - lba \in 0 .. (MaxSectors - 1)
  BY <1>2 DEF Sectors
<1> QED
  BY <1>1, <1>3 DEF Record

\* A header that is read is that of a whole record.
LEMMA HeaderWhole ==
    ASSUME KeptInv, NEW k \in Keys, NEW p \in Pools, NEW lba \in Lbas, Holds(lba, k, p)
    PROVE  /\ lba \in Locations(p) /\ media[lba].secs \in 1 .. MaxSectors
           /\ RecordAt(lba, k, p, media[lba].secs)
<1>1. /\ media[lba] \in Record /\ media[lba].key = k /\ media[lba].pool = p
      /\ media[lba].part = 0 /\ media[lba].secs \in 1 .. MaxSectors
  BY DEF Holds, Record
<1>2. PICK n \in 1 .. MaxSectors : n = media[lba].secs
  BY <1>1
<1>3. PICK b \in Locations(p) : lba \in Sectors(b, n) /\ RecordAt(b, k, p, n)
  BY <1>1, <1>2 DEF KeptInv, Whole
<1>4. b \in Nat
  BY LocationsOnDevice
<1>5. media[lba].part = lba - b
  BY <1>3, <1>4, RecordSectors
<1>6. b = lba
  <2>1. lba \in Int
    BY <1>3, <1>4 DEF Sectors
  <2> QED
    BY <1>1, <1>4, <1>5, <2>1
<1> QED
  BY <1>1, <1>2, <1>3, <1>6

\* What a put finds at the location it takes: free sectors, or the record of the key,
\* and if the new one is longer, no record of another pool anywhere.
Taken(lba, k, p, n) ==
    \/ Free(lba)
    \/ /\ Holds(lba, k, p)
       /\ n = media[lba].secs \/ (n > media[lba].secs /\ Alone(p))

\* The only record that a put writes over is the one that it replaces.
LEMMA PutOverwrites ==
    ASSUME ~SharedDeletes, KeptInv,
           NEW k \in Keys, NEW p \in Pools, NEW n \in 1 .. MaxSectors,
           NEW lba \in Locations(p), Taken(lba, k, p, n),
           NEW j \in Keys, NEW q \in Pools, NEW m \in 1 .. MaxSectors,
           NEW b \in Locations(q), RecordAt(b, j, q, m),
           NEW s \in Sectors(b, m), s \in Sectors(lba, n)
    PROVE  b = lba /\ j = k /\ q = p /\ m <= n
<1>1. /\ lba \in Lbas /\ lba \in Nat /\ b \in Lbas /\ b \in Nat
      /\ Sectors(lba, n) \subseteq Lbas /\ n \in Nat /\ m \in Nat
  BY LocationsOnDevice
<1>2. /\ media[s] \in Record /\ media[s].key = j /\ media[s].pool = q /\ media[s].secs = m
      /\ media[s].part = s - b
  BY <1>1, RecordSectors
<1>3. CASE Free(lba)
  <2>1. s \in Sectors(lba, ValueRange) \cap Lbas
    BY <1>1, ShortRecords
  <2>2. media[s] = NoData
    BY <1>3, <2>1 DEF Free
  <2> QED
    BY <1>2, <2>2, MarkAssumption
<1>4. ASSUME Holds(lba, k, p) PROVE RecordAt(lba, k, p, media[lba].secs) /\ media[lba].secs \in 1 .. MaxSectors
  BY <1>1, <1>4, HeaderWhole
<1>5. CASE Holds(lba, k, p) /\ n = media[lba].secs
  <2>1. /\ media[s].key = k /\ media[s].pool = p /\ media[s].secs = n
        /\ media[s].part = s - lba
    BY <1>1, <1>4, <1>5, RecordSectors
  <2>2. s - b = s - lba /\ s \in Int
    BY <1>1, <1>2, <2>1 DEF Sectors
  <2> QED
    BY <1>1, <1>2, <2>1, <2>2
<1>6. CASE Holds(lba, k, p) /\ n > media[lba].secs /\ Alone(p)
  <2>1. q = p
    BY <1>1, <1>2, <1>6 DEF Alone
  <2>2. b = lba
    <3>1. ~(lba < b)
      <4> SUFFICES ASSUME lba < b PROVE FALSE
        OBVIOUS
      <4>1. lba + ValueRange <= b
        BY <2>1, LocationsApart
      <4>2. s \in Sectors(lba, ValueRange)
        BY <1>1, ShortRecords
      <4> QED
        BY <1>1, <4>1, <4>2, LayoutAssumption DEF Sectors
    <3>2. ~(b < lba)
      <4> SUFFICES ASSUME b < lba PROVE FALSE
        OBVIOUS
      <4>1. b + ValueRange <= lba
        BY <2>1, LocationsApart
      <4>2. s \in Sectors(b, ValueRange)
        BY <1>1, ShortRecords
      <4> QED
        BY <1>1, <4>1, <4>2, LayoutAssumption DEF Sectors
    <3> QED
      BY <1>1, <3>1, <3>2
  <2>3. b \in Sectors(b, m)
    BY <1>1 DEF Sectors
  <2>4. media[b].key = j /\ media[b].secs = m
    BY <1>1, <2>3, RecordSectors
  <2> QED
    BY <1>1, <1>6, <2>1, <2>2, <2>4 DEF Holds
<1> QED
  BY <1>3, <1>5, <1>6 DEF Taken

\* kv_put: the record is whole where it was put, first of its key's, and no other is hurt.
LEMMA PutKept ==
    ASSUME ~SharedDeletes, KeptInv, NEW k \in Keys, NEW p \in Pools, NEW n \in 1 .. MaxSectors,
           Put(k, p, n)
    PROVE  KeptInv'
<1>1. PICK lba \in PutLba(k, p) :
        /\ Holds(lba, k, p) => n = media[lba].secs \/ (n > media[lba].secs /\ Alone(p))
        /\ media' = [s \in Lbas |->
             IF s \in Sectors(lba, n)
             THEN [key |-> k, pool |-> p, secs |-> n, part |-> s - lba] ELSE media[s]]
        /\ stored' = [stored EXCEPT ![<<k, p>>] = [lba |-> lba, secs |-> n]]
        /\ UNCHANGED hash
  BY DEF Put
<1>2. PICK i \in 1 .. MaxCollision :
        /\ lba = Probe(k, p, i)
        /\ Free(lba) \/ Holds(lba, k, p)
        /\ \A j \in 1 .. MaxCollision :
             j < i => ~Free(Probe(k, p, j)) /\ ~Holds(Probe(k, p, j), k, p)
  <2> DEFINE probes == {j \in 1 .. MaxCollision : Free(Probe(k, p, j)) \/ Holds(Probe(k, p, j), k, p)}
  <2>1. PICK i \in probes : lba = Probe(k, p, i) /\ \A j \in probes : i <= j
    BY DEF PutLba, First
  <2>2. \A j \in 1 .. MaxCollision : j < i => j \notin probes
    BY <2>1, LayoutAssumption
  <2> QED
    BY <2>1, <2>2
<1>3. Inv /\ Inv' /\ lba \in Locations(p) /\ Taken(lba, k, p, n)
  BY <1>1, <1>2, ProbeLocation, PutStep DEF Taken, KeptInv
<1>4. lba \in Lbas /\ lba \in Nat /\ Sectors(lba, n) \subseteq Lbas
  BY <1>3, LocationsOnDevice
<1>5. /\ \A s \in Sectors(lba, n) :
           media'[s] = [key |-> k, pool |-> p, secs |-> n, part |-> s - lba]
      /\ \A s \in Lbas \ Sectors(lba, n) : media'[s] = media[s]
  BY <1>1, <1>4
<1>6. RecordAt(lba, k, p, n)'
  BY <1>5 DEF RecordAt
<1>7. ASSUME NEW s \in Sectors(lba, n)
      PROVE  /\ media'[s] \in Record
             /\ media'[s].key = k /\ media'[s].pool = p /\ media'[s].secs = n
             /\ media'[s].part = s - lba
  <2>1. MaxSectors \in Nat
    BY LayoutAssumption DEF MaxSectors
  <2>2. s - lba \in 0 .. (MaxSectors - 1)
    BY <1>4, <2>1 DEF Sectors
  <2>3. media'[s] = [key |-> k, pool |-> p, secs |-> n, part |-> s - lba]
    BY <1>5
  <2> QED
    BY <2>2, <2>3 DEF Record
<1>8. ASSUME NEW j \in Keys, NEW q \in Pools, NEW m \in 1 .. MaxSectors, NEW b \in Locations(q),
             RecordAt(b, j, q, m), ~(b = lba /\ j = k /\ q = p /\ m <= n)
      PROVE  RecordAt(b, j, q, m)'
  <2>1. \A s \in Sectors(b, m) : s \notin Sectors(lba, n)
    BY <1>3, <1>8, PutOverwrites
  <2>2. Sectors(b, m) \subseteq Lbas
    BY LocationsOnDevice
  <2> QED
    BY <1>5, <1>8, <2>1, <2>2 DEF RecordAt
<1>9. stored' \in [Keys \X Pools -> Place \cup {NoData}]
  BY <1>1, <1>4 DEF KeptInv, Place
<1>10. Whole'
  <2> SUFFICES ASSUME NEW s \in Lbas, NEW j \in Keys, NEW q \in Pools, NEW m \in 1 .. MaxSectors,
                      media'[s] \in Record,
                      media'[s].key = j, media'[s].pool = q, media'[s].secs = m
               PROVE  \E b \in Locations(q) : s \in Sectors(b, m) /\ RecordAt(b, j, q, m)'
    BY DEF Whole
  <2>1. CASE s \in Sectors(lba, n)
    BY <1>3, <1>6, <1>7, <2>1
  <2>2. CASE s \notin Sectors(lba, n)
    <3>1. media'[s] = media[s]
      BY <1>5, <2>2
    <3>3. PICK b \in Locations(q) : s \in Sectors(b, m) /\ RecordAt(b, j, q, m)
      BY <3>1 DEF KeptInv, Whole
    <3>4. ~(b = lba /\ m <= n)
      <4> SUFFICES ASSUME b = lba, m <= n PROVE s \in Sectors(lba, n)
        BY <2>2
      <4> QED
        BY <1>4, <3>3 DEF Sectors
    <3>5. RecordAt(b, j, q, m)'
      BY <1>8, <3>3, <3>4
    <3> QED
      BY <3>3, <3>5
  <2> QED
    BY <2>1, <2>2
<1>11. StoredFirst'
  <2> SUFFICES ASSUME NEW j \in Keys, NEW q \in Pools, NEW at, at = stored'[<<j, q>>], at # NoData
               PROVE  /\ at.secs \in 1 .. MaxSectors
                      /\ RecordAt(at.lba, j, q, at.secs)'
                      /\ \E l \in 1 .. MaxCollision :
                           /\ at.lba = Probe(j, q, l)'
                           /\ \A m \in 1 .. MaxCollision : m < l => ~Holds(Probe(j, q, m), j, q)'
    BY DEF StoredFirst
  <2>1. \A l \in 1 .. MaxCollision :
           Probe(j, q, l)' = Probe(j, q, l) /\ Probe(j, q, l) \in Lbas /\ Probe(j, q, l) \in Nat
    BY <1>1, <1>3, ProbeLocation, LocationsOnDevice DEF Probe
  <2>2. CASE j = k /\ q = p
    <3>1. at = [lba |-> lba, secs |-> n]
      BY <1>1, <2>2 DEF KeptInv
    <3>2. ASSUME NEW m \in 1 .. MaxCollision, m < i, Holds(Probe(k, p, m), k, p)' PROVE FALSE
      <4>1. PICK x \in Lbas : x = Probe(k, p, m) /\ x \in Nat
        BY <2>1, <2>2
      <4>2. media'[x] \in Record /\ media'[x].key = k /\ media'[x].pool = p /\ media'[x].part = 0
        BY <2>1, <2>2, <3>2, <4>1 DEF Holds
      <4>3. CASE x \in Sectors(lba, n)
        <5>1. x = lba
          BY <1>4, <1>7, <4>1, <4>2, <4>3
        <5> QED
          BY <1>2, <3>2, <4>1, <5>1
      <4>4. CASE x \notin Sectors(lba, n)
        BY <1>2, <1>5, <3>2, <4>1, <4>2, <4>4 DEF Holds
      <4> QED
        BY <4>3, <4>4
    <3> QED
      BY <1>2, <1>6, <2>1, <2>2, <3>1, <3>2
  <2>3. CASE ~(j = k /\ q = p)
    <3>1. at = stored[<<j, q>>]
      <4>1. <<j, q>> # <<k, p>> /\ <<j, q>> \in Keys \X Pools
        BY <2>3
      <4> QED
        BY <1>1, <4>1 DEF KeptInv
    <3>2. at.secs \in 1 .. MaxSectors /\ RecordAt(at.lba, j, q, at.secs)
      BY <3>1 DEF KeptInv, StoredFirst
    <3>3. PICK l \in 1 .. MaxCollision :
             /\ at.lba = Probe(j, q, l)
             /\ \A m \in 1 .. MaxCollision : m < l => ~Holds(Probe(j, q, m), j, q)
      BY <3>1 DEF KeptInv, StoredFirst
    <3>4. at.lba \in Locations(q)
      BY <1>3, <3>3, ProbeLocation
    <3>5. RecordAt(at.lba, j, q, at.secs)'
      BY <1>8, <2>3, <3>2, <3>4
    <3>6. ASSUME NEW m \in 1 .. MaxCollision, m < l, Holds(Probe(j, q, m), j, q)' PROVE FALSE
      <4>1. PICK x \in Lbas : x = Probe(j, q, m)
        BY <2>1
      <4>2. media'[x] \in Record /\ media'[x].key = j /\ media'[x].pool = q /\ media'[x].part = 0
        BY <2>1, <3>6, <4>1 DEF Holds
      <4>3. x \notin Sectors(lba, n)
        BY <1>7, <2>3, <4>2
      <4> QED
        BY <1>5, <3>3, <3>6, <4>1, <4>2, <4>3 DEF Holds
    <3> QED
      BY <2>1, <3>2, <3>3, <3>5, <3>6
  <2> QED
    BY <2>2, <2>3
<1> QED
  BY <1>3, <1>9, <1>10, <1>11 DEF KeptInv

\* kv_delete: the value range that it trims has no other record, since all are of the pool
\* and so a value range apart.
LEMMA DeleteKept ==
    ASSUME ~SharedDeletes, KeptInv, NEW k \in Keys, NEW p \in Pools, Delete(k, p)
    PROVE  KeptInv'
<1>1. PICK lba \in ReadLba(k, p) :
        media' = [s \in Lbas |-> IF s \in Sectors(lba, ValueRange) THEN NoData ELSE media[s]]
  BY DEF Delete, Trimmed
<1>2. /\ stored' = [stored EXCEPT ![<<k, p>>] = NoData] /\ UNCHANGED hash
      /\ \A s \in Lbas : media[s] \in Record => media[s].pool = p
      /\ Inv /\ Inv'
  BY DeleteStep DEF Delete, Alone, KeptInv
<1>3. lba \in Lbas /\ Holds(lba, k, p)
  BY <1>2, ProbesOnDevice DEF ReadLba, First
<1>4. lba \in Locations(p) /\ lba \in Nat
  BY <1>3, HeaderWhole, LocationsOnDevice
<1>5. \A s \in Lbas : media'[s] \in Record => media'[s] = media[s] /\ s \notin Sectors(lba, ValueRange)
  BY <1>1, MarkAssumption
<1>6. ASSUME NEW j \in Keys, NEW q \in Pools, NEW m \in 1 .. MaxSectors, NEW b \in Locations(q),
             RecordAt(b, j, q, m), b # lba
      PROVE  RecordAt(b, j, q, m)'
  <2>1. b \in Nat /\ b \in Lbas /\ Sectors(b, m) \subseteq Lbas /\ ValueRange \in Nat
    BY LocationsOnDevice, LayoutAssumption
  <2>2. q = p
    <3>1. b \in Sectors(b, m)
      BY <2>1 DEF Sectors
    <3>2. media[b] \in Record /\ media[b].pool = q
      BY <1>6, <2>1, <3>1, RecordSectors
    <3> QED
      BY <1>2, <2>1, <3>2
  <2>3. b + ValueRange <= lba \/ lba + ValueRange <= b
    BY <1>4, <1>6, <2>1, <2>2, LocationsApart
  <2>4. ASSUME NEW s \in Sectors(b, m) PROVE s \notin Sectors(lba, ValueRange)
    <3>1. s \in Sectors(b, ValueRange)
      BY <2>1, ShortRecords
    <3> QED
      BY <1>4, <2>1, <2>3, <3>1 DEF Sectors
  <2>5. \A s \in Sectors(b, m) : media'[s] = media[s]
    BY <1>1, <2>1, <2>4
  <2> QED
    BY <1>6, <2>5 DEF RecordAt
<1>7. stored' \in [Keys \X Pools -> Place \cup {NoData}]
  BY <1>2 DEF KeptInv
<1>8. Whole'
  <2> SUFFICES ASSUME NEW s \in Lbas, NEW j \in Keys, NEW q \in Pools, NEW m \in 1 .. MaxSectors,
                      media'[s] \in Record,
                      media'[s].key = j, media'[s].pool = q, media'[s].secs = m
               PROVE  \E b \in Locations(q) : s \in Sectors(b, m) /\ RecordAt(b, j, q, m)'
    BY DEF Whole
  <2>1. media'[s] = media[s] /\ s \notin Sectors(lba, ValueRange)
    BY <1>5
  <2>3. PICK b \in Locations(q) : s \in Sectors(b, m) /\ RecordAt(b, j, q, m)
    BY <2>1 DEF KeptInv, Whole
  <2>4. b # lba
    <3>1. Sectors(lba, m) \subseteq Sectors(lba, ValueRange)
      BY <1>3, ShortRecords
    <3> QED
      BY <2>1, <2>3, <3>1
  <2> QED
    BY <1>6, <2>3, <2>4
<1>9. StoredFirst'
  <2> SUFFICES ASSUME NEW j \in Keys, NEW q \in Pools, NEW at, at = stored'[<<j, q>>], at # NoData
               PROVE  /\ at.secs \in 1 .. MaxSectors
                      /\ RecordAt(at.lba, j, q, at.secs)'
                      /\ \E l \in 1 .. MaxCollision :
                           /\ at.lba = Probe(j, q, l)'
                           /\ \A m \in 1 .. MaxCollision : m < l => ~Holds(Probe(j, q, m), j, q)'
    BY DEF StoredFirst
  <2>1. \A l \in 1 .. MaxCollision :
           Probe(j, q, l)' = Probe(j, q, l) /\ Probe(j, q, l) \in Lbas /\ Probe(j, q, l) \in Nat
    BY <1>2, ProbeLocation, LocationsOnDevice DEF Probe
  <2>2. ~(j = k /\ q = p)
    <3>1. stored'[<<k, p>>] = NoData
      BY <1>2 DEF KeptInv
    <3> QED
      BY <3>1
  <2>3. at = stored[<<j, q>>]
    <3>1. <<j, q>> # <<k, p>> /\ <<j, q>> \in Keys \X Pools
      BY <2>2
    <3> QED
      BY <1>2, <3>1 DEF KeptInv
  <2>4. at.secs \in 1 .. MaxSectors /\ RecordAt(at.lba, j, q, at.secs)
    BY <2>3 DEF KeptInv, StoredFirst
  <2>5. PICK l \in 1 .. MaxCollision :
           /\ at.lba = Probe(j, q, l)
           /\ \A m \in 1 .. MaxCollision : m < l => ~Holds(Probe(j, q, m), j, q)
    BY <2>3 DEF KeptInv, StoredFirst
  <2>6. at.lba \in Locations(q) /\ at.lba \in Nat
    BY <1>2, <2>1, <2>5, ProbeLocation
  <2>7. at.lba # lba
    <3>1. at.lba \in Sectors(at.lba, at.secs)
      BY <2>4, <2>6 DEF Sectors
    <3>2. media[at.lba].key = j /\ media[at.lba].pool = q
      BY <2>4, <2>6, <3>1, RecordSectors
    <3> QED
      BY <1>3, <2>2, <3>2 DEF Holds
  <2>8. RecordAt(at.lba, j, q, at.secs)'
    BY <1>6, <2>4, <2>6, <2>7
  <2>9. ASSUME NEW m \in 1 .. MaxCollision, m < l, Holds(Probe(j, q, m), j, q)' PROVE FALSE
    <3>1. PICK x \in Lbas : x = Probe(j, q, m)
      BY <2>1
    <3>2. media'[x] \in Record /\ media'[x].key = j /\ media'[x].pool = q /\ media'[x].part = 0
      BY <2>1, <2>9, <3>1 DEF Holds
    <3> QED
      BY <1>5, <2>5, <2>9, <3>1, <3>2 DEF Holds
  <2> QED
    BY <2>1, <2>4, <2>5, <2>8, <2>9
<1> QED
  BY <1>2, <1>7, <1>8, <1>9 DEF KeptInv

\* What was stored is where it was stored, whole, and found first, whatever the keys hash
\* to: with any number of pools as long as nothing is deleted or grows, and in one pool
\* always.
THEOREM KeptHolds == ASSUME ~SharedDeletes PROVE Spec => []Kept
<1>1. Init => KeptInv
  <2> SUFFICES ASSUME Init PROVE KeptInv
    OBVIOUS
  <2>1. \A s \in Lbas : media[s] \notin Record
    BY MarkAssumption DEF Init
  <2>2. \A k \in Keys, p \in Pools : stored[<<k, p>>] = NoData
    BY DEF Init
  <2>3. stored \in [Keys \X Pools -> Place \cup {NoData}]
    BY DEF Init
  <2> QED
    BY <2>1, <2>2, <2>3, InitInv DEF KeptInv, Whole, StoredFirst
<1>2. KeptInv /\ [Next]_vars => KeptInv'
  <2> SUFFICES ASSUME KeptInv, [Next]_vars PROVE KeptInv'
    OBVIOUS
  <2>1. CASE Next
    BY <2>1, PutKept, DeleteKept DEF Next
  <2>2. CASE UNCHANGED vars
    <3> USE <2>2 DEF vars, KeptInv
    <3>1. Inv'
      BY DEF Inv, MetadataKept, RangesClear, Clear
    <3>2. Whole'
      BY DEF Whole, RecordAt
    <3>3. StoredFirst'
      <4> SUFFICES ASSUME NEW k \in Keys, NEW p \in Pools, NEW at, at = stored'[<<k, p>>], at # NoData
                   PROVE  /\ at.secs \in 1 .. MaxSectors
                          /\ RecordAt(at.lba, k, p, at.secs)'
                          /\ \E i \in 1 .. MaxCollision :
                               /\ at.lba = Probe(k, p, i)'
                               /\ \A j \in 1 .. MaxCollision :
                                    j < i => ~Holds(Probe(k, p, j), k, p)'
        BY DEF StoredFirst
      <4>1. RecordAt(at.lba, k, p, at.secs)' <=> RecordAt(at.lba, k, p, at.secs)
        BY DEF RecordAt
      <4>2. \A i : Probe(k, p, i)' = Probe(k, p, i)
        BY DEF Probe
      <4>3. \A i : Holds(Probe(k, p, i), k, p)' <=> Holds(Probe(k, p, i), k, p)
        BY <4>2 DEF Holds
      <4> QED
        BY <4>1, <4>2, <4>3 DEF StoredFirst
    <3> QED
      BY <3>1, <3>2, <3>3
  <2> QED
    BY <2>1, <2>2
<1>3. KeptInv => Kept
  <2> SUFFICES ASSUME KeptInv, NEW k \in Keys, NEW p \in Pools, NEW at, at = stored[<<k, p>>],
                      at # NoData
               PROVE  /\ ReadLba(k, p) = {at.lba}
                      /\ at.lba + at.secs <= m_kv_len
                      /\ \A s \in Sectors(at.lba, at.secs) :
                           media[s] = [key |-> k, pool |-> p, secs |-> at.secs, part |-> s - at.lba]
    BY DEF Kept
  <2>1. at.secs \in 1 .. MaxSectors /\ RecordAt(at.lba, k, p, at.secs)
    BY DEF KeptInv, StoredFirst
  <2>2. PICK i \in 1 .. MaxCollision :
           /\ at.lba = Probe(k, p, i)
           /\ \A j \in 1 .. MaxCollision : j < i => ~Holds(Probe(k, p, j), k, p)
    BY DEF KeptInv, StoredFirst
  <2>3. at.lba \in Locations(p) /\ at.lba \in Nat /\ at.lba + at.secs <= m_kv_len
    BY <2>1, <2>2, ProbeLocation, LocationsOnDevice DEF KeptInv
  <2>4. Holds(at.lba, k, p)
    <3>1. at.lba \in Sectors(at.lba, at.secs)
      BY <2>1, <2>3 DEF Sectors
    <3>2. /\ media[at.lba] \in Record /\ media[at.lba].key = k /\ media[at.lba].pool = p
          /\ media[at.lba].part = at.lba - at.lba
      BY <2>1, <2>3, <3>1, RecordSectors
    <3> QED
      BY <2>3, <3>2 DEF Holds
  <2>5. ReadLba(k, p) = {at.lba}
    <3> DEFINE probes == {j \in 1 .. MaxCollision : Holds(Probe(k, p, j), k, p)}
    <3>1. i \in probes /\ \A j \in probes : i <= j
      BY <2>2, <2>4, LayoutAssumption
    <3>2. \A j \in probes : (\A m \in probes : j <= m) => j = i
      BY <3>1, LayoutAssumption
    <3> QED
      BY <2>2, <3>1, <3>2 DEF ReadLba, First
  <2> QED
    BY <2>1, <2>3, <2>5 DEF RecordAt
<1> QED
  BY <1>1, <1>2, <1>3, PTL DEF Spec
=============================================================================
