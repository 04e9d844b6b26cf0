-------------------------------- MODULE Layout --------------------------------
(***************************************************************************)
(* Where a store keeps its data, sector by sector: NVM_KV_Layout           *)
(* (src/kv_layout.cpp) divides the device, NVM_KV_Hash_Func                *)
(* (util/kv_hash_func.cpp) gives a key its locations, and the calls probe, *)
(* write and trim there.                                                   *)
(*                                                                         *)
(* An LBA is a hash of the key (m_keyBits), followed by the pool's hash.   *)
(* The low m_valueBits count the sectors of one value range, in which the  *)
(* records of several pools may lie.  Calls run one after the other; what  *)
(* happens when they overlap is the matter of KVOps, which has slots.      *)
(*                                                                         *)
(* What FNV-1a makes of a key is any number.  Sectors beyond the address   *)
(* space of the store hold nothing.                                        *)
(***************************************************************************)
EXTENDS Integers, FiniteSets, FiniteSetsExt

CONSTANTS
    Capacity,       \* sectors of the device
    SectorSize,
    ValueRange,     \* M_KV_MAX_VALUE_RANGE, in sectors
    MaxPools,
    TagsPerSector,  \* pool tags that fit into a sector
    HashWidth,      \* bits of a hash value
    TinyHashLen,    \* M_TINY_HASH_LEN
    MaxCollision,   \* M_MAX_COLLISION
    Keys, Pools,
    HashValues,     \* what the loops of fnv1a may yield
    SharedDeletes,  \* whether keys are deleted, or grow, while other pools have records
    NoData, Meta    \* what an unmapped sector and one of the metadata hold

ASSUME LayoutAssumption ==
    /\ {Capacity, SectorSize, ValueRange, MaxPools, TagsPerSector,
        HashWidth, TinyHashLen, MaxCollision} \subseteq Nat \ {0}
    /\ Pools \subseteq 0 .. (MaxPools - 1)
    /\ HashValues \subseteq 0 .. (2^HashWidth - 1)
    /\ SharedDeletes \in BOOLEAN
    /\ NoData # Meta

VARIABLES
    hash,    \* hash[k, p]: what the loops of fnv1a yield for key k of pool p
    media,   \* what each sector holds
    stored   \* observer: where the last put of a key wrote, and how much

vars == <<hash, media, stored>>

-----------------------------------------------------------------------------
(***************************************************************************)
(* NVM_KV_Layout and NVM_KV_Store::initialize                              *)
(***************************************************************************)
\* The number of binary digits of n.
Digits(n) == CHOOSE b \in 0 .. n : 2^b > n /\ (b > 0 => 2^(b - 1) <= n)

RoundUp(n, m) == ((n + m - 1) \div m) * m

comp_sparse_addr_bits == Digits(Capacity * SectorSize) - Digits(SectorSize)
m_valueBits == Digits(ValueRange) - 1
m_keyBits == comp_sparse_addr_bits - m_valueBits
m_kv_len == 2^comp_sparse_addr_bits

\* A record is a sector for header and key, and a value of at most half a range
\* without a sector.
MaxSectors == ValueRange \div 2

TagSectors == RoundUp(MaxPools, TagsPerSector) \div TagsPerSector

\* Metadata, the two bitmaps and the pool tags: all are written when the store
\* is created.
MetaLbas == {0, 1, 2} \cup {ValueRange + s : s \in 0 .. (TagSectors - 1)}

slice_addr == (RoundUp(TagSectors, ValueRange) \div ValueRange) + 1
m_kvUserDataStartLba == slice_addr * ValueRange

Lbas == 0 .. (m_kv_len - 1)

-----------------------------------------------------------------------------
(***************************************************************************)
(* NVM_KV_Hash_Func                                                        *)
(***************************************************************************)
Bit(n, i) == (n \div 2^i) % 2
Xor(m, n) ==
    MapThenSumSet(LAMBDA i : 2^i, {i \in 0 .. (HashWidth - 1) : Bit(m, i) # Bit(n, i)})

\* The end of fnv1a moves small values, before they are folded.
Redistributed(h) == IF h < slice_addr THEN (h + slice_addr) % 2^HashWidth ELSE h

Folded(h, len) ==
    IF len > TinyHashLen
    THEN Xor(h \div 2^len, h % 2^len)
    ELSE Xor(h \div 2^len, h) % 2^len

align_left == comp_sparse_addr_bits - m_keyBits

\* What becomes of the h that the loops of fnv1a yield.
key_hash(h) == Folded(Redistributed(h), m_keyBits) * 2^align_left

\* The remainder is taken by the number of hashes, though prev_hash is an LBA.
sequential_probe(prev_hash, ntimes) ==
    (prev_hash + ntimes * 2^align_left) % 2^(comp_sparse_addr_bits - align_left)

\* Pools are hashed if they are more than half a value range.  (For the FNV-1a
\* of a pool id the id itself will do here.)
get_poolid_hash(p) ==
    IF MaxPools > 2^(m_valueBits - 1)
    THEN Folded(Redistributed(p), m_valueBits - 1)
    ELSE p

\* The LBAs at which the calls look for a key, in this order.
location ==
    [at \in HashValues \X Pools \X (1 .. MaxCollision) |->
        LET base == key_hash(at[1])
        IN  get_poolid_hash(at[2])
                + IF at[3] = 1 THEN base ELSE sequential_probe(base, at[3] - 1)]

Probe(k, p, i) == location[<<hash[<<k, p>>], p, i>>]

\* The metadata fits on the device, what the functions above compute from bits are
\* locations on it, and the largest record fits there.
ASSUME AddressAssumption ==
    /\ m_kv_len \in Nat
    /\ MetaLbas \subseteq Lbas
    /\ location \in [HashValues \X Pools \X (1 .. MaxCollision) -> Lbas]
    /\ \A at \in DOMAIN location : location[at] + MaxSectors <= m_kv_len

\* A value range is a power of two, there is a multiple of it of hashes, and a hash of
\* a key or a pool is a number.
ASSUME AlignmentAssumption ==
    /\ ValueRange = 2^align_left
    /\ 2^(comp_sparse_addr_bits - align_left) \in {n * ValueRange : n \in 1 .. m_kv_len}
    /\ \A h \in HashValues : Folded(Redistributed(h), m_keyBits) \in Nat
    /\ \A p \in Pools : get_poolid_hash(p) \in Nat

-----------------------------------------------------------------------------
Record == [key : Keys, pool : Pools, secs : 1 .. MaxSectors, part : 0 .. (MaxSectors - 1)]
Place == [lba : Lbas, secs : 1 .. MaxSectors]

ASSUME MarkAssumption == Meta \notin Record /\ NoData \notin Record

Sectors(lba, n) == lba .. (lba + n - 1)

Init ==
    /\ hash \in [Keys \X Pools -> HashValues]
    /\ media = [s \in Lbas |-> IF s \in MetaLbas THEN Meta ELSE NoData]
    /\ stored = [kp \in Keys \X Pools |-> NoData]

\* Mutant: only the sectors to be written are looked at.
FreeForHeader(lba) == media[lba] = NoData

\* kv_range_exists, over a whole value range
Free(lba) == \A s \in Sectors(lba, ValueRange) \cap Lbas : media[s] = NoData

\* The header read at an LBA is that of the key.
Holds(lba, k, p) ==
    /\ media[lba] \in Record
    /\ media[lba].key = k /\ media[lba].pool = p /\ media[lba].part = 0

\* The first of some probes, if there is one.
First(k, p, probes) ==
    {Probe(k, p, i) : i \in {j \in probes : \A m \in probes : j <= m}}

\* kv_gen_lba takes the first location that is free or holds the key ...
PutLba(k, p) ==
    First(k, p, {i \in 1 .. MaxCollision :
                    Free(Probe(k, p, i)) \/ Holds(Probe(k, p, i), k, p)})

\* ... and kv_read_media the first one that holds it.
ReadLba(k, p) == First(k, p, {i \in 1 .. MaxCollision : Holds(Probe(k, p, i), k, p)})

\* Whether what a call trims, or writes without a look, can be another pool's.
Alone(p) ==
    SharedDeletes \/ \A s \in Lbas : media[s] \in Record => media[s].pool = p

\* kv_put.  A record that shrinks is left out: see Written in KVOps.
Put(k, p, n) ==
    \E lba \in PutLba(k, p) :
        /\ Holds(lba, k, p) => n = media[lba].secs \/ (n > media[lba].secs /\ Alone(p))
        /\ media' = [s \in Lbas |->
             IF s \in Sectors(lba, n)
             THEN [key |-> k, pool |-> p, secs |-> n, part |-> s - lba] ELSE media[s]]
        /\ stored' = [stored EXCEPT ![<<k, p>>] = [lba |-> lba, secs |-> n]]
        /\ UNCHANGED hash

\* Mutant: the pool's bits are cleared.
TrimmedRange(lba) == Sectors((lba \div ValueRange) * ValueRange, ValueRange)

\* delete_range over get_del_sec_count sectors, whatever the record has
Trimmed(lba) == Sectors(lba, ValueRange)

\* kv_delete
Delete(k, p) ==
    /\ Alone(p)
    /\ \E lba \in ReadLba(k, p) :
         media' = [s \in Lbas |-> IF s \in Trimmed(lba) THEN NoData ELSE media[s]]
    /\ stored' = [stored EXCEPT ![<<k, p>>] = NoData]
    /\ UNCHANGED hash

Next ==
    \E k \in Keys, p \in Pools :
        \/ \E n \in 1 .. MaxSectors : Put(k, p, n)
        \/ Delete(k, p)

Spec == Init /\ [][Next]_vars

-----------------------------------------------------------------------------
\* A key that was put and not deleted since is found by kv_read_media where it
\* was put, and all its sectors are its own, whatever other keys hash to: in any
\* number of pools as long as nothing is deleted or grows, in one pool always.
Kept ==
    \A k \in Keys, p \in Pools :
        stored[<<k, p>>] # NoData =>
            LET at == stored[<<k, p>>] IN
            /\ ReadLba(k, p) = {at.lba}
            /\ at.lba + at.secs <= m_kv_len
            /\ \A s \in Sectors(at.lba, at.secs) :
                 media[s] = [key |-> k, pool |-> p, secs |-> at.secs, part |-> s - at.lba]

\* No call writes or trims a sector of metadata, bitmaps or pool tags, though keys
\* may hash to the ranges where these are: the calls see that they are mapped.
MetadataKept == \A s \in MetaLbas : media[s] = Meta

\* "calculate the address that needs to be carved by hashing function, accounting
\* for metadata" (kv_store.cpp:128): keys are stored where kv_delete_all, the
\* iterators and the scans for expired and deleted keys begin, or behind.
Carved ==
    \A s \in Lbas : media[s] \in Record => s >= m_kvUserDataStartLba
=============================================================================
