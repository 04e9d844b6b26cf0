----------------------------- MODULE KVOpsProofs -----------------------------
(***************************************************************************)
(* Theorems about KVOps and the modules that extend it, for every number   *)
(* of threads, keys, slots and probes and every probing order: type        *)
(* correctness and placement for all calls; locking, and one record per    *)
(* key, for stores whose keys are put, read and expired but never deleted; *)
(* that the calls are those of a map (KVHistory); what the cache says of   *)
(* the media (KVCached); what a batch does to its keys and to the others   *)
(* (KVBatch).                                                              *)
(***************************************************************************)
EXTENDS KVCached, KVBatch, FiniteSetTheorems, WellFoundedInduction, TLAPS

\* Where a thread is agrees with the call it executes.
Located ==
    \A t \in Threads :
        /\ pc[t] = "idle" <=> req[t] = NoRequest
        /\ pc[t] \in GenPcs => req[t].op = "put"
        /\ pc[t] \in ReadPcs => req[t].op \in {"get", "exists"}
        /\ pc[t] \in DeletePcs => req[t].op = "delete"

\* The inductive invariant of the calls: what they read of req needs Located.
IInv == TypeOK /\ Located /\ Placement

\* The same for calls that can also be at places of KVCached or KVBatch.
Typed(places) ==
    /\ media \in [Slots -> Record \cup {NoRec}]
    /\ clock \in Nat
    /\ expq \in Seq(Slots)
    /\ safe \in SUBSET Slots
    /\ pc \in [Threads -> places]
    /\ req \in [Threads -> Requests \cup {NoRequest}]
    /\ itr \in [Threads -> 1..MaxCollision]
    /\ lba \in [Threads -> Slots]
    /\ held \in [Threads -> BOOLEAN]
    /\ wait \in [Threads -> BOOLEAN]
    /\ trim_len \in [Threads -> Nat]
    /\ iov_len \in [Threads -> Nat]
    /\ ret \in [Threads -> Results]

IInvAt(places) == Typed(places) /\ Located /\ Placement

LEMMA TypedAtPcs == (TypeOK <=> Typed(Pcs)) /\ (IInv <=> IInvAt(Pcs))
  BY DEF TypeOK, Typed, IInv, IInvAt

-----------------------------------------------------------------------------
\* A request carries the fields that its operation reads.
LEMMA RequestFields ==
    ASSUME NEW r \in Requests
    PROVE  /\ r.key \in Keys
           /\ r.op \in AllOps
           /\ r.op \in Ops
           /\ r.op = "put" => r.val \in Values /\ r.replace \in BOOLEAN /\ r.expiry \in Nat
           /\ r.op = "get" => r.exact \in Exact
  BY KVOpsAssumption DEF Requests, AllOps

\* What is read of a value is a number of sectors.
LEMMA ShortenedIsNat ==
    ASSUME NEW r, NEW n \in Extents(r), NEW len \in Nat
    PROVE  Shortened(len, n) \in Nat
<1>1. n \in Nat
  BY KVOpsAssumption DEF Extents, Extent
<1> QED
  BY <1>1 DEF Shortened

\* Every slot of a key is a slot.
LEMMA ProbeIsSlot ==
    ASSUME NEW k \in Keys, NEW i \in 1..MaxCollision
    PROVE  Probe[k][i] \in Slots
  BY KVOpsAssumption

\* What kv_put leaves at a slot is a record, of its own key or of the key that
\* was there, or nothing.
LEMMA WrittenRecord ==
    ASSUME clock \in Nat, NEW r \in Requests, r.op = "put",
           NEW old \in Record \cup {NoRec}, NEW trim \in Nat
    PROVE  /\ Written(old, r, trim) \in Record \cup {NoRec}
           /\ Written(old, r, trim) # NoRec =>
                \/ Written(old, r, trim).key = r.key
                \/ old # NoRec /\ Written(old, r, trim).key = old.key
<1>1. NewRecord(r) \in Record /\ NewRecord(r).key = r.key
  BY RequestFields, KVOpsAssumption DEF NewRecord, Record
<1>2. [NewRecord(r) EXCEPT !.val = Torn] \in Record
      /\ [NewRecord(r) EXCEPT !.val = Torn].key = r.key
  BY <1>1 DEF Record
<1>3. ASSUME old # NoRec
      PROVE  [old EXCEPT !.val = Torn] \in Record /\ [old EXCEPT !.val = Torn].key = old.key
  BY <1>3 DEF Record
<1> QED
  BY <1>1, <1>2, <1>3 DEF Written

\* The initial states of the store satisfy the inductive invariant.
LEMMA InitIInv == Init => IInv
<1> SUFFICES ASSUME Init PROVE IInv
  OBVIOUS
<1>1. (CHOOSE s \in Slots : TRUE) \in Slots
  BY KVOpsAssumption
<1>2. TypeOK
  BY <1>1, KVOpsAssumption DEF Init, Opened, TypeOK, Pcs, Results
<1> QED
  BY <1>2 DEF Init, Opened, IInv, Located, Placement, GenPcs, ReadPcs, DeletePcs

\* Every step of a call leaves the variables in their sets.
LEMMA TypeStep ==
    ASSUME NEW P, Pcs \subseteq P, IInvAt(P), [Next]_vars
    PROVE  Typed(P)'
<1> USE DEF IInvAt, Typed, Pcs, ReadPcs, GenPcs, DeletePcs, Goto, Done, local
<1>1. ASSUME NEW t \in Threads, NEW r \in Requests, Call(t, r) PROVE Typed(P)'
  BY <1>1, RequestFields, ProbeIsSlot, KVOpsAssumption DEF Call, Begin
<1>2. ASSUME NEW t \in Threads, Contend(t) PROVE Typed(P)'
  BY <1>2 DEF Contend
<1>3. ASSUME NEW t \in Threads, GenRange(t) PROVE Typed(P)'
  BY <1>3 DEF GenRange
<1>4. ASSUME NEW t \in Threads, GenInsert(t) \/ DelInsert(t) PROVE Typed(P)'
  <2>1. lba[t] \in Slots
    OBVIOUS
  <2>2. safe' = safe \cup {lba[t]} /\ pc' \in [Threads -> P]
    BY <1>4 DEF GenInsert, DelInsert, Insert
  <2> QED
    BY <1>4, <2>1, <2>2 DEF GenInsert, DelInsert, Insert
<1>5. ASSUME NEW t \in Threads, GenReadMatch(t) PROVE Typed(P)'
  <2>1. media[lba[t]].secs \in Nat
    BY <1>5 DEF GenReadMatch, LockFirst, Matches, Record
  <2>2. \E n \in Nat : trim_len' = trim_len \/ trim_len' = [trim_len EXCEPT ![t] = n]
    BY <1>5, <2>1 DEF GenReadMatch
  <2>3. pc' \in [Threads -> P] /\ ret' \in [Threads -> Results]
    BY <1>5 DEF GenReadMatch, LockFirst, Results
  <2>4. trim_len' \in [Threads -> Nat]
    BY <2>2
  <2> QED
    BY <1>5, <2>3, <2>4 DEF GenReadMatch, LockFirst
<1>6. ASSUME NEW t \in Threads, NextProbe(t), req[t] \in Requests
      PROVE /\ itr' \in [Threads -> 1..MaxCollision]
            /\ lba' \in [Threads -> Slots]
            /\ pc' \in [Threads -> P]
            /\ ret' \in [Threads -> Results]
  <2>1. CASE itr[t] < MaxCollision
    <3>1. itr[t] + 1 \in 1..MaxCollision
      BY <2>1, KVOpsAssumption
    <3>2. Probe[req[t].key][itr[t] + 1] \in Slots
      BY <1>6, <3>1, RequestFields, ProbeIsSlot
    <3>3. /\ itr' = [itr EXCEPT ![t] = itr[t] + 1]
          /\ lba' = [lba EXCEPT ![t] = Probe[req[t].key][itr[t] + 1]]
          /\ pc' = [pc EXCEPT ![t] = "gen_range"]
          /\ ret' = ret
      BY <1>6, <2>1, KVOpsAssumption DEF NextProbe
    <3> QED
      BY <3>1, <3>2, <3>3
  <2>2. CASE itr[t] = MaxCollision
    <3>1. /\ pc' = [pc EXCEPT ![t] = "finish"]
          /\ ret' = [ret EXCEPT ![t] = "failed"]
          /\ UNCHANGED <<itr, lba>>
      BY <1>6, <2>2, KVOpsAssumption DEF NextProbe
    <3> QED
      BY <3>1 DEF Results
  <2> QED
    BY <1>6, <2>1, <2>2 DEF NextProbe
<1>7. ASSUME NEW t \in Threads, GenReadMismatch(t) PROVE Typed(P)'
  <2>1. req[t] \in Requests
    BY <1>7 DEF GenReadMismatch, Located
  <2> QED
    BY <1>6, <1>7, <2>1 DEF GenReadMismatch
<1>8. ASSUME NEW t \in Threads, GenDrop(t) PROVE Typed(P)'
  <2>1. req[t] \in Requests
    BY <1>8 DEF GenDrop, Located
  <2> QED
    BY <1>6, <1>8, <2>1 DEF GenDrop
<1>9. ASSUME NEW t \in Threads, PutWrite(t) PROVE Typed(P)'
  <2>1. req[t] \in Requests /\ req[t].op = "put"
    BY <1>9 DEF PutWrite, Located
  <2>2. Written(media[lba[t]], req[t], trim_len[t]) \in Record \cup {NoRec}
    BY <2>1, WrittenRecord
  <2> QED
    BY <1>9, <2>2 DEF PutWrite, Results
<1>10. ASSUME NEW t \in Threads, ReadMatch(t) PROVE Typed(P)'
  <2>1. req[t] \in Requests
    BY <1>10 DEF ReadMatch, Located
  <2>2. Slot(t) \in Slots
    BY <2>1, RequestFields, ProbeIsSlot DEF Slot
  <2>3. media[Slot(t)].val \in Results
    BY <1>10, <2>2 DEF ReadMatch, Matches, Record, Results
  <2>4. Content(t, media[Slot(t)]) \in Results
    BY <2>3 DEF Content, Results
  <2>5. lba' \in [Threads -> Slots] /\ pc' \in [Threads -> P]
    BY <1>10, <2>2 DEF ReadMatch
  <2>6. ret' \in [Threads -> Results]
    <3>1. \E x \in Results : ret' = ret \/ ret' = [ret EXCEPT ![t] = x]
      BY <1>10, <2>4 DEF ReadMatch, Results
    <3> QED
      BY <3>1
  <2> QED
    BY <1>10, <2>5, <2>6 DEF ReadMatch
<1>21. ASSUME NEW t \in Threads, NEW notFound \in Results, Rehash(t, notFound)
       PROVE  /\ itr' \in [Threads -> 1..MaxCollision]
              /\ pc' \in [Threads -> P]
              /\ ret' \in [Threads -> Results]
  <2>1. CASE itr[t] < MaxCollision
    <3>1. itr[t] + 1 \in 1..MaxCollision
      BY <2>1, KVOpsAssumption
    <3>2. /\ itr' = [itr EXCEPT ![t] = itr[t] + 1] /\ ret' = ret
          /\ pc' = pc \/ pc' = [pc EXCEPT ![t] = "get_range"]
      BY <1>21, <2>1, KVOpsAssumption DEF Rehash
    <3> QED
      BY <3>1, <3>2
  <2>2. CASE itr[t] = MaxCollision
    <3>1. /\ pc' = [pc EXCEPT ![t] = "finish"]
          /\ ret' = [ret EXCEPT ![t] = notFound]
          /\ UNCHANGED itr
      BY <1>21, <2>2, KVOpsAssumption DEF Rehash
    <3> QED
      BY <3>1
  <2> QED
    BY <1>21, <2>1, <2>2 DEF Rehash
<1>11. ASSUME NEW t \in Threads, NEW from, NEW notFound \in Results,
              ProbeOn(t, from, notFound)
       PROVE  Typed(P)'
  BY <1>11, <1>21 DEF ProbeOn
<1>20. ASSUME NEW t \in Threads, BlindRead(t) PROVE Typed(P)'
  <2>1. req[t] \in Requests
    BY <1>20 DEF BlindRead, Located
  <2>2. Slot(t) \in Slots
    BY <2>1, RequestFields, ProbeIsSlot DEF Slot
  <2>3. lba' \in [Threads -> Slots]
    BY <1>20, <2>2 DEF BlindRead
  <2>4. CASE Rehash(t, "notfound")
    BY <1>20, <1>21, <2>3, <2>4 DEF BlindRead, Results
  <2>5. CASE ~Rehash(t, "notfound")
    BY <1>20, <2>3, <2>5 DEF BlindRead, Results
  <2> QED
    BY <2>4, <2>5
<1>22. ASSUME NEW t \in Threads, GetRange(t) PROVE Typed(P)'
  <2>1. CASE media[Slot(t)] = NoRec
    BY <1>21, <1>22, <2>1 DEF GetRange, Results
  <2>2. CASE media[Slot(t)] # NoRec
    <3>1. PICK n \in Extents(media[Slot(t)]) :
            iov_len' = [iov_len EXCEPT ![t] = Shortened(iov_len[t], n)]
      BY <1>22, <2>2 DEF GetRange
    <3>2. Shortened(iov_len[t], n) \in Nat
      BY ShortenedIsNat
    <3>3. UNCHANGED <<itr, ret>> /\ pc' = [pc EXCEPT ![t] = "read_media"]
      BY <1>22, <2>2 DEF GetRange
    <3> HIDE DEF Typed
    <3>4. UNCHANGED <<media, clock, expq, safe, req, lba, held, wait, trim_len>>
      BY <1>22 DEF GetRange
    <3> QED
      BY <3>1, <3>2, <3>3, <3>4 DEF Typed
  <2> QED
    BY <2>1, <2>2
<1>12. ASSUME NEW t \in Threads, NEW from \in DeletePcs, NEW to \in DeletePcs,
              DelFound(t, from, to)
       PROVE  Typed(P)'
  <2>1. req[t] \in Requests
    BY <1>12 DEF DelFound, Located
  <2>2. Slot(t) \in Slots
    BY <2>1, RequestFields, ProbeIsSlot DEF Slot
  <2> QED
    BY <1>12, <2>2, KVOpsAssumption DEF DelFound
<1>13. ASSUME NEW t \in Threads, Expire(t) PROVE Typed(P)'
  <2>1. lba[t] \in Slots
    OBVIOUS
  <2>2. Append(expq, lba[t]) \in Seq(Slots)
    BY <2>1
  <2>3. expq' \in Seq(Slots)
    BY <1>13, <2>2 DEF Expire
  <2> QED
    BY <1>13, <2>3 DEF Expire, Results
<1>14. ASSUME NEW t \in Threads, DelTrim(t) PROVE Typed(P)'
  BY <1>14 DEF DelTrim, Trim, Results
<1>15. ASSUME NEW t \in Threads, DeviceError(t) PROVE Typed(P)'
  BY <1>15 DEF DeviceError, Results
<1>16. ASSUME NEW t \in Threads, Finish(t) PROVE Typed(P)'
  BY <1>16, KVOpsAssumption DEF Finish, ReleaseLba, Results
<1>17. CASE Tick
  BY <1>17 DEF Tick
<1>18. CASE UNCHANGED vars
  BY <1>18 DEF vars
<1>19. ASSUME NEW t \in Threads, ReadMismatch(t) \/ DelRead(t) \/ DelReread(t)
       PROVE  Typed(P)'
  BY <1>11, <1>12, <1>19 DEF ReadMismatch, DelRead, DelReread, Results
<1> QED
  BY <1>1, <1>2, <1>3, <1>4, <1>5, <1>7, <1>8, <1>9, <1>10, <1>13, <1>14,
     <1>15, <1>16, <1>17, <1>18, <1>19, <1>20, <1>22 DEF Next, Step

\* A step moves a thread between places of the same call; Call and Finish are
\* the only steps that change its request.
LEMMA LocatedStep ==
    ASSUME NEW P, IInvAt(P), [Next]_vars
    PROVE  Located'
<1> USE DEF IInvAt, Typed, Located, ReadPcs, GenPcs, DeletePcs, Goto, Done, local
<1>1. ASSUME NEW t \in Threads, NEW r \in Requests, Call(t, r) PROVE Located'
  BY <1>1, RequestFields, NoneAreNot DEF Call, Begin, AllOps
<1>2. ASSUME NEW t \in Threads, Contend(t) PROVE Located'
  BY <1>2 DEF Contend
<1>3. ASSUME NEW t \in Threads, GenRange(t) \/ GenInsert(t) PROVE Located'
  BY <1>3 DEF GenRange, GenInsert, Insert
<1>4. ASSUME NEW t \in Threads, GenReadMatch(t) PROVE Located'
  BY <1>4 DEF GenReadMatch, LockFirst
<1>5. ASSUME NEW t \in Threads, GenReadMismatch(t) \/ GenDrop(t) PROVE Located'
  BY <1>5 DEF GenReadMismatch, GenDrop, NextProbe
<1>6. ASSUME NEW t \in Threads,
             PutWrite(t) \/ DelTrim(t) \/ DeviceError(t) \/ Expire(t)
      PROVE  Located'
  BY <1>6, KVOpsAssumption DEF PutWrite, DelTrim, Trim, DeviceError, Expire, DevicePcs
<1>7. ASSUME NEW t \in Threads,
             GetRange(t) \/ ReadMatch(t) \/ ReadMismatch(t) \/ BlindRead(t)
      PROVE  Located'
  BY <1>7 DEF GetRange, ReadMatch, ReadMismatch, BlindRead, ProbeOn, Rehash, Measured
<1>8. ASSUME NEW t \in Threads, DelRead(t) \/ DelInsert(t) \/ DelReread(t)
      PROVE  Located'
  BY <1>8 DEF DelRead, DelInsert, DelReread, DelFound, ProbeOn, Rehash, Measured, Insert
<1>9. ASSUME NEW t \in Threads, Finish(t) PROVE Located'
  BY <1>9 DEF Finish, ReleaseLba
<1>10. CASE Tick
  BY <1>10 DEF Tick
<1>11. CASE UNCHANGED vars
  BY <1>11 DEF vars
<1> QED
  BY <1>1, <1>2, <1>3, <1>4, <1>5, <1>6, <1>7, <1>8, <1>9, <1>10, <1>11 DEF Next, Step

\* Every probe of a key is one of its slots.
LEMMA ProbeInSlots ==
    ASSUME NEW k, NEW i \in 1..MaxCollision
    PROVE  Probe[k][i] \in ProbeSlots(k)
  BY DEF ProbeSlots

\* Moving lba to another slot of the key keeps every record where it was.
LEMMA LbaMoves ==
    ASSUME lba \in [Threads -> Slots], Placement, UNCHANGED <<media, req>>, NEW t \in Threads,
           NEW s, lba' = [lba EXCEPT ![t] = s], s \in ProbeSlots(req[t].key)
    PROVE  Placement'
<1>1. \A u \in Threads : req'[u] # NoRequest => lba'[u] \in ProbeSlots(req'[u].key)
  BY DEF Placement
<1>2. \A r \in Slots : media'[r] # NoRec => r \in ProbeSlots(media'[r].key)
  BY DEF Placement
<1> QED
  BY <1>1, <1>2 DEF Placement

\* Only kv_put stores a record, at a slot of its key; and lba moves only to
\* another slot of the key.
LEMMA PlacementStep ==
    ASSUME NEW P, IInvAt(P), [Next]_vars
    PROVE  Placement'
<1> USE DEF IInvAt, Typed, Goto, Done, local
<1>1. ASSUME NEW t \in Threads, NEW r \in Requests, Call(t, r) PROVE Placement'
  <2>1. 1 \in 1..MaxCollision
    BY KVOpsAssumption
  <2>2. Probe[r.key][1] \in ProbeSlots(r.key)
    BY <2>1, ProbeInSlots
  <2> QED
    BY <1>1, <2>2 DEF Call, Begin, Placement
<1>2. ASSUME NEW t \in Threads, NextProbe(t)
      PROVE  \/ UNCHANGED lba
             \/ \E s \in ProbeSlots(req[t].key) : lba' = [lba EXCEPT ![t] = s]
  <2>1. ASSUME itr[t] < MaxCollision
        PROVE  Probe[req[t].key][itr[t] + 1] \in ProbeSlots(req[t].key)
    <3>1. itr[t] + 1 \in 1..MaxCollision
      BY <2>1, KVOpsAssumption
    <3> QED
      BY <3>1, ProbeInSlots
  <2> QED
    BY <1>2, <2>1 DEF NextProbe
<1>3. ASSUME NEW t \in Threads, GenReadMismatch(t) \/ GenDrop(t) PROVE Placement'
  <2>1. UNCHANGED <<media, req>>
    BY <1>3 DEF GenReadMismatch, GenDrop
  <2>2. \/ UNCHANGED lba
        \/ \E s \in ProbeSlots(req[t].key) : lba' = [lba EXCEPT ![t] = s]
    BY <1>2, <1>3 DEF GenReadMismatch, GenDrop
  <2>3. CASE UNCHANGED lba
    BY <2>1, <2>3 DEF Placement
  <2> QED
    BY <2>1, <2>2, <2>3, LbaMoves
<1>4. ASSUME NEW t \in Threads, PutWrite(t) PROVE Placement'
  <2>1. req[t] \in Requests /\ req[t].op = "put" /\ req[t] # NoRequest
    BY <1>4 DEF PutWrite, Located, GenPcs
  <2>2. lba[t] \in ProbeSlots(req[t].key) /\ lba[t] \in Slots
    BY <2>1 DEF Placement
  <2>3. media[lba[t]] \in Record \cup {NoRec} /\ trim_len[t] \in Nat
    OBVIOUS
  <2> DEFINE new == Written(media[lba[t]], req[t], trim_len[t])
  <2>4. new # NoRec =>
          \/ new.key = req[t].key
          \/ media[lba[t]] # NoRec /\ new.key = media[lba[t]].key
    BY <2>1, <2>3, WrittenRecord
  <2>5. media' = [media EXCEPT ![lba[t]] = new]
    BY <1>4 DEF PutWrite
  <2>6. UNCHANGED <<req, lba>>
    BY <1>4 DEF PutWrite
  <2> HIDE DEF new
  <2>7. ASSUME NEW s \in Slots, media'[s] # NoRec PROVE s \in ProbeSlots(media'[s].key)
    BY <2>2, <2>4, <2>5, <2>7 DEF Placement
  <2> QED
    BY <2>6, <2>7 DEF Placement
<1>5. ASSUME NEW t \in Threads, DelTrim(t) PROVE Placement'
  BY <1>5 DEF DelTrim, Trim, Placement
<1>6. ASSUME NEW t \in Threads PROVE Slot(t) \in ProbeSlots(req[t].key)
  BY ProbeInSlots DEF Slot
<1>7. ASSUME NEW t \in Threads, ReadMatch(t) \/ BlindRead(t) PROVE Placement'
  <2>1. UNCHANGED <<media, req>>
    BY <1>7 DEF ReadMatch, BlindRead
  <2>2. UNCHANGED lba \/ lba' = [lba EXCEPT ![t] = Slot(t)]
    BY <1>7 DEF ReadMatch, BlindRead
  <2>3. CASE UNCHANGED lba
    BY <2>1, <2>3 DEF Placement
  <2> QED
    BY <1>6, <2>1, <2>2, <2>3, LbaMoves
<1>8. ASSUME NEW t \in Threads, NEW from, NEW to,
             DelFound(t, from, to) \/ ProbeOn(t, from, to)
      PROVE  Placement'
  <2>1. CASE DelFound(t, from, to)
    BY <1>6, <2>1, LbaMoves DEF DelFound
  <2>2. CASE ProbeOn(t, from, to)
    BY <2>2 DEF ProbeOn, Rehash, Placement
  <2> QED
    BY <1>8, <2>1, <2>2
<1>9. ASSUME NEW t \in Threads, ReadMismatch(t) \/ DelRead(t) \/ DelReread(t)
      PROVE  Placement'
  BY <1>8, <1>9 DEF ReadMismatch, DelRead, DelReread
<1>10. ASSUME NEW t \in Threads, Finish(t) PROVE Placement'
  BY <1>10 DEF Finish, ReleaseLba, Placement
<1>11. ASSUME NEW t \in Threads,
              \/ Contend(t) \/ GenRange(t) \/ GenInsert(t) \/ GenReadMatch(t)
              \/ GetRange(t) \/ Expire(t) \/ DelInsert(t) \/ DeviceError(t)
       PROVE  Placement'
  <2>1. UNCHANGED <<media, req, lba>>
    BY <1>11 DEF Contend, GenRange, GenInsert, GenReadMatch, GetRange, Expire, DelInsert,
                 DeviceError, Insert
  <2> QED
    BY <2>1 DEF Placement
<1>12. CASE Tick
  BY <1>12 DEF Tick, Placement
<1>13. CASE UNCHANGED vars
  BY <1>13 DEF vars, Placement
<1> QED
  BY <1>1, <1>3, <1>4, <1>5, <1>7, <1>9, <1>10, <1>11, <1>12, <1>13 DEF Next, Step

LEMMA InductiveAt ==
    ASSUME NEW P, Pcs \subseteq P, IInvAt(P), [Next]_vars
    PROVE  IInvAt(P)'
  BY TypeStep, LocatedStep, PlacementStep DEF IInvAt

LEMMA Inductive == IInv /\ [Next]_vars => IInv'
<1> SUFFICES ASSUME IInv, [Next]_vars PROVE IInv'
  OBVIOUS
<1>1. IInvAt(Pcs)'
  BY TypedAtPcs, InductiveAt
<1> QED
  BY <1>1 DEF IInv, IInvAt, TypeOK, Typed

\* In every behaviour the variables stay in their sets.
THEOREM TypeCorrect == Spec => []TypeOK
<1>1. IInv => TypeOK
  BY DEF IInv
<1> QED
  BY InitIInv, Inductive, <1>1, PTL DEF Spec

\* Whatever calls run and however they interleave, expire and fail, a record is
\* always at one of the slots that a call for its key probes, and a call only
\* ever locks and writes such a slot.
THEOREM PlacementHolds == Spec => []Placement
<1>1. IInv => Placement
  BY DEF IInv
<1> QED
  BY InitIInv, Inductive, <1>1, PTL DEF Spec

-----------------------------------------------------------------------------
\* Which places of a call hold its LBA.  Without deletes a call never moves on
\* to another slot while it holds one.
HoldsWhere ==
    \A t \in Threads :
        /\ pc[t] \in {"idle", "gen_range", "gen_insert"} \cup ReadPcs => ~held[t]
        /\ pc[t] \in {"gen_drop", "put_write"} => held[t]

LockInv == IInv /\ HoldsWhere /\ SafeListExact

\* The initial list is empty and nobody holds an LBA.
LEMMA InitLockInv == Init => LockInv
<1> SUFFICES ASSUME Init PROVE LockInv
  OBVIOUS
<1>1. HoldsWhere
  BY DEF Init, Opened, HoldsWhere
<1>2. SafeListExact
  BY DEF Init, Opened, SafeListExact
<1> QED
  BY <1>1, <1>2, InitIInv DEF LockInv

\* Without deletes no thread is ever in kv_delete_sync.
LEMMA NoDelete ==
    ASSUME "delete" \notin Ops, IInv, NEW t \in Threads
    PROVE  pc[t] \notin DeletePcs
<1> SUFFICES ASSUME pc[t] \in DeletePcs PROVE FALSE
  OBVIOUS
<1>1. req[t].op = "delete" /\ req[t] # NoRequest
  BY DEF IInv, Located, DeletePcs
<1>2. req[t] \in Requests
  BY <1>1 DEF IInv, TypeOK
<1> QED
  BY <1>1, <1>2, RequestFields

\* The calls that hold an LBA are the ones between an insertion and the write,
\* the drop or the end.
LEMMA HoldsWhereStep ==
    ASSUME "delete" \notin Ops, IInv, HoldsWhere, [Next]_vars
    PROVE  HoldsWhere'
<1> USE DEF IInv, TypeOK, HoldsWhere, ReadPcs, Goto, Done, local
<1>1. ASSUME NEW t \in Threads, NEW r \in Requests, Call(t, r) PROVE HoldsWhere'
  BY <1>1 DEF Call, Begin
<1>2. ASSUME NEW t \in Threads, Contend(t) PROVE HoldsWhere'
  BY <1>2 DEF Contend
<1>3. ASSUME NEW t \in Threads, GenRange(t) PROVE HoldsWhere'
  BY <1>3 DEF GenRange
<1>4. ASSUME NEW t \in Threads, GenInsert(t) PROVE HoldsWhere'
  BY <1>4 DEF GenInsert, Insert
<1>5. ASSUME NEW t \in Threads, GenReadMatch(t) PROVE HoldsWhere'
  BY <1>5 DEF GenReadMatch, LockFirst
<1>6. ASSUME NEW t \in Threads, GenReadMismatch(t) \/ GenDrop(t) PROVE HoldsWhere'
  BY <1>6 DEF GenReadMismatch, GenDrop, NextProbe
<1>7. ASSUME NEW t \in Threads, PutWrite(t) \/ Expire(t) \/ DeviceError(t)
      PROVE  HoldsWhere'
  BY <1>7 DEF PutWrite, Expire, DeviceError
<1>8. ASSUME NEW t \in Threads, GetRange(t) \/ ReadMatch(t) \/ ReadMismatch(t) \/ BlindRead(t)
      PROVE  HoldsWhere'
  BY <1>8 DEF GetRange, ReadMatch, ReadMismatch, BlindRead, ProbeOn, Rehash
<1>9. ASSUME NEW t \in Threads, DelRead(t) \/ DelInsert(t) \/ DelReread(t) \/ DelTrim(t)
      PROVE  FALSE
  BY <1>9, NoDelete DEF DelRead, DelInsert, DelReread, DelTrim, DelFound, ProbeOn,
                        Insert, DeletePcs
<1>10. ASSUME NEW t \in Threads, Finish(t) PROVE HoldsWhere'
  BY <1>10 DEF Finish, ReleaseLba
<1>11. CASE Tick
  BY <1>11 DEF Tick
<1>12. CASE UNCHANGED vars
  BY <1>12 DEF vars
<1> QED
  BY <1>1, <1>2, <1>3, <1>4, <1>5, <1>6, <1>7, <1>8, <1>9, <1>10, <1>11, <1>12 DEF Next, Step

\* A step of t inserts its LBA, which nobody has, or deletes the one it inserted, or
\* does not touch the list; and it does not change its LBA in between.
ListEffect(t) ==
    /\ \A u \in Threads \ {t} : (held'[u] <=> held[u]) /\ lba'[u] = lba[u]
    /\ \/ UNCHANGED safe /\ (held'[t] <=> held[t]) /\ (held[t] => lba'[t] = lba[t])
       \/ /\ ~held[t] /\ held'[t] /\ lba'[t] = lba[t]
          /\ lba[t] \notin safe /\ safe' = safe \cup {lba[t]}
       \/ held[t] /\ ~held'[t] /\ safe' = safe \ {lba[t]}

\* That is all that a step does while nothing is deleted.
LEMMA LockEffect ==
    ASSUME "delete" \notin Ops, IInv, HoldsWhere, NEW t \in Threads,
           Step(t) \/ \E r \in Requests : Call(t, r)
    PROVE  ListEffect(t)
<1> USE DEF IInv, TypeOK, HoldsWhere, ReadPcs, Goto, Done, local, ListEffect
<1>1. CASE \E r \in Requests : Call(t, r)
  BY <1>1 DEF Call, Begin
<1>2. CASE GenInsert(t)
  <2>1. /\ lba[t] \notin safe
        /\ safe' = safe \cup {lba[t]}
        /\ held' = [held EXCEPT ![t] = TRUE]
        /\ UNCHANGED lba
    BY <1>2 DEF GenInsert, Insert
  <2> QED
    BY <1>2, <2>1 DEF GenInsert, Insert
<1>3. CASE GenReadMismatch(t)
  <2>1. UNCHANGED <<safe, held>>
    BY <1>3 DEF GenReadMismatch
  <2>2. UNCHANGED lba \/ (~held[t] /\ \E s : lba' = [lba EXCEPT ![t] = s])
    BY <1>3 DEF GenReadMismatch, NextProbe
  <2> QED
    BY <2>1, <2>2
<1>4. CASE GenDrop(t)
  <2>1. /\ held[t] /\ safe' = safe \ {lba[t]}
        /\ held' = [held EXCEPT ![t] = FALSE]
        /\ \A u \in Threads \ {t} : lba'[u] = lba[u]
    BY <1>4 DEF GenDrop, NextProbe
  <2> QED
    BY <2>1
<1>5. CASE ReadMatch(t) \/ BlindRead(t)
  <2>1. ~held[t] /\ UNCHANGED <<safe, held>>
    BY <1>5 DEF ReadMatch, BlindRead
  <2>2. UNCHANGED lba \/ lba' = [lba EXCEPT ![t] = Slot(t)]
    BY <1>5 DEF ReadMatch, BlindRead
  <2> QED
    BY <2>1, <2>2
<1>6. ~DelRead(t) /\ ~DelInsert(t) /\ ~DelReread(t) /\ ~DelTrim(t)
  BY NoDelete DEF DelRead, DelInsert, DelReread, DelTrim, DelFound, ProbeOn, Insert, DeletePcs
<1>7. CASE Finish(t)
  <2>1. /\ safe' = IF held[t] THEN safe \ {lba[t]} ELSE safe
        /\ held' = [held EXCEPT ![t] = FALSE]
        /\ UNCHANGED lba
    BY <1>7 DEF Finish, ReleaseLba
  <2> QED
    BY <2>1
<1>8. CASE \/ Contend(t) \/ GenRange(t) \/ GenReadMatch(t) \/ PutWrite(t)
           \/ GetRange(t) \/ ReadMismatch(t) \/ Expire(t) \/ DeviceError(t)
  <2>1. UNCHANGED <<safe, held, lba>>
    BY <1>8 DEF Contend, GenRange, GenReadMatch, PutWrite, GetRange, ReadMismatch,
                ProbeOn, Expire, DeviceError
  <2> QED
    BY <2>1
<1> QED
  BY <1>1, <1>2, <1>3, <1>4, <1>5, <1>6, <1>7, <1>8 DEF Step

\* So the list stays what the calls believe it is.
LEMMA ListFollows ==
    ASSUME SafeListExact, NEW t \in Threads, ListEffect(t)
    PROVE  SafeListExact'
<1> USE DEF SafeListExact
<1>1. \A u \in Threads \ {t} : (held'[u] <=> held[u]) /\ lba'[u] = lba[u]
  BY DEF ListEffect
<1>2. CASE UNCHANGED safe /\ (held'[t] <=> held[t]) /\ (held[t] => lba'[t] = lba[t])
  <2>1. \A u \in Threads : (held'[u] <=> held[u]) /\ (held[u] => lba'[u] = lba[u])
    BY <1>1, <1>2
  <2> QED
    BY <1>2, <2>1
<1>3. CASE /\ ~held[t] /\ held'[t] /\ lba'[t] = lba[t]
           /\ lba[t] \notin safe /\ safe' = safe \cup {lba[t]}
  BY <1>1, <1>3
<1>4. CASE held[t] /\ ~held'[t] /\ safe' = safe \ {lba[t]}
  <2>1. \A u \in Threads : held'[u] <=> held[u] /\ u # t
    BY <1>1, <1>4
  <2>2. \A u \in Threads : held'[u] => lba'[u] = lba[u] /\ lba[u] # lba[t]
    BY <1>1, <1>4, <2>1
  <2> QED
    BY <1>4, <2>1, <2>2
<1> QED
  BY <1>2, <1>3, <1>4 DEF ListEffect

LEMMA SafeListStep ==
    ASSUME "delete" \notin Ops, LockInv, [Next]_vars
    PROVE  SafeListExact'
<1>1. ASSUME NEW t \in Threads, Step(t) \/ \E r \in Requests : Call(t, r) PROVE SafeListExact'
  BY <1>1, LockEffect, ListFollows DEF LockInv
<1>2. CASE Tick \/ UNCHANGED vars
  BY <1>2 DEF Tick, vars, local, LockInv, SafeListExact
<1> QED
  BY <1>1, <1>2 DEF Next

LEMMA LockInductive ==
    ASSUME "delete" \notin Ops
    PROVE  LockInv /\ [Next]_vars => LockInv'
  BY Inductive, HoldsWhereStep, SafeListStep DEF LockInv

\* While keys are only put, read and expired, the safe LBA list holds exactly
\* the LBAs of the calls that inserted one, and no two calls hold the same.
THEOREM SafeListExactHolds ==
    ASSUME "delete" \notin Ops
    PROVE  Spec => []SafeListExact
<1>1. LockInv => SafeListExact
  BY DEF LockInv
<1>2. LockInv /\ [Next]_vars => LockInv'
  BY LockInductive
<1> QED
  BY InitLockInv, <1>1, <1>2, PTL DEF Spec

\* Without deletes only kv_put changes what is stored.
LEMMA OnlyPutsWrite ==
    ASSUME "delete" \notin Ops, IInv, [Next]_vars
    PROVE  UNCHANGED media \/ \E t \in Threads : PutWrite(t)
<1>1. ASSUME NEW t \in Threads, DelTrim(t) PROVE FALSE
  BY <1>1, NoDelete DEF DelTrim, DeletePcs
<1>2. ASSUME NEW t \in Threads, Step(t), ~PutWrite(t), ~DelTrim(t)
      PROVE  media' = media
  BY <1>2 DEF Step, Contend, GenRange, GenInsert, GenReadMatch, GenReadMismatch,
     GenDrop, GetRange, ReadMatch, ReadMismatch, BlindRead, Expire, DelRead, DelInsert, DelReread,
     DelFound, ProbeOn, Insert, DeviceError, Finish, ReleaseLba
<1>3. ASSUME NEW t \in Threads, NEW r \in Requests, Call(t, r) PROVE media' = media
  BY <1>3 DEF Call, Begin
<1>4. CASE Tick \/ UNCHANGED vars
  BY <1>4 DEF Tick, vars
<1> QED
  BY <1>1, <1>2, <1>3, <1>4 DEF Next

\* And then only the holder of an LBA writes there: nvm_writev of kv_put runs
\* under the lock of its LBA, whichever way kv_gen_lba got it.
THEOREM WriteLockedHolds ==
    ASSUME "delete" \notin Ops
    PROVE  Spec => WriteLocked
<1> DEFINE Locked == \A s \in Slots :
             media'[s] # media[s] => \E t \in Threads : held[t] /\ lba[t] = s /\ s \in safe
<1>1. LockInv /\ [Next]_vars => [Locked]_vars
  <2> SUFFICES ASSUME LockInv, [Next]_vars, vars' # vars PROVE Locked
    OBVIOUS
  <2>1. ASSUME NEW t \in Threads, PutWrite(t) PROVE Locked
    <3>1. held[t] /\ lba[t] \in safe
      BY <2>1 DEF PutWrite, LockInv, HoldsWhere, SafeListExact
    <3>2. media' = [media EXCEPT ![lba[t]] = Written(@, req[t], trim_len[t])]
      BY <2>1 DEF PutWrite
    <3> QED
      BY <3>1, <3>2 DEF LockInv, IInv, TypeOK
  <2> QED
    BY <2>1, OnlyPutsWrite DEF LockInv
<1>2. LockInv /\ [Next]_vars => LockInv'
  BY LockInductive
<1>3. Spec => [][Locked]_vars
  BY InitLockInv, <1>1, <1>2, PTL DEF Spec
<1> QED
  BY <1>3 DEF WriteLocked

-----------------------------------------------------------------------------
(***************************************************************************)
(* Calls that follow each other store a key once.                          *)
(***************************************************************************)
\* The slots of a key before the one that has it are all taken.
Reached ==
    \A s \in Slots : media[s] # NoRec =>
        \A i \in 1 .. MaxCollision :
            (\A j \in 1 .. i : Probe[media[s].key][j] # s) => media[Probe[media[s].key][i]] # NoRec

\* The slots that a put has passed have other keys, and the one that it has
\* locked, or means to, is free or has its key.
Putting ==
    \A t \in Threads :
        /\ ~wait[t]
        /\ pc[t] \in GenPcs =>
             /\ lba[t] = Slot(t)
             /\ \A j \in 1 .. MaxCollision : j < itr[t] =>
                  /\ media[Probe[req[t].key][j]] # NoRec
                  /\ media[Probe[req[t].key][j]].key # req[t].key
        /\ pc[t] \in {"gen_insert", "put_write"} =>
             media[lba[t]] = NoRec \/ media[lba[t]].key = req[t].key
        /\ pc[t] = "gen_read" => ~held[t] /\ media[lba[t]] # NoRec
        /\ pc[t] # "gen_drop"

\* The inductive invariant of calls that follow each other.
SeqInv == LockInv /\ UniqueKey /\ Reached /\ Putting

\* Nothing is stored at first, and no call is there.
LEMMA InitSeqInv == Init => SeqInv
<1> SUFFICES ASSUME Init PROVE SeqInv
  OBVIOUS
<1>1. UniqueKey /\ Reached
  BY DEF Init, UniqueKey, Reached
<1>2. Putting
  BY DEF Init, Opened, Putting, GenPcs
<1> QED
  BY <1>1, <1>2, InitLockInv DEF SeqInv

\* Where a put that is alone is after each of its steps.
LEMMA PuttingStep ==
    ASSUME "delete" \notin Ops, \A t, u \in Threads : t = u, SeqInv, [Next]_vars
    PROVE  Putting'
<1> USE DEF SeqInv, LockInv, IInv
<1> DEFINE At(t) ==
             /\ ~wait[t]
             /\ pc[t] \in GenPcs =>
                  /\ lba[t] = Slot(t)
                  /\ \A j \in 1 .. MaxCollision : j < itr[t] =>
                       /\ media[Probe[req[t].key][j]] # NoRec
                       /\ media[Probe[req[t].key][j]].key # req[t].key
             /\ pc[t] \in {"gen_insert", "put_write"} =>
                  media[lba[t]] = NoRec \/ media[lba[t]].key = req[t].key
             /\ pc[t] = "gen_read" => ~held[t] /\ media[lba[t]] # NoRec
             /\ pc[t] # "gen_drop"
<1>1. ASSUME NEW t \in Threads, At(t)' PROVE Putting'
  BY <1>1 DEF Putting
<1>2. \A t \in Threads : At(t)
  BY DEF Putting
<1>3. ASSUME NEW t \in Threads, NEW r \in Requests, Call(t, r) PROVE At(t)'
  <2>1. /\ req'[t] = r /\ itr'[t] = 1 /\ lba'[t] = Probe[r.key][1] /\ wait' = wait
        /\ pc'[t] \in {"gen_range", "del_read", "get_range", "read_media"}
    BY <1>3 DEF Call, Begin, Goto, TypeOK
  <2>2. ~(\E j \in 1 .. MaxCollision : j < itr'[t])
    BY <2>1, KVOpsAssumption
  <2> QED
    BY <1>2, <2>1, <2>2 DEF Slot
<1>4. ASSUME NEW t \in Threads, Contend(t) PROVE FALSE
  <2>1. pc[t] = "gen_insert" /\ lba[t] \in safe
    BY <1>4, NoDelete DEF Contend, DeletePcs
  <2>2. held[t]
    BY <2>1 DEF SafeListExact
  <2> QED
    BY <2>1, <2>2 DEF HoldsWhere
<1>5. ASSUME NEW t \in Threads, GenRange(t) PROVE At(t)'
  <2>1. /\ pc[t] = "gen_range" /\ UNCHANGED <<media, req, itr, lba, held, wait>>
        /\ pc'[t] = IF media[lba[t]] = NoRec THEN "gen_insert" ELSE "gen_read"
    BY <1>5 DEF GenRange, Goto, local, TypeOK
  <2>2. ~held[t]
    BY <2>1 DEF HoldsWhere
  <2> QED
    BY <1>2, <2>1, <2>2 DEF GenPcs, Slot
<1>6. ASSUME NEW t \in Threads, GenInsert(t) PROVE At(t)'
  <2>1. /\ pc[t] = "gen_insert" /\ pc'[t] = "put_write" /\ ~wait'[t]
        /\ UNCHANGED <<media, req, itr, lba>>
    BY <1>2, <1>6 DEF GenInsert, Insert, Goto, TypeOK
  <2> QED
    BY <1>2, <2>1 DEF GenPcs, Slot
<1>7. ASSUME NEW t \in Threads, GenReadMatch(t) PROVE At(t)'
  <2>1. /\ pc[t] = "gen_read" /\ media[lba[t]].key = req[t].key
        /\ UNCHANGED <<media, req, itr, lba, held, wait>>
    BY <1>7 DEF GenReadMatch, Matches
  <2>2. ~held[t]
    BY <1>2, <2>1
  <2>3. pc'[t] = "gen_insert" \/ pc'[t] = "finish"
    BY <1>7, <2>2 DEF GenReadMatch, LockFirst, Done, Goto, TypeOK
  <2> QED
    BY <1>2, <2>1, <2>3 DEF GenPcs, Slot
<1>8. ASSUME NEW t \in Threads, GenReadMismatch(t) PROVE At(t)'
  <2>1. pc[t] = "gen_read" /\ UNCHANGED <<media, req, held, wait>> /\ ~Matches(lba[t], req[t].key)
    BY <1>8 DEF GenReadMismatch
  <2>2. ~held[t] /\ media[lba[t]] # NoRec /\ lba[t] = Slot(t)
    BY <1>2, <2>1 DEF GenPcs
  <2>3. NextProbe(t)
    BY <1>8, <2>2 DEF GenReadMismatch
  <2>4. media[lba[t]].key # req[t].key
    BY <2>1, <2>2 DEF Matches
  <2>5. CASE itr[t] < MaxCollision
    <3>1. /\ itr' = [itr EXCEPT ![t] = itr[t] + 1]
          /\ lba' = [lba EXCEPT ![t] = Probe[req[t].key][itr[t] + 1]]
          /\ pc' = [pc EXCEPT ![t] = "gen_range"]
      BY <2>3, <2>5, KVOpsAssumption DEF NextProbe, Goto, TypeOK
    <3>2. /\ itr'[t] = itr[t] + 1 /\ lba'[t] = Probe[req[t].key][itr[t] + 1]
          /\ pc'[t] = "gen_range"
      BY <3>1 DEF TypeOK
    <3>3. ASSUME NEW j \in 1 .. MaxCollision, j < itr'[t]
          PROVE  media[Probe[req[t].key][j]] # NoRec /\ media[Probe[req[t].key][j]].key # req[t].key
      <4>1. j < itr[t] \/ j = itr[t]
        BY <3>2, <3>3, KVOpsAssumption DEF TypeOK
      <4>2. CASE j = itr[t]
        BY <2>2, <2>4, <4>2 DEF Slot
      <4>3. CASE j < itr[t]
        BY <1>2, <2>1, <4>3 DEF GenPcs
      <4> QED
        BY <4>1, <4>2, <4>3
    <3> QED
      BY <1>2, <2>1, <3>2, <3>3 DEF Slot
  <2>6. CASE itr[t] = MaxCollision
    <3>1. pc'[t] = "finish"
      BY <2>3, <2>6, KVOpsAssumption DEF NextProbe, Done, Goto, TypeOK
    <3> QED
      BY <1>2, <2>1, <3>1 DEF GenPcs
  <2> QED
    BY <2>3, <2>5, <2>6 DEF NextProbe
<1>9. ASSUME NEW t \in Threads,
             \/ PutWrite(t) \/ GetRange(t) \/ ReadMatch(t) \/ ReadMismatch(t) \/ BlindRead(t)
             \/ Expire(t) \/ DeviceError(t) \/ Finish(t)
      PROVE  At(t)'
  <2>1. wait' = wait /\ pc'[t] \in {"idle", "finish", "expire", "get_range", "read_media"}
    BY <1>9 DEF PutWrite, GetRange, ReadMatch, ReadMismatch, ProbeOn, BlindRead, Rehash,
                Expire, DeviceError, Finish, Done, Goto, TypeOK
  <2> QED
    BY <1>2, <2>1 DEF GenPcs
<1>10. ASSUME NEW t \in Threads, GenDrop(t) PROVE FALSE
  BY <1>2, <1>10 DEF GenDrop
<1>11. ASSUME NEW t \in Threads, DelRead(t) \/ DelInsert(t) \/ DelReread(t) \/ DelTrim(t)
       PROVE  FALSE
  BY <1>11, NoDelete DEF DelRead, DelInsert, DelReread, DelTrim, DelFound, ProbeOn, Insert, DeletePcs
<1>12. CASE Tick \/ UNCHANGED vars
  <2>1. UNCHANGED <<media, pc, req, itr, lba, held, wait>>
    BY <1>12 DEF Tick, vars, local
  <2> QED
    BY <2>1 DEF Putting, Slot
<1> QED
  BY <1>1, <1>3, <1>4, <1>5, <1>6, <1>7, <1>8, <1>9, <1>10, <1>11, <1>12 DEF Next, Step

\* The slot at which a put writes is the only one for its key: its own, or the first
\* that is free.
LEMMA WriteStep ==
    ASSUME "delete" \notin Ops, SeqInv, NEW t \in Threads, PutWrite(t)
    PROVE  UniqueKey' /\ Reached'
<1> USE DEF SeqInv, LockInv, IInv
<1> DEFINE k == req[t].key
           at == lba[t]
           new == Written(media[lba[t]], req[t], trim_len[t])
<1>1. req[t] \in Requests /\ req[t].op = "put" /\ pc[t] = "put_write"
  BY DEF PutWrite, Located, GenPcs, TypeOK
<1>2. at \in Slots /\ itr[t] \in 1 .. MaxCollision /\ at = Probe[k][itr[t]] /\ k \in Keys
  BY <1>1, RequestFields DEF TypeOK, Putting, GenPcs, Slot
<1>3. media[at] \in Record \cup {NoRec} /\ trim_len[t] \in Nat
  BY <1>2 DEF TypeOK
<1>4. media[at] = NoRec \/ media[at].key = k
  BY <1>1 DEF Putting
<1>5. new \in Record \cup {NoRec} /\ (new # NoRec => new.key = k)
  BY <1>1, <1>3, <1>4, WrittenRecord DEF TypeOK
<1>6. media[at] # NoRec => new # NoRec
  <2>1. NewRecord(req[t]) \in Record
    BY <1>1, RequestFields, KVOpsAssumption DEF NewRecord, Record, TypeOK
  <2>2. [NewRecord(req[t]) EXCEPT !.val = Torn] \in Record
    BY <2>1 DEF Record
  <2>3. media[at] # NoRec => [media[at] EXCEPT !.val = Torn] \in Record
    BY <1>3 DEF Record
  <2> QED
    BY <2>1, <2>2, <2>3, NoneAreNot DEF Written
<1>7. \A j \in 1 .. MaxCollision : j < itr[t] => media[Probe[k][j]] # NoRec /\ media[Probe[k][j]].key # k
  BY <1>1 DEF Putting, GenPcs
<1>8. media' = [media EXCEPT ![at] = new]
  BY DEF PutWrite
<1>9. media'[at] = new /\ \A s \in Slots : s # at => media'[s] = media[s]
  BY <1>2, <1>8 DEF TypeOK
<1> HIDE DEF new, at, k
<1>10. \A s \in Slots : media[s] # NoRec => media'[s] # NoRec /\ media'[s].key = media[s].key
  BY <1>4, <1>5, <1>6, <1>9
<1>11. ASSUME NEW s \in Slots, s # at, media[s] # NoRec PROVE media[s].key # k
  <2> SUFFICES ASSUME media[s].key = k PROVE FALSE
    OBVIOUS
  <2>1. \A j \in 1 .. itr[t] : Probe[k][j] # s
    <3> SUFFICES ASSUME NEW j \in 1 .. itr[t], Probe[k][j] = s PROVE FALSE
      OBVIOUS
    <3>1. j \in 1 .. MaxCollision /\ (j < itr[t] \/ j = itr[t])
      BY <1>2, KVOpsAssumption
    <3> QED
      BY <1>2, <1>7, <1>11, <3>1
  <2>2. media[at] # NoRec
    BY <1>2, <1>11, <2>1 DEF Reached
  <2> QED
    BY <1>2, <1>4, <1>11, <2>2 DEF UniqueKey
<1>12. UniqueKey'
  BY <1>5, <1>9, <1>11 DEF UniqueKey
<1>13. ASSUME NEW s \in Slots, media'[s] # NoRec, NEW i \in 1 .. MaxCollision,
              \A j \in 1 .. i : Probe[media'[s].key][j] # s
       PROVE  media'[Probe[media'[s].key][i]] # NoRec
  <2>1. media'[s].key \in Keys
    <3>1. media'[s] \in Record
      <4>1. media'[s] \in Record \cup {NoRec}
        BY <1>5, <1>9 DEF TypeOK
      <4> QED
        BY <1>13, <4>1
    <3> QED
      BY <3>1 DEF Record
  <2>2. Probe[media'[s].key][i] \in Slots
    BY <2>1, ProbeIsSlot
  <2>3. CASE s = at
    <3>1. media'[s].key = k
      BY <1>5, <1>9, <1>13, <2>3
    <3>2. i < itr[t]
      <4> SUFFICES ASSUME ~(i < itr[t]) PROVE FALSE
        OBVIOUS
      <4>1. itr[t] \in 1 .. i
        BY <1>2, KVOpsAssumption
      <4> QED
        BY <1>2, <1>13, <2>3, <3>1, <4>1
    <3> QED
      BY <1>7, <1>10, <2>2, <3>1, <3>2
  <2>4. CASE s # at
    <3>1. media'[s] = media[s]
      BY <1>9, <2>4
    <3>2. media[Probe[media[s].key][i]] # NoRec
      BY <1>13, <3>1 DEF Reached
    <3> QED
      BY <1>10, <2>2, <3>1, <3>2
  <2> QED
    BY <2>3, <2>4
<1>14. Reached'
  BY <1>13 DEF Reached
<1> QED
  BY <1>12, <1>14

LEMMA SeqInductive ==
    ASSUME "delete" \notin Ops, \A t, u \in Threads : t = u
    PROVE  SeqInv /\ [Next]_vars => SeqInv'
<1> SUFFICES ASSUME SeqInv, [Next]_vars PROVE SeqInv'
  OBVIOUS
<1>1. UniqueKey' /\ Reached'
  <2>1. CASE UNCHANGED media
    BY <2>1 DEF SeqInv, UniqueKey, Reached
  <2>2. ASSUME NEW t \in Threads, PutWrite(t) PROVE UniqueKey' /\ Reached'
    BY <2>2, WriteStep
  <2> QED
    BY <2>1, <2>2, OnlyPutsWrite DEF SeqInv, LockInv
<1>2. LockInv'
  BY LockInductive DEF SeqInv
<1> QED
  BY <1>1, <1>2, PuttingStep DEF SeqInv

\* Calls that follow each other, of any keys and whatever their probes share, store a
\* key once, as long as no record is deleted.
THEOREM UniqueKeyHolds ==
    ASSUME "delete" \notin Ops, \A t, u \in Threads : t = u
    PROVE  Spec => []UniqueKey
<1>1. SeqInv => UniqueKey
  BY DEF SeqInv
<1>2. SeqInv /\ [Next]_vars => SeqInv'
  BY SeqInductive
<1> QED
  BY InitSeqInv, <1>1, <1>2, PTL DEF Spec

-----------------------------------------------------------------------------
(***************************************************************************)
(* The store is a map: from what a call of KVHistory finds at each of its  *)
(* steps to the step of KVMap that it is.                                  *)
(***************************************************************************)
\* A call has its answer exactly when only its clean-up is left.
Answers == \A t \in Threads : ret[t] # NoResult <=> pc[t] = "finish"

\* The observer has seen what the key of a pending call is mapped to.
Watching ==
    /\ seen = [t \in Threads |-> seen[t]]
    /\ \A t \in Threads :
         /\ req[t] = NoRequest => seen[t] = {}
         /\ req[t] # NoRequest /\ ret[t] = NoResult => Store[req[t].key] \in seen[t]

\* No value is shorter than another: nothing is left of an old one to be trimmed, and
\* no kv_get that measures values reads less than there is of one.
Intact ==
    /\ \A s \in Slots : media[s] # NoRec =>
         media[s].val \in Values /\ media[s].secs = Sectors[media[s].val]
    /\ \A t \in Threads : trim_len[t] = 0
    /\ TRUE \in Exact =>
         \A t \in Threads : \A v \in Values \ Inline : Sectors[v] <= iov_len[t]

\* Values are of one length, and of one kind if exact bytes are asked for: with their
\* headers, or after them.
SameLengths ==
    /\ \A v, w \in Values : Sectors[v] = Sectors[w]
    /\ TRUE \in Exact => \A v, w \in Values : Extent(v) = Extent(w)

\* The slots of its key that a call has passed have other keys.
Passed(t) ==
    \A j \in 1 .. MaxCollision : j < itr[t] =>
        /\ media[Probe[req[t].key][j]] # NoRec
        /\ media[Probe[req[t].key][j]].key # req[t].key

\* A put compares, and writes, the first slot that its key can have, and may do so.
PutsFind ==
    \A t \in Threads :
        /\ pc[t] \in {"gen_read", "put_write"} => lba[t] = Slot(t) /\ Passed(t)
        /\ pc[t] = "put_write" =>
             /\ media[lba[t]] = NoRec \/ media[lba[t]].key = req[t].key
             /\ req[t].replace \/ Lookup(req[t].key) = NoRec

\* A key that is found is found where Lookup finds it; one that is not was absent
\* at some time since the call.
ReadsFind ==
    \A t \in Threads :
        pc[t] \in {"get_range", "read_media", "del_read"} =>
            IF Matches(Slot(t), req[t].key)
            THEN Lookup(req[t].key) = media[Slot(t)].val
            ELSE itr[t] = MaxCollision => NoRec \in seen[t]

\* A delete trims all there is of its key.
TrimsFind ==
    \A t \in Threads :
        /\ pc[t] \notin {"expire", "del_reread"}
        /\ pc[t] = "del_trim" =>
             /\ Matches(lba[t], req[t].key)
             /\ \A s \in ProbeSlots(req[t].key) : Matches(s, req[t].key) => s = lba[t]

\* What makes every step a step of the map.
Faithful == Answers /\ Watching /\ Intact /\ PutsFind /\ ReadsFind /\ TrimsFind

\* A set of numbers that is not empty has a least element, which is its Min.
LEMMA MinIsLeast ==
    ASSUME NEW S \in SUBSET Nat, S # {}
    PROVE  Min(S) \in S /\ \A y \in S : Min(S) <= y
<1>1. PICK x \in S : \A y \in S : ~ (<<y, x>> \in OpToRel(<, Nat))
  BY WFMin, NatLessThanWellFounded
<1>2. ASSUME NEW y \in S PROVE x <= y
  <2>1. ~ (<<y, x>> \in OpToRel(<, Nat))
    BY <1>1
  <2>2. <<y, x>> \in Nat \X Nat
    OBVIOUS
  <2>3. ~ (y < x)
    BY <2>1, <2>2 DEF OpToRel
  <2> QED
    BY <2>3
<1> QED
  BY <1>2 DEF Min

\* A key that no slot of its own has is not found.
LEMMA LookupNone ==
    ASSUME NEW k, \A i \in 1 .. MaxCollision : ~Matches(Probe[k][i], k)
    PROVE  Lookup(k) = NoRec
<1>1. Copies(k) = {}
  BY DEF Copies
<1> QED
  BY <1>1 DEF Lookup

\* A key is found at the first of its slots that has it.
LEMMA LookupFirst ==
    ASSUME NEW k, NEW i \in 1 .. MaxCollision, Matches(Probe[k][i], k),
           \A j \in 1 .. MaxCollision : j < i => ~Matches(Probe[k][j], k)
    PROVE  Lookup(k) = media[Probe[k][i]].val
<1>1. i \in Copies(k) /\ \A j \in Copies(k) : i <= j
  BY KVOpsAssumption DEF Copies
<1>2. \A x \in Copies(k) : (\A y \in Copies(k) : x <= y) => x = i
  BY <1>1, KVOpsAssumption DEF Copies
<1>3. Min(Copies(k)) = i
  BY <1>1, <1>2 DEF Min
<1> QED
  BY <1>1, <1>3 DEF Lookup

\* What is found is the value of a record of the key at one of its slots.
LEMMA LookupSome ==
    ASSUME NEW k, NEW i \in 1 .. MaxCollision, Matches(Probe[k][i], k)
    PROVE  \E j \in 1 .. MaxCollision :
             /\ Matches(Probe[k][j], k)
             /\ \A n \in 1 .. MaxCollision : n < j => ~Matches(Probe[k][n], k)
<1>1. Copies(k) \in SUBSET Nat /\ Copies(k) # {}
  BY KVOpsAssumption DEF Copies
<1>2. Min(Copies(k)) \in Copies(k) /\ \A n \in Copies(k) : Min(Copies(k)) <= n
  BY <1>1, MinIsLeast
<1> DEFINE j == Min(Copies(k))
<1>3. j \in 1 .. MaxCollision /\ Matches(Probe[k][j], k)
  BY <1>2 DEF Copies
<1>4. ASSUME NEW n \in 1 .. MaxCollision, n < j PROVE ~Matches(Probe[k][n], k)
  <2>1. n \notin Copies(k)
    BY <1>2, <1>3, <1>4, KVOpsAssumption
  <2> QED
    BY <2>1 DEF Copies
<1> QED
  BY <1>3, <1>4

\* A key is found as before where the slots that have it are as before and no other
\* has come to have it.
LEMMA LookupKept ==
    ASSUME NEW k,
           \A s \in ProbeSlots(k) : Matches(s, k)' <=> Matches(s, k),
           \A s \in ProbeSlots(k) : Matches(s, k) => media'[s] = media[s]
    PROVE  Lookup(k)' = Lookup(k)
<1>1. \A i \in 1 .. MaxCollision : Probe[k][i] \in ProbeSlots(k)
  BY ProbeInSlots
<1>2. Copies(k)' = Copies(k)
  BY <1>1 DEF Copies
<1>3. CASE Copies(k) = {}
  BY <1>2, <1>3 DEF Lookup
<1>4. CASE Copies(k) # {}
  <2>1. Min(Copies(k)) \in Copies(k)
    <3>1. Copies(k) \in SUBSET Nat
      BY KVOpsAssumption DEF Copies
    <3> QED
      BY <1>4, <3>1, MinIsLeast
  <2>2. media'[Probe[k][Min(Copies(k))]] = media[Probe[k][Min(Copies(k))]]
    BY <1>1, <2>1 DEF Copies
  <2> QED
    BY <1>2, <1>4, <2>2 DEF Lookup
<1> QED
  BY <1>3, <1>4

\* No value is the mark of a missing one.
LEMMA LookupIsValue ==
    ASSUME TypeOK, NEW k \in Keys, NEW i \in 1 .. MaxCollision, Matches(Probe[k][i], k)
    PROVE  Lookup(k) # NoRec
<1>1. PICK j \in 1 .. MaxCollision :
         /\ Matches(Probe[k][j], k)
         /\ \A n \in 1 .. MaxCollision : n < j => ~Matches(Probe[k][n], k)
  BY LookupSome
<1>2. Lookup(k) = media[Probe[k][j]].val
  BY <1>1, LookupFirst
<1>3. media[Probe[k][j]] \in Record
  BY <1>1, ProbeIsSlot DEF TypeOK, Matches
<1> QED
  BY <1>2, <1>3, MarkersAssumption DEF Record

-----------------------------------------------------------------------------
\* A step of a call either leaves its answer open, or gives one and ends.
LEMMA AnswersStep == IInv /\ Answers /\ [Next]_vars => Answers'
<1> SUFFICES ASSUME IInv, Answers, [Next]_vars PROVE Answers'
  OBVIOUS
<1> USE DEF IInv, TypeOK, Answers, Goto, Done, local
<1>1. ASSUME NEW t \in Threads, NEW r \in Requests, Call(t, r) PROVE Answers'
  BY <1>1 DEF Call, Begin
<1>2. ASSUME NEW t \in Threads, Contend(t) \/ GenRange(t) \/ GenInsert(t) \/ DelInsert(t)
      PROVE  Answers'
  BY <1>2 DEF Contend, GenRange, GenInsert, DelInsert, Insert
<1>3. ASSUME NEW t \in Threads, GenReadMatch(t) PROVE Answers'
  BY <1>3, MarkersAssumption DEF GenReadMatch, LockFirst
<1>4. ASSUME NEW t \in Threads, GenReadMismatch(t) \/ GenDrop(t) PROVE Answers'
  BY <1>4, MarkersAssumption DEF GenReadMismatch, GenDrop, NextProbe
<1>5. ASSUME NEW t \in Threads, PutWrite(t) \/ Expire(t) \/ DeviceError(t) \/ DelTrim(t)
      PROVE  Answers'
  BY <1>5, MarkersAssumption DEF PutWrite, Expire, DeviceError, DelTrim
<1>6. ASSUME NEW t \in Threads, ReadMatch(t) PROVE Answers'
  <2>1. media[Slot(t)] \in Record
    <3>1. req[t] \in Requests
      BY <1>6 DEF ReadMatch, ReadPcs, Located
    <3>2. Slot(t) \in Slots
      BY <3>1, RequestFields, ProbeIsSlot DEF Slot
    <3> QED
      BY <1>6, <3>2 DEF ReadMatch, Matches
  <2>2. Content(t, media[Slot(t)]) # NoResult
    BY <2>1, MarkersAssumption DEF Record, Content
  <2> QED
    BY <1>6, <2>2, MarkersAssumption DEF ReadMatch
<1>7. ASSUME NEW t \in Threads,
             \/ GetRange(t) \/ ReadMismatch(t) \/ BlindRead(t) \/ DelRead(t) \/ DelReread(t)
      PROVE  Answers'
  BY <1>7, MarkersAssumption DEF GetRange, ReadMismatch, BlindRead, DelRead, DelReread, DelFound,
     ProbeOn, Rehash
<1>8. ASSUME NEW t \in Threads, Finish(t) PROVE Answers'
  BY <1>8 DEF Finish
<1>9. CASE Tick \/ UNCHANGED vars
  BY <1>9 DEF Tick, vars
<1> QED
  BY <1>1, <1>2, <1>3, <1>4, <1>5, <1>6, <1>7, <1>8, <1>9 DEF Next, Step

\* The request of a thread changes when it calls, which is not when it stores, and
\* when it returns.
LEMMA RequestStep ==
    ASSUME IInv, Answers, [Next]_vars, NEW t \in Threads
    PROVE  \/ req'[t] = req[t] /\ (ret[t] # NoResult => ret'[t] = ret[t])
           \/ req[t] = NoRequest /\ req'[t] \in Requests /\ media' = media
           \/ req[t] # NoRequest /\ req'[t] = NoRequest
<1> USE DEF IInv, TypeOK, Answers, Goto, Done, local
<1>1. ASSUME NEW u \in Threads, NEW r \in Requests, Call(u, r)
      PROVE  \/ req'[t] = req[t] /\ ret'[t] = ret[t]
             \/ req[t] = NoRequest /\ req'[t] \in Requests /\ media' = media
  BY <1>1 DEF Call, Begin, Located
<1>2. ASSUME NEW u \in Threads, Finish(u)
      PROVE  \/ req'[t] = req[t] /\ ret'[t] = ret[t]
             \/ req[t] # NoRequest /\ req'[t] = NoRequest
  BY <1>2 DEF Finish, Located
<1>3. ASSUME NEW u \in Threads, Step(u), ~Finish(u)
      PROVE  req' = req /\ pc[u] # "finish" /\ (u # t => ret'[t] = ret[t])
  BY <1>3, KVOpsAssumption DEF Step, Contend, GenRange, GenInsert, GenReadMatch, GenReadMismatch, NextProbe,
     GenDrop, PutWrite, GetRange, ReadMatch, ReadMismatch, BlindRead, Rehash, Expire, DelRead, DelInsert,
     DelReread, DelFound, ProbeOn, Insert, DelTrim, DeviceError, DevicePcs
<1>4. CASE Tick \/ UNCHANGED vars
  BY <1>4 DEF Tick, vars
<1> QED
  BY <1>1, <1>2, <1>3, <1>4 DEF Next

\* The observer keeps up with the store.
LEMMA WatchingStep ==
    ASSUME IInv, Answers, Watching, [Next]_vars, Observe
    PROVE  Watching'
<1> DEFINE next(t) == IF req'[t] = NoRequest THEN {}
                      ELSE IF req[t] = NoRequest THEN {Store[req'[t].key]}
                      ELSE IF ret[t] # NoResult THEN seen[t]
                      ELSE seen[t] \cup {Store'[req[t].key]}
<1>1. seen' = [t \in Threads |-> next(t)]
  BY DEF Observe
<1>2. \A t \in Threads : seen'[t] = next(t)
  BY <1>1
<1>3. ASSUME NEW t \in Threads, req'[t] # NoRequest, ret'[t] = NoResult
      PROVE  Store'[req'[t].key] \in seen'[t]
  <2>1. CASE req[t] = NoRequest
    <3>1. req'[t] # req[t]
      BY <1>3, <2>1
    <3>2. media' = media
      BY <3>1, <2>1, RequestStep
    <3>3. Store' = Store
      BY <3>2 DEF Store, Lookup, Copies, Matches
    <3> QED
      BY <1>2, <1>3, <2>1, <3>3
  <2>2. CASE req[t] # NoRequest
    <3>1. req'[t] = req[t] /\ ret[t] = NoResult
      BY <1>3, <2>2, RequestStep
    <3> QED
      BY <1>2, <1>3, <2>2, <3>1
  <2> QED
    BY <2>1, <2>2
<1>4. \A t \in Threads : req'[t] = NoRequest => seen'[t] = {}
  BY <1>2
<1> HIDE DEF next
<1>5. seen' = [t \in Threads |-> seen'[t]]
  BY <1>1
<1> QED
  BY <1>3, <1>4, <1>5 DEF Watching

\* Then a put leaves the record that it was asked for.
LEMMA WrittenIsNew ==
    ASSUME IInv, Intact, NEW t \in Threads, PutWrite(t)
    PROVE  /\ req[t] \in Requests /\ req[t].op = "put" /\ req[t].key \in Keys /\ req[t].val \in Values
           /\ media' = [media EXCEPT ![lba[t]] = NewRecord(req[t])]
           /\ NewRecord(req[t]) \in Record
<1>1. req[t] \in Requests /\ req[t].op = "put"
  BY DEF PutWrite, IInv, TypeOK, Located, GenPcs
<1>2. req[t].key \in Keys /\ req[t].val \in Values /\ Sectors[req[t].val] \in Nat
  BY <1>1, RequestFields, KVOpsAssumption
<1>3. trim_len[t] = 0
  BY DEF Intact
<1>4. Written(media[lba[t]], req[t], trim_len[t]) = NewRecord(req[t])
  BY <1>2, <1>3 DEF Written
<1>5. media' = [media EXCEPT ![lba[t]] = NewRecord(req[t])]
  BY <1>4 DEF PutWrite
<1>6. NewRecord(req[t]) \in Record
  BY <1>1, <1>2, RequestFields DEF NewRecord, Record, IInv, TypeOK
<1> QED
  BY <1>1, <1>2, <1>5, <1>6

\* Values of one length leave nothing to be trimmed.
LEMMA IntactStep ==
    ASSUME IInv, Intact, SameLengths, [Next]_vars
    PROVE  Intact'
<1> USE DEF IInv, TypeOK, Intact, SameLengths, Goto, Done, local
<1>1. ASSUME NEW t \in Threads, PutWrite(t) PROVE Intact'
  <2>1. req[t].val \in Values /\ media' = [media EXCEPT ![lba[t]] = NewRecord(req[t])]
    BY <1>1, WrittenIsNew
  <2>2. UNCHANGED <<trim_len, iov_len>>
    BY <1>1 DEF PutWrite
  <2>3. NewRecord(req[t]).val = req[t].val /\ NewRecord(req[t]).secs = Sectors[req[t].val]
    BY DEF NewRecord
  <2> QED
    BY <2>1, <2>2, <2>3
<1>2. ASSUME NEW t \in Threads, DelTrim(t) PROVE Intact'
  BY <1>2 DEF DelTrim, Trim
<1>3. ASSUME NEW t \in Threads, GenReadMatch(t) PROVE Intact'
  <2>1. req[t] \in Requests /\ req[t].op = "put" /\ media[lba[t]] # NoRec /\ media' = media
    BY <1>3 DEF GenReadMatch, Matches, Located, GenPcs
  <2>2. req[t].val \in Values /\ Sectors[req[t].val] \in Nat
    BY <2>1, RequestFields, KVOpsAssumption
  <2>3. media[lba[t]].secs = Sectors[req[t].val]
    BY <2>1, <2>2
  <2>4. /\ trim_len'[t] = 0 /\ \A u \in Threads \ {t} : trim_len'[u] = trim_len[u]
        /\ iov_len' = iov_len
    BY <1>3, <2>2, <2>3 DEF GenReadMatch
  <2> QED
    BY <2>1, <2>4
<1>7. ASSUME NEW t \in Threads, GetRange(t) PROVE Intact'
  <2>1. UNCHANGED <<media, trim_len>>
    BY <1>7 DEF GetRange
  <2>2. ASSUME TRUE \in Exact, NEW v \in Values \ Inline, NEW n \in Extents(media[Slot(t)])
        PROVE  Sectors[v] <= Shortened(iov_len[t], n)
    <3>1. n = Sectors[v] /\ n \in Nat
      BY <2>2, KVOpsAssumption DEF Extents, Extent
    <3> QED
      BY <2>2, <3>1 DEF Shortened
  <2>3. \/ UNCHANGED iov_len
        \/ \E n \in Extents(media[Slot(t)]) :
             iov_len' = [iov_len EXCEPT ![t] = Shortened(iov_len[t], n)]
    BY <1>7 DEF GetRange
  <2>4. ASSUME TRUE \in Exact, NEW v \in Values \ Inline, NEW u \in Threads
        PROVE  Sectors[v] <= iov_len'[u]
    BY <2>2, <2>3, <2>4
  <2> QED
    BY <2>1, <2>4
<1>8. ASSUME NEW t \in Threads, Finish(t) PROVE Intact'
  <2>1. /\ media' = media /\ trim_len' = [trim_len EXCEPT ![t] = 0]
        /\ iov_len' = [iov_len EXCEPT ![t] = ValueLen]
    BY <1>8 DEF Finish
  <2> QED
    BY <2>1, KVOpsAssumption
<1>4. ASSUME NEW t \in Threads, Step(t), ~PutWrite(t), ~DelTrim(t), ~GenReadMatch(t),
             ~GetRange(t), ~Finish(t)
      PROVE  /\ UNCHANGED <<media, iov_len>>
             /\ \A u \in Threads : trim_len'[u] \in {0, trim_len[u]}
  BY <1>4 DEF Step, Contend, GenRange, GenInsert, GenReadMismatch, NextProbe,
     GenDrop, ReadMatch, ReadMismatch, BlindRead, Rehash, Expire, DelRead, DelInsert,
     DelReread, DelFound, ProbeOn, Insert, DeviceError
<1>5. ASSUME NEW t \in Threads, NEW r \in Requests, Call(t, r)
      PROVE  UNCHANGED <<media, trim_len, iov_len>>
  BY <1>5 DEF Call, Begin
<1>6. CASE Tick \/ UNCHANGED vars
  BY <1>6 DEF Tick, vars
<1> QED
  BY <1>1, <1>2, <1>3, <1>4, <1>5, <1>6, <1>7, <1>8 DEF Next

-----------------------------------------------------------------------------
\* The same after a step: a key that no slot of its own has is not found, and one
\* that a slot has is found at the first such slot.
LEMMA LookupNoneNext ==
    ASSUME NEW k, \A i \in 1 .. MaxCollision : ~Matches(Probe[k][i], k)'
    PROVE  Lookup(k)' = NoRec
<1>1. Copies(k)' = {}
  BY DEF Copies
<1> QED
  BY <1>1 DEF Lookup

LEMMA LookupFirstNext ==
    ASSUME NEW k, NEW i \in 1 .. MaxCollision, Matches(Probe[k][i], k)',
           \A j \in 1 .. MaxCollision : j < i => ~Matches(Probe[k][j], k)'
    PROVE  Lookup(k)' = media'[Probe[k][i]].val
<1>1. i \in Copies(k)' /\ \A j \in Copies(k)' : i <= j
  BY KVOpsAssumption DEF Copies
<1>2. \A x \in Copies(k)' : (\A y \in Copies(k)' : x <= y) => x = i
  BY <1>1, KVOpsAssumption DEF Copies
<1>3. Min(Copies(k)') = i
  BY <1>1, <1>2 DEF Min
<1> QED
  BY <1>1, <1>3 DEF Lookup

\* A call that is under way has a request and no answer.
LEMMA UnderWay ==
    ASSUME IInv, Answers, NEW t \in Threads, pc[t] \notin {"idle", "finish"}
    PROVE  /\ req[t] \in Requests /\ req[t] # NoRequest /\ req[t].key \in Keys
           /\ ret[t] = NoResult
<1>1. req[t] \in Requests /\ req[t] # NoRequest
  BY DEF IInv, TypeOK, Located
<1> QED
  BY <1>1, RequestFields DEF Answers

\* What is stored changes with the media only.
LEMMA StoreKept == media' = media => Store' = Store
  BY DEF Store, Lookup, Copies, Matches

\* The observer learns nothing from a step that changes neither store nor requests.
LEMMA SilentStep ==
    ASSUME IInv, Watching, Observe, UNCHANGED <<media, req>>
    PROVE  UNCHANGED <<Store, seen>>
<1>1. Store' = Store
  BY StoreKept
<1>2. ASSUME NEW t \in Threads PROVE seen'[t] = seen[t]
  BY <1>1 DEF Observe, Watching
<1>3. seen' = [t \in Threads |-> seen'[t]]
  BY DEF Observe
<1> QED
  BY <1>1, <1>2, <1>3 DEF Watching

\* A record that is stored at the first slot that its key can have maps the key to
\* its value, and no other key to anything else.
LEMMA StoredAt ==
    ASSUME TypeOK, NEW k \in Keys, NEW i \in 1 .. MaxCollision,
           NEW r \in Record, r.key = k, media' = [media EXCEPT ![Probe[k][i]] = r],
           media[Probe[k][i]] = NoRec \/ media[Probe[k][i]].key = k,
           \A j \in 1 .. MaxCollision : j < i =>
               media[Probe[k][j]] # NoRec /\ media[Probe[k][j]].key # k
    PROVE  Store' = [Store EXCEPT ![k] = r.val]
<1> DEFINE at == Probe[k][i]
<1>1. at \in Slots
  BY ProbeIsSlot
<1>2. /\ media'[at] = r /\ media'[at] # NoRec
      /\ \A s \in Slots : s # at => media'[s] = media[s]
  BY <1>1, NoneAreNot DEF TypeOK
<1>3. Lookup(k)' = r.val
  <2>1. Matches(Probe[k][i], k)'
    BY <1>2 DEF Matches
  <2>2. ASSUME NEW j \in 1 .. MaxCollision, j < i PROVE ~Matches(Probe[k][j], k)'
    <3>1. Probe[k][j] \in Slots
      BY ProbeIsSlot
    <3>2. Probe[k][j] # at /\ media[Probe[k][j]].key # k
      BY <2>2
    <3> QED
      BY <1>2, <3>1, <3>2 DEF Matches
  <2>3. Lookup(k)' = media'[Probe[k][i]].val
    BY <2>1, <2>2, LookupFirstNext
  <2> QED
    BY <1>2, <2>3
<1>4. ASSUME NEW x \in Keys, x # k PROVE Lookup(x)' = Lookup(x)
  <2>1. ProbeSlots(x) \subseteq Slots
    BY ProbeIsSlot DEF ProbeSlots
  <2>2. \A s \in ProbeSlots(x) : Matches(s, x)' <=> Matches(s, x)
    BY <1>2, <1>4, <2>1 DEF Matches
  <2>3. \A s \in ProbeSlots(x) : Matches(s, x) => media'[s] = media[s]
    BY <1>2, <1>4, <2>1 DEF Matches
  <2> QED
    BY <2>2, <2>3, LookupKept
<1> QED
  BY <1>3, <1>4 DEF Store

\* Where the only record of a key is removed the key, and no other, is absent.
LEMMA RemovedAt ==
    ASSUME TypeOK, NEW k \in Keys, NEW at \in Slots, Matches(at, k),
           \A s \in ProbeSlots(k) : Matches(s, k) => s = at,
           media' = [media EXCEPT ![at] = NoRec]
    PROVE  Store' = [Store EXCEPT ![k] = NoRec]
<1>1. media'[at] = NoRec /\ \A s \in Slots : s # at => media'[s] = media[s]
  BY DEF TypeOK
<1>2. Lookup(k)' = NoRec
  <2>1. ASSUME NEW i \in 1 .. MaxCollision PROVE ~Matches(Probe[k][i], k)'
    <3>1. Probe[k][i] \in Slots /\ Probe[k][i] \in ProbeSlots(k)
      BY ProbeIsSlot, ProbeInSlots
    <3> QED
      BY <1>1, <3>1 DEF Matches
  <2> QED
    BY <2>1, LookupNoneNext
<1>3. ASSUME NEW x \in Keys, x # k PROVE Lookup(x)' = Lookup(x)
  <2>1. ProbeSlots(x) \subseteq Slots
    BY ProbeIsSlot DEF ProbeSlots
  <2>2. \A s \in ProbeSlots(x) : Matches(s, x)' <=> Matches(s, x)
    BY <1>1, <1>3, <2>1 DEF Matches
  <2>3. \A s \in ProbeSlots(x) : Matches(s, x) => media'[s] = media[s]
    BY <1>1, <1>3, <2>1 DEF Matches
  <2> QED
    BY <2>2, <2>3, LookupKept
<1> QED
  BY <1>2, <1>3 DEF Store

\* A put maps its key to its value.
LEMMA PutStores ==
    ASSUME IInv, Faithful, NEW t \in Threads, PutWrite(t)
    PROVE  Store' = [Store EXCEPT ![req[t].key] = req[t].val]
<1>1. /\ req[t].key \in Keys /\ NewRecord(req[t]) \in Record
      /\ media' = [media EXCEPT ![lba[t]] = NewRecord(req[t])]
  BY WrittenIsNew DEF Faithful
<1>2. NewRecord(req[t]).key = req[t].key /\ NewRecord(req[t]).val = req[t].val
  BY DEF NewRecord
<1>3. /\ lba[t] = Probe[req[t].key][itr[t]] /\ itr[t] \in 1 .. MaxCollision
      /\ \A j \in 1 .. MaxCollision : j < itr[t] =>
            /\ media[Probe[req[t].key][j]] # NoRec
            /\ media[Probe[req[t].key][j]].key # req[t].key
      /\ media[lba[t]] = NoRec \/ media[lba[t]].key = req[t].key
  BY DEF Faithful, PutsFind, PutWrite, Slot, IInv, TypeOK, Passed
<1>4. TypeOK
  BY DEF IInv
<1> DEFINE k == req[t].key
           i == itr[t]
           r == NewRecord(req[t])
<1>5. /\ k \in Keys /\ i \in 1 .. MaxCollision /\ r \in Record /\ r.key = k
      /\ media' = [media EXCEPT ![Probe[k][i]] = r]
      /\ media[Probe[k][i]] = NoRec \/ media[Probe[k][i]].key = k
      /\ \A j \in 1 .. MaxCollision : j < i =>
            media[Probe[k][j]] # NoRec /\ media[Probe[k][j]].key # k
  BY <1>1, <1>2, <1>3
<1>6. Store' = [Store EXCEPT ![k] = r.val]
  <2> HIDE DEF k, i, r
  <2> QED
    BY <1>4, <1>5, StoredAt
<1> QED
  BY <1>2, <1>6

\* A delete makes its key absent.
LEMMA TrimStores ==
    ASSUME IInv, Faithful, NEW t \in Threads, DelTrim(t)
    PROVE  Store' = [Store EXCEPT ![req[t].key] = NoRec]
<1>1. req[t].key \in Keys /\ lba[t] \in Slots
  BY UnderWay DEF Faithful, DelTrim, IInv, TypeOK
<1>2. /\ Matches(lba[t], req[t].key)
      /\ \A s \in ProbeSlots(req[t].key) : Matches(s, req[t].key) => s = lba[t]
  BY DEF Faithful, TrimsFind, DelTrim
<1>3. media' = [media EXCEPT ![lba[t]] = NoRec]
  BY DEF DelTrim, Trim
<1>4. TypeOK
  BY DEF IInv
<1> QED
  BY <1>1, <1>2, <1>3, <1>4, RemovedAt

\* A step that changes the store is seen by every call that is under way.
LEMMA UpdateSeen ==
    ASSUME IInv, Watching, Answers, Observe, req' = req
    PROVE  seen' = [u \in Threads |-> IF Map!Pending(u) THEN seen[u] \cup {Store'[req[u].key]}
                                                       ELSE seen[u]]
  BY DEF Observe, Watching, Map!Pending

\* Every step of the store is a step of the map, or changes nothing of it.
LEMMA Simulation ==
    ASSUME ~ExpiryOn, "read_media" \in Failing => "exists" \notin Ops,
           IInv, Faithful, [HNext]_hvars
    PROVE  [Map!Next]_(Map!vars)
<1> DEFINE Quiet == UNCHANGED <<Store, req, ret, seen>>
<1>1. Answers /\ Watching
  BY DEF Faithful
<1>2. Quiet => [Map!Next]_(Map!vars)
  BY DEF Map!vars
<1> HIDE DEF Quiet
<1>3. ASSUME NEW t \in Threads, NEW r \in Requests, Call(t, r), Observe
      PROVE  Map!Call(t, r)
  <2>1. /\ req[t] = NoRequest /\ req' = [req EXCEPT ![t] = r] /\ req'[t] = r
        /\ r # NoRequest /\ UNCHANGED <<media, ret>>
    BY <1>3, NoneAreNot DEF Call, Begin, IInv, Located, TypeOK
  <2>2. Store' = Store
    BY <2>1, StoreKept
  <2>3. seen'[t] = {Store[r.key]}
    BY <1>3, <2>1 DEF Observe
  <2>4. ASSUME NEW u \in Threads, u # t PROVE seen'[u] = seen[u]
    <3>1. req'[u] = req[u]
      BY <2>1, <2>4 DEF IInv, TypeOK
    <3> QED
      BY <1>1, <1>3, <2>2, <3>1 DEF Observe, Watching
  <2>5. seen' = [u \in Threads |-> seen'[u]] /\ seen = [u \in Threads |-> seen[u]]
    BY <1>1, <1>3 DEF Observe, Watching
  <2>6. seen' = [seen EXCEPT ![t] = {Store[r.key]}]
    BY <2>3, <2>4, <2>5
  <2> QED
    BY <2>1, <2>2, <2>6 DEF Map!Call
<1>4. ASSUME NEW t \in Threads, Finish(t), Observe PROVE Map!Return(t)
  <2>1. /\ ret[t] # NoResult /\ UNCHANGED media
        /\ req' = [req EXCEPT ![t] = NoRequest] /\ ret' = [ret EXCEPT ![t] = NoResult]
    BY <1>1, <1>4 DEF Finish, Answers
  <2>2. Store' = Store
    BY <2>1, StoreKept
  <2>3. seen'[t] = {}
    BY <1>4, <2>1 DEF Observe, IInv, TypeOK
  <2>4. ASSUME NEW u \in Threads, u # t PROVE seen'[u] = seen[u]
    <3>1. req'[u] = req[u]
      BY <2>1, <2>4 DEF IInv, TypeOK
    <3> QED
      BY <1>1, <1>4, <2>2, <3>1 DEF Observe, Watching
  <2>5. seen' = [u \in Threads |-> seen'[u]] /\ seen = [u \in Threads |-> seen[u]]
    BY <1>1, <1>4 DEF Observe, Watching
  <2>6. seen' = [seen EXCEPT ![t] = {}]
    BY <2>3, <2>4, <2>5
  <2> QED
    BY <2>1, <2>2, <2>6 DEF Map!Return
<1>5. ASSUME NEW t \in Threads, PutWrite(t), Observe PROVE Map!Put(t)
  <2>1. /\ req[t] \in Requests /\ req[t] # NoRequest /\ req[t].op = "put" /\ ret[t] = NoResult
        /\ req' = req /\ ret' = [ret EXCEPT ![t] = "ok"]
    BY <1>1, <1>5, UnderWay DEF PutWrite, Done, IInv, Located, GenPcs
  <2>2. req[t].key \in Keys
    BY <2>1, RequestFields
  <2>3. req[t].replace \/ Store[req[t].key] = NoRec
    BY <1>5, <2>2 DEF Faithful, PutsFind, PutWrite, Store
  <2>4. Store' = [Store EXCEPT ![req[t].key] = req[t].val]
    BY <1>5, PutStores
  <2>5. Map!Update(t, req[t].val)
    BY <1>1, <1>5, <2>1, <2>4, UpdateSeen DEF Map!Update, Map!Answer
  <2> QED
    BY <2>1, <2>3, <2>5 DEF Map!Put, Map!Pending
<1>6. ASSUME NEW t \in Threads, DelTrim(t), Observe PROVE Map!Delete(t)
  <2>1. /\ req[t] # NoRequest /\ req[t].op = "delete" /\ ret[t] = NoResult
        /\ req' = req /\ ret' = [ret EXCEPT ![t] = "ok"]
    BY <1>1, <1>6, UnderWay DEF DelTrim, Done, IInv, Located, DeletePcs
  <2>2. Store' = [Store EXCEPT ![req[t].key] = NoRec]
    BY <1>6, TrimStores
  <2>3. Map!Update(t, NoRec)
    BY <1>1, <1>6, <2>1, <2>2, UpdateSeen DEF Map!Update, Map!Answer
  <2> QED
    BY <2>1, <2>3 DEF Map!Delete, Map!Pending
<1>7. ASSUME NEW t \in Threads, pc[t] \notin {"idle", "finish"}
      PROVE  /\ Map!Pending(t) /\ req[t] \in Requests /\ req[t].key \in Keys
             /\ Store[req[t].key] \in seen[t] /\ Store[req[t].key] = Lookup(req[t].key)
  BY <1>1, <1>7, UnderWay DEF Map!Pending, Watching, Store
<1>8. ASSUME Observe, UNCHANGED <<media, req>>
      PROVE  UNCHANGED <<Store, req, seen>> /\ (UNCHANGED ret => Quiet)
  BY <1>1, <1>8, SilentStep DEF Quiet
<1>9. ASSUME NEW t \in Threads, DeviceError(t), Observe PROVE Map!Fail(t)
  <2>1. pc[t] \notin {"idle", "finish"} /\ UNCHANGED <<media, req>>
        /\ ret' = [ret EXCEPT ![t] = "failed"]
    BY <1>9, KVOpsAssumption DEF DeviceError, DevicePcs, Done
  <2> QED
    BY <1>7, <1>8, <1>9, <2>1 DEF Map!Fail, Map!Answer
<1>10. ASSUME NEW t \in Threads, GenReadMatch(t), Observe PROVE Quiet \/ Map!PutExists(t)
  <2>1. pc[t] = "gen_read" /\ UNCHANGED <<media, req>> /\ Matches(lba[t], req[t].key)
    BY <1>10 DEF GenReadMatch
  <2>2. CASE UNCHANGED ret
    BY <1>8, <1>10, <2>1, <2>2
  <2>3. CASE ret' # ret
    <3>1. ret' = [ret EXCEPT ![t] = "exists"] /\ ~req[t].replace
      BY <1>10, <2>3 DEF GenReadMatch, Done
    <3>2. lba[t] = Probe[req[t].key][itr[t]] /\ itr[t] \in 1 .. MaxCollision
      BY <2>1 DEF Faithful, PutsFind, Slot, IInv, TypeOK
    <3>3. Store[req[t].key] # NoRec
      BY <1>7, <2>1, <3>2, LookupIsValue DEF IInv
    <3>4. req[t].op = "put" /\ seen[t] # {NoRec}
      BY <1>7, <2>1, <3>3 DEF IInv, Located, GenPcs
    <3> QED
      BY <1>7, <1>8, <1>10, <2>1, <3>1, <3>4 DEF Map!PutExists, Map!Answer
  <2> QED
    BY <2>2, <2>3
<1>11. ASSUME NEW t \in Threads, GenReadMismatch(t) \/ GenDrop(t), Observe
       PROVE  Quiet \/ Map!Fail(t)
  <2>1. pc[t] \notin {"idle", "finish"} /\ UNCHANGED <<media, req>>
        /\ (UNCHANGED ret \/ ret' = [ret EXCEPT ![t] = "failed"])
    BY <1>11 DEF GenReadMismatch, GenDrop, NextProbe, Done
  <2> QED
    BY <1>7, <1>8, <1>11, <2>1 DEF Map!Fail, Map!Answer
<1>12. ASSUME NEW t \in Threads, ReadMatch(t), Observe PROVE Map!Read(t)
  <2>1. /\ pc[t] = "read_media" /\ UNCHANGED <<media, req>> /\ Matches(Slot(t), req[t].key)
        /\ ret' = [ret EXCEPT ![t] =
             IF req[t].op = "get" THEN Content(t, media[Slot(t)]) ELSE "exists"]
    BY <1>12 DEF ReadMatch, Done, Expired
  <2>6. Content(t, media[Slot(t)]) = media[Slot(t)].val
    <3>1. req[t] \in Requests /\ Slot(t) \in Slots
      BY <1>7, <2>1, ProbeIsSlot DEF Slot, IInv, TypeOK
    <3>2. /\ media[Slot(t)].val \in Values
          /\ media[Slot(t)].secs = Sectors[media[Slot(t)].val]
      BY <2>1, <3>1 DEF Faithful, Intact, Matches
    <3> DEFINE v == media[Slot(t)].val
    <3>3. ASSUME Measured(req[t]), v \notin Inline PROVE ~(iov_len[t] < Sectors[v])
      <4>1. TRUE \in Exact
        BY <3>1, <3>3, RequestFields, KVOpsAssumption DEF Measured
      <4>2. Sectors[v] <= iov_len[t]
        BY <3>2, <3>3, <4>1 DEF Faithful, Intact
      <4>3. Sectors[v] \in Nat /\ iov_len[t] \in Nat
        BY <3>2, KVOpsAssumption DEF IInv, TypeOK
      <4> QED
        BY <4>2, <4>3
    <3> QED
      BY <3>2, <3>3 DEF Content
  <2>2. req[t].op \in {"get", "exists"}
    BY <2>1 DEF IInv, Located, ReadPcs
  <2>3. Store[req[t].key] = media[Slot(t)].val
    BY <1>7, <2>1 DEF Faithful, ReadsFind
  <2>4. Store[req[t].key] # NoRec
    <3>1. itr[t] \in 1 .. MaxCollision /\ Matches(Probe[req[t].key][itr[t]], req[t].key)
      BY <2>1 DEF Slot, IInv, TypeOK
    <3> QED
      BY <1>7, <2>1, <3>1, LookupIsValue DEF IInv
  <2>5. Map!Answer(t, IF Store[req[t].key] = NoRec THEN "notfound"
                      ELSE IF req[t].op = "get" THEN Store[req[t].key] ELSE "exists")
    BY <2>1, <2>3, <2>4, <2>6 DEF Map!Answer
  <2> QED
    BY <1>7, <1>8, <1>12, <2>1, <2>2, <2>5 DEF Map!Read
<1>13. ASSUME NEW t \in Threads, GetRange(t) \/ ReadMismatch(t), Observe
       PROVE  Quiet \/ Map!Read(t)
  <2>1. pc[t] \in {"get_range", "read_media"} /\ UNCHANGED <<media, req>>
    BY <1>13 DEF GetRange, ReadMismatch, ProbeOn
  <2>2. CASE UNCHANGED ret
    BY <1>8, <1>13, <2>1, <2>2
  <2>3. CASE ret' # ret
    <3>1. /\ itr[t] = MaxCollision /\ ret' = [ret EXCEPT ![t] = "notfound"]
          /\ ~Matches(Slot(t), req[t].key)
      BY <1>13, <2>3 DEF GetRange, ReadMismatch, ProbeOn, Rehash, Done, Matches
    <3>2. NoRec \in seen[t] /\ req[t].op \in {"get", "exists"}
      BY <2>1, <3>1 DEF Faithful, ReadsFind, IInv, Located, ReadPcs
    <3>3. Map!Answer(t, IF NoRec = NoRec THEN "notfound"
                        ELSE IF req[t].op = "get" THEN NoRec ELSE "exists")
      BY <3>1 DEF Map!Answer
    <3> QED
      BY <1>7, <1>8, <1>13, <2>1, <3>2, <3>3 DEF Map!Read
  <2> QED
    BY <2>2, <2>3
<1>14. ASSUME NEW t \in Threads, DelRead(t), Observe PROVE Quiet \/ Map!DeleteAbsent(t)
  <2>1. pc[t] = "del_read" /\ UNCHANGED <<media, req>>
    BY <1>14 DEF DelRead, DelFound, ProbeOn
  <2>2. CASE UNCHANGED ret
    BY <1>8, <1>14, <2>1, <2>2
  <2>3. CASE ret' # ret
    <3>1. /\ itr[t] = MaxCollision /\ ret' = [ret EXCEPT ![t] = "ok"]
          /\ ~Matches(Slot(t), req[t].key)
      BY <1>14, <2>3 DEF DelRead, DelFound, ProbeOn, Rehash, Done
    <3>2. NoRec \in seen[t] /\ req[t].op = "delete"
      BY <2>1, <3>1 DEF Faithful, ReadsFind, IInv, Located, DeletePcs
    <3> QED
      BY <1>7, <1>8, <1>14, <2>1, <3>1, <3>2 DEF Map!DeleteAbsent, Map!Answer
  <2> QED
    BY <2>2, <2>3
<1>15. ASSUME NEW t \in Threads, BlindRead(t) \/ Expire(t) \/ DelReread(t) PROVE FALSE
  <2>1. pc[t] \notin {"expire", "del_reread"}
    BY DEF Faithful, TrimsFind
  <2>2. ~BlindRead(t)
    <3> SUFFICES ASSUME BlindRead(t) PROVE FALSE
      OBVIOUS
    <3>1. req[t] \in Requests /\ req[t].op = "exists"
      BY <1>7 DEF BlindRead
    <3> QED
      BY <3>1, RequestFields DEF BlindRead
  <2> QED
    BY <1>15, <2>1, <2>2 DEF Expire, DelReread, DelFound, ProbeOn
<1>16. ASSUME NEW t \in Threads,
              Contend(t) \/ GenRange(t) \/ GenInsert(t) \/ DelInsert(t), Observe
       PROVE  Quiet
  <2>1. UNCHANGED <<media, req, ret>>
    BY <1>16 DEF Contend, GenRange, GenInsert, DelInsert, Insert, local
  <2> QED
    BY <1>8, <1>16, <2>1
<1>17. ASSUME Tick, Observe PROVE Quiet
  BY <1>8, <1>17 DEF Tick, local
<1>18. CASE UNCHANGED hvars
  <2>1. UNCHANGED <<media, req, ret, seen>>
    BY <1>18 DEF hvars, vars
  <2> QED
    BY <1>2, <2>1, StoreKept DEF Quiet
<1>19. ASSUME NEW t \in Threads, HStep(t) PROVE [Map!Next]_(Map!vars)
  BY <1>2, <1>4, <1>5, <1>6, <1>9, <1>10, <1>11, <1>12, <1>13, <1>14, <1>15, <1>16, <1>19
     DEF HStep, Step, Map!Next
<1>20. ASSUME NEW t \in Threads, HCall(t) PROVE [Map!Next]_(Map!vars)
  BY <1>3, <1>20 DEF HCall, Map!Next
<1> QED
  BY <1>2, <1>17, <1>18, <1>19, <1>20 DEF HNext

-----------------------------------------------------------------------------
(***************************************************************************)
(* Calls that follow each other, of any keys and probes.                   *)
(***************************************************************************)
\* A put replaces what it found only if it may, and a get has passed only slots of
\* other keys.
Rightful ==
    \A t \in Threads :
        /\ pc[t] \in {"gen_insert", "put_write"} => media[lba[t]] = NoRec \/ req[t].replace
        /\ pc[t] \in {"get_range", "read_media"} =>
             \A j \in 1 .. MaxCollision : j < itr[t] => ~Matches(Probe[req[t].key][j], req[t].key)
        /\ pc[t] # "expire"

\* The inductive invariant of the refinement by calls that follow each other.
SeqMapInv == SeqInv /\ Answers /\ Watching /\ Intact /\ Rightful

\* Where a call that is alone is after each of its steps.
LEMMA RightfulStep ==
    ASSUME "delete" \notin Ops, \A t, u \in Threads : t = u, ~ExpiryOn,
           "read_media" \in Failing => "exists" \notin Ops, SeqMapInv, [Next]_vars
    PROVE  Rightful'
<1> USE DEF SeqMapInv, SeqInv, LockInv, IInv
<1> DEFINE Fine(t) ==
             /\ pc[t] \in {"gen_insert", "put_write"} => media[lba[t]] = NoRec \/ req[t].replace
             /\ pc[t] \in {"get_range", "read_media"} =>
                  \A j \in 1 .. MaxCollision :
                      j < itr[t] => ~Matches(Probe[req[t].key][j], req[t].key)
             /\ pc[t] # "expire"
<1>1. ASSUME NEW t \in Threads, Fine(t)' PROVE Rightful'
  BY <1>1 DEF Rightful
<1>2. \A t \in Threads : Fine(t)
  BY DEF Rightful
<1>3. ASSUME NEW t \in Threads, NEW r \in Requests, Call(t, r) PROVE Fine(t)'
  <2>1. pc'[t] \in {"gen_range", "del_read", "get_range", "read_media"} /\ itr'[t] = 1
    BY <1>3 DEF Call, Begin, Goto, TypeOK
  <2>2. ~(\E j \in 1 .. MaxCollision : j < itr'[t])
    BY <2>1, KVOpsAssumption
  <2> QED
    BY <2>1, <2>2
<1>4. ASSUME NEW t \in Threads, GenRange(t) \/ GenInsert(t) PROVE Fine(t)'
  <2>1. /\ pc[t] \in {"gen_range", "gen_insert"} /\ UNCHANGED <<media, lba, req>>
        /\ pc'[t] \in {"gen_insert", "gen_read", "put_write"}
        /\ pc[t] = "gen_range" => media[lba[t]] = NoRec \/ pc'[t] = "gen_read"
    BY <1>4 DEF GenRange, GenInsert, Insert, Goto, TypeOK, local
  <2> QED
    BY <1>2, <2>1
<1>5. ASSUME NEW t \in Threads, GenReadMatch(t) PROVE Fine(t)'
  <2>1. /\ UNCHANGED <<media, lba, req>>
        /\ pc'[t] = "finish" \/ (pc'[t] \in {"gen_insert", "put_write"} /\ req[t].replace)
    BY <1>5 DEF GenReadMatch, LockFirst, Done, Goto, TypeOK, Expired
  <2> QED
    BY <2>1
<1>6. ASSUME NEW t \in Threads, ReadMatch(t) PROVE Fine(t)'
  <2>1. pc'[t] = "finish"
    BY <1>6 DEF ReadMatch, Done, Goto, TypeOK, Expired
  <2> QED
    BY <2>1
<1>7. ASSUME NEW t \in Threads, pc[t] \in {"get_range", "read_media"},
             UNCHANGED <<media, req>>, ~Matches(Slot(t), req[t].key), Rehash(t, "notfound")
      PROVE  Fine(t)'
  <2>1. pc[t] \in {"get_range", "read_media"} /\ UNCHANGED <<media, req>>
        /\ ~Matches(Slot(t), req[t].key)
    BY <1>7
  <2>2. CASE itr[t] < MaxCollision
    <3>1. itr'[t] = itr[t] + 1 /\ pc'[t] \in {"get_range", "read_media"}
      BY <1>7, <2>1, <2>2, KVOpsAssumption DEF Rehash, TypeOK
    <3>2. ASSUME NEW j \in 1 .. MaxCollision, j < itr'[t]
          PROVE  ~Matches(Probe[req[t].key][j], req[t].key)
      <4>1. j < itr[t] \/ j = itr[t]
        BY <3>1, <3>2, KVOpsAssumption DEF TypeOK
      <4> QED
        BY <1>2, <2>1, <4>1 DEF Slot
    <3> QED
      BY <2>1, <3>1, <3>2 DEF Matches
  <2>3. CASE itr[t] = MaxCollision
    <3>1. pc'[t] = "finish"
      BY <1>7, <2>3, KVOpsAssumption DEF Rehash, Done, Goto, TypeOK
    <3> QED
      BY <3>1
  <2> QED
    BY <1>7, <2>2, <2>3 DEF Rehash
<1>13. ASSUME NEW t \in Threads, ReadMismatch(t) \/ (GetRange(t) /\ media[Slot(t)] = NoRec)
       PROVE  Fine(t)'
  <2>1. /\ pc[t] \in {"get_range", "read_media"} /\ UNCHANGED <<media, req>>
        /\ ~Matches(Slot(t), req[t].key) /\ Rehash(t, "notfound")
    BY <1>13 DEF ReadMismatch, ProbeOn, GetRange, Matches
  <2> QED
    BY <1>7, <2>1
<1>14. ASSUME NEW t \in Threads, GetRange(t), media[Slot(t)] # NoRec PROVE Fine(t)'
  <2>1. /\ pc[t] = "get_range" /\ pc'[t] = "read_media" /\ UNCHANGED <<media, req, itr>>
    BY <1>14 DEF GetRange, Goto, TypeOK
  <2> QED
    BY <1>2, <2>1 DEF Matches
<1>8. ASSUME NEW t \in Threads, BlindRead(t) PROVE FALSE
  <2>1. req[t] \in Requests /\ req[t].op = "exists" /\ "read_media" \in Failing
    BY <1>8 DEF BlindRead, Located, TypeOK
  <2> QED
    BY <2>1, RequestFields
<1>9. ASSUME NEW t \in Threads,
             \/ GenReadMismatch(t) \/ GenDrop(t) \/ PutWrite(t) \/ Expire(t)
             \/ DeviceError(t) \/ Finish(t)
      PROVE  Fine(t)'
  <2>1. pc'[t] \in {"idle", "finish", "gen_drop", "gen_range"}
    BY <1>9 DEF GenReadMismatch, GenDrop, NextProbe, PutWrite, Expire, DeviceError, Finish,
                Done, Goto, TypeOK
  <2> QED
    BY <2>1
<1>10. ASSUME NEW t \in Threads, Contend(t) PROVE Fine(t)'
  BY <1>2, <1>10 DEF Contend
<1>11. ASSUME NEW t \in Threads, DelRead(t) \/ DelInsert(t) \/ DelReread(t) \/ DelTrim(t)
       PROVE  FALSE
  BY <1>11, NoDelete DEF DelRead, DelInsert, DelReread, DelTrim, DelFound, ProbeOn, Insert, DeletePcs
<1>12. CASE Tick \/ UNCHANGED vars
  <2>1. UNCHANGED <<media, pc, req, itr, lba>>
    BY <1>12 DEF Tick, vars, local
  <2> QED
    BY <2>1 DEF Rightful, Matches
<1> HIDE DEF Fine
<1> QED
  BY <1>1, <1>3, <1>4, <1>5, <1>6, <1>8, <1>9, <1>10, <1>11, <1>12, <1>13, <1>14 DEF Next, Step

\* A put that means to take a free slot has a key that is not stored.
LEMMA FreeIsAbsent ==
    ASSUME SeqInv, NEW t \in Threads, pc[t] = "put_write", media[lba[t]] = NoRec
    PROVE  Lookup(req[t].key) = NoRec
<1> DEFINE k == req[t].key
<1>1. k \in Keys
  <2>1. req[t] \in Requests
    BY DEF SeqInv, LockInv, IInv, TypeOK, Located
  <2> QED
    BY <2>1, RequestFields
<1>2. /\ lba[t] = Probe[k][itr[t]] /\ itr[t] \in 1 .. MaxCollision
      /\ \A j \in 1 .. MaxCollision : j < itr[t] => media[Probe[k][j]].key # k
  BY DEF SeqInv, LockInv, IInv, TypeOK, Putting, GenPcs, Slot
<1>3. ASSUME NEW i \in 1 .. MaxCollision, Matches(Probe[k][i], k) PROVE FALSE
  <2> DEFINE s == Probe[k][i]
  <2>1. s \in Slots /\ media[s] # NoRec /\ media[s].key = k
    BY <1>1, <1>3, ProbeIsSlot DEF Matches
  <2>2. ASSUME NEW j \in 1 .. itr[t] PROVE Probe[k][j] # s
    <3>1. j \in 1 .. MaxCollision /\ (j < itr[t] \/ j = itr[t])
      BY <1>2, KVOpsAssumption
    <3> QED
      BY <1>2, <2>1, <3>1
  <2>3. media[Probe[k][itr[t]]] # NoRec
    BY <1>2, <2>1, <2>2 DEF SeqInv, Reached
  <2> QED
    BY <1>2, <2>3
<1> QED
  BY <1>3, LookupNone

\* So the steps of calls that follow each other are steps of the map.
LEMMA SeqFaithful ==
    ASSUME "delete" \notin Ops, SeqMapInv
    PROVE  Faithful
<1> USE DEF SeqMapInv, SeqInv, LockInv, IInv
<1>1. PutsFind
  <2> SUFFICES ASSUME NEW t \in Threads, pc[t] \in {"gen_read", "put_write"}
               PROVE  /\ lba[t] = Slot(t) /\ Passed(t)
                      /\ pc[t] = "put_write" =>
                           /\ media[lba[t]] = NoRec \/ media[lba[t]].key = req[t].key
                           /\ req[t].replace \/ Lookup(req[t].key) = NoRec
    BY DEF PutsFind
  <2>1. lba[t] = Slot(t) /\ Passed(t)
    BY DEF Putting, GenPcs, Passed
  <2>2. pc[t] = "put_write" => media[lba[t]] = NoRec \/ media[lba[t]].key = req[t].key
    BY DEF Putting
  <2>3. pc[t] = "put_write" => req[t].replace \/ Lookup(req[t].key) = NoRec
    BY FreeIsAbsent DEF Rightful
  <2> QED
    BY <2>1, <2>2, <2>3
<1>2. ReadsFind
  <2> SUFFICES ASSUME NEW t \in Threads, pc[t] \in {"get_range", "read_media", "del_read"}
               PROVE  IF Matches(Slot(t), req[t].key)
                      THEN Lookup(req[t].key) = media[Slot(t)].val
                      ELSE itr[t] = MaxCollision => NoRec \in seen[t]
    BY DEF ReadsFind
  <2>1. pc[t] \in {"get_range", "read_media"} /\ itr[t] \in 1 .. MaxCollision
    BY NoDelete DEF DeletePcs, TypeOK
  <2>2. \A j \in 1 .. MaxCollision : j < itr[t] => ~Matches(Probe[req[t].key][j], req[t].key)
    BY <2>1 DEF Rightful
  <2>3. CASE Matches(Slot(t), req[t].key)
    BY <2>1, <2>2, <2>3, LookupFirst DEF Slot
  <2>4. CASE ~Matches(Slot(t), req[t].key) /\ itr[t] = MaxCollision
    <3>1. \A i \in 1 .. MaxCollision : ~Matches(Probe[req[t].key][i], req[t].key)
      BY <2>2, <2>4, KVOpsAssumption DEF Slot
    <3>2. Lookup(req[t].key) = NoRec
      BY <3>1, LookupNone
    <3>3. Store[req[t].key] \in seen[t] /\ req[t].key \in Keys
      BY <2>1, UnderWay DEF Watching
    <3> QED
      BY <2>4, <3>2, <3>3 DEF Store
  <2> QED
    BY <2>3, <2>4
<1>3. TrimsFind
  BY NoDelete DEF TrimsFind, DeletePcs, Rightful
<1> QED
  BY <1>1, <1>2, <1>3 DEF Faithful

\* At first nothing is stored and no call is there.
LEMMA InitObserved == HInit => Answers /\ Watching /\ Intact /\ Map!Init
<1> SUFFICES ASSUME HInit PROVE Answers /\ Watching /\ Intact /\ Map!Init
  OBVIOUS
<1> USE DEF HInit, Init, Opened
<1>1. Answers /\ Watching /\ Intact
  BY KVOpsAssumption DEF Answers, Watching, Intact
<1>2. ASSUME NEW k \in Keys PROVE Lookup(k) = NoRec
  <2>1. \A i \in 1 .. MaxCollision : ~Matches(Probe[k][i], k)
    BY ProbeIsSlot DEF Matches
  <2> QED
    BY <2>1, LookupNone
<1> QED
  BY <1>1, <1>2 DEF Map!Init, Store

\* With calls of put, get and exists that follow each other, of any keys, probes and
\* values of one length, the store is a map: every call takes effect, and gets the
\* answer of the map, in one of its steps, whichever slots of other keys it met.
THEOREM ImplementsMapInSequence ==
    ASSUME "delete" \notin Ops, \A t, u \in Threads : t = u, ~ExpiryOn,
           "read_media" \in Failing => "exists" \notin Ops, SameLengths
    PROVE  HSpec => ImplementsMap
<1>1. HInit => SeqMapInv /\ Map!Init
  <2>1. ASSUME HInit PROVE Rightful
    BY <2>1 DEF HInit, Init, Opened, Rightful
  <2> QED
    BY <2>1, InitObserved, InitSeqInv DEF SeqMapInv, HInit
<1>2. [HNext]_hvars => [Next]_vars /\ (UNCHANGED hvars \/ Observe)
  BY DEF HNext, HStep, HCall, hvars, Next
<1>3. SeqMapInv /\ [HNext]_hvars => SeqMapInv'
  <2> SUFFICES ASSUME SeqMapInv, [HNext]_hvars PROVE SeqMapInv'
    OBVIOUS
  <2>1. IInv /\ Answers /\ Watching /\ Intact
    BY DEF SeqMapInv, SeqInv, LockInv
  <2>2. SeqInv' /\ Answers' /\ Intact' /\ Rightful'
    BY <1>2, <2>1, SeqInductive, AnswersStep, IntactStep, RightfulStep DEF SeqMapInv
  <2>3. CASE Observe
    BY <1>2, <2>1, <2>2, <2>3, WatchingStep DEF SeqMapInv
  <2>4. CASE UNCHANGED hvars
    <3>1. UNCHANGED <<req, ret, seen>> /\ Store' = Store
      BY <2>4, StoreKept DEF hvars, vars
    <3>2. Watching'
      BY <2>1, <3>1 DEF Watching
    <3> QED
      BY <2>2, <3>2 DEF SeqMapInv
  <2> QED
    BY <1>2, <2>3, <2>4
<1>4. SeqMapInv /\ [HNext]_hvars => [Map!Next]_(Map!vars)
  BY SeqFaithful, Simulation DEF SeqMapInv, SeqInv, LockInv
<1> QED
  BY <1>1, <1>3, <1>4, PTL DEF HSpec, ImplementsMap, Map!Spec

-----------------------------------------------------------------------------
(***************************************************************************)
(* Calls that overlap, of keys that hash to different slots.               *)
(***************************************************************************)
\* What the callers and the store of this part are: no two keys have the same hash, a
\* delete has no company, and writes do not fail.
KeysApart ==
    /\ \A j, k \in Keys : j # k => Probe[j][1] # Probe[k][1]
    /\ "delete" \in Exclusive
    /\ "put_write" \notin Failing

\* Where they are those of a map a put may besides always replace, nothing expires, and
\* kv_exists is not used if reads fail.
FirstApart ==
    /\ KeysApart
    /\ Replace \subseteq {TRUE} /\ ~ExpiryOn
    /\ "read_media" \in Failing => "exists" \notin Ops

\* Every record is at the first slot of its key.
AtFirst == \A s \in Slots : media[s] # NoRec => s = Probe[media[s].key][1]

\* A call of delete has no company.
DeletesAlone ==
    \A t, u \in Threads :
        t # u /\ req[t] # NoRequest /\ req[u] # NoRequest => req[t].op # "delete"

\* Where a call can be, whether it has its LBA, and what is there.  Whoever waits for an
\* LBA finds it written: its holder means to write, or has written, the record of the
\* key that both are putting.
At(t) ==
    /\ pc[t] \notin {"gen_drop", "del_reread"}
    /\ pc[t] \in {"idle", "gen_range", "gen_insert", "del_read", "del_insert"} \cup ReadPcs =>
         ~held[t]
    /\ pc[t] \in {"put_write", "del_trim"} => held[t]
    /\ pc[t] \in GenPcs => itr[t] = 1 /\ lba[t] = Probe[req[t].key][1]
    /\ pc[t] = "gen_read" => media[lba[t]] # NoRec
    /\ pc[t] = "finish" /\ held[t] /\ req[t].op # "delete" => media[lba[t]] # NoRec
    /\ pc[t] \in {"del_insert", "del_trim"} => Matches(lba[t], req[t].key)
    /\ trim_len[t] # 0 => pc[t] \in GenPcs \cup {"finish"} /\ media[lba[t]] # NoRec
    /\ wait[t] =>
         /\ pc[t] = "gen_insert"
         /\ \/ media[lba[t]] # NoRec
            \/ \E u \in Threads : held[u] /\ lba[u] = lba[t] /\ pc[u] = "put_write"

Overlapping == \A t \in Threads : At(t)

\* The inductive invariant of calls that overlap.
ApartInv == IInv /\ SafeListExact /\ Answers /\ DeletesAlone /\ AtFirst /\ Overlapping

\* A call that reads on has seen its key absent, and finds no record expired.
ReadsOn(t) ==
    /\ pc[t] \in {"get_range", "read_media", "del_read"} => itr[t] = 1 \/ NoRec \in seen[t]
    /\ pc[t] # "expire"

\* The inductive invariant of their refinement.
ConcInv == ApartInv /\ Watching /\ Intact /\ \A t \in Threads : ReadsOn(t)

\* A step of a call changes what is local to no other call.
LEMMA OthersKeptAt ==
    ASSUME NEW P, Typed(P), NEW t \in Threads, Step(t) \/ \E r \in Requests : Call(t, r),
           NEW u \in Threads, u # t
    PROVE  /\ pc'[u] = pc[u] /\ req'[u] = req[u] /\ itr'[u] = itr[u] /\ lba'[u] = lba[u]
           /\ held'[u] = held[u] /\ wait'[u] = wait[u]
           /\ trim_len'[u] = trim_len[u] /\ ret'[u] = ret[u]
<1> USE DEF Typed, Goto, Done, local
<1>1. CASE \E r \in Requests : Call(t, r)
  BY <1>1 DEF Call, Begin
<1>2. CASE Contend(t) \/ GenRange(t) \/ GenInsert(t) \/ DelInsert(t) \/ GenReadMatch(t)
  BY <1>2 DEF Contend, GenRange, GenInsert, DelInsert, Insert, GenReadMatch
<1>3. CASE GenReadMismatch(t) \/ GenDrop(t)
  BY <1>3 DEF GenReadMismatch, GenDrop, NextProbe
<1>4. CASE \/ PutWrite(t) \/ GetRange(t) \/ ReadMatch(t) \/ ReadMismatch(t)
           \/ BlindRead(t) \/ Expire(t)
  BY <1>4 DEF PutWrite, GetRange, ReadMatch, ReadMismatch, ProbeOn, BlindRead, Rehash, Expire
<1>5. CASE DelRead(t) \/ DelReread(t) \/ DelTrim(t) \/ DeviceError(t) \/ Finish(t)
  BY <1>5 DEF DelRead, DelReread, DelFound, ProbeOn, Rehash, DelTrim, DeviceError, Finish
<1> QED
  BY <1>1, <1>2, <1>3, <1>4, <1>5 DEF Step

LEMMA OthersKept ==
    ASSUME TypeOK, NEW t \in Threads, Step(t) \/ \E r \in Requests : Call(t, r),
           NEW u \in Threads, u # t
    PROVE  /\ pc'[u] = pc[u] /\ req'[u] = req[u] /\ itr'[u] = itr[u] /\ lba'[u] = lba[u]
           /\ held'[u] = held[u] /\ wait'[u] = wait[u] /\ trim_len'[u] = trim_len[u]
  BY TypedAtPcs, OthersKeptAt

\* Only puts and deletes change what is stored.
LEMMA MediaStep ==
    ASSUME NEW t \in Threads, Step(t) \/ \E r \in Requests : Call(t, r)
    PROVE  UNCHANGED media \/ PutWrite(t) \/ DelTrim(t)
<1>1. ASSUME NEW r \in Requests, Call(t, r) PROVE UNCHANGED media
  BY <1>1 DEF Call, Begin
<1>2. CASE Step(t) /\ ~PutWrite(t) /\ ~DelTrim(t)
  BY <1>2 DEF Step, Contend, GenRange, GenInsert, GenReadMatch, GenReadMismatch,
     GenDrop, GetRange, ReadMatch, ReadMismatch, BlindRead, Expire, DelRead, DelInsert, DelReread,
     DelFound, ProbeOn, Insert, DeviceError, Finish
<1> QED
  BY <1>1, <1>2

\* What a call that goes on has seen it has seen for good.
LEMMA SeenGrows ==
    ASSUME Observe, NEW t \in Threads, req[t] # NoRequest, req'[t] = req[t]
    PROVE  seen[t] \subseteq seen'[t]
  BY DEF Observe

\* The first slot of a key is where the key is found, and has no other.
LEMMA FirstSlot ==
    ASSUME KeysApart, IInv, AtFirst, NEW k \in Keys
    PROVE  /\ Probe[k][1] \in Slots
           /\ media[Probe[k][1]] # NoRec => media[Probe[k][1]].key = k
           /\ \A s \in Slots : Matches(s, k) => s = Probe[k][1]
           /\ ~Matches(Probe[k][1], k) => Lookup(k) = NoRec
           /\ Matches(Probe[k][1], k) => Lookup(k) = media[Probe[k][1]].val
<1>1. 1 \in 1 .. MaxCollision /\ \A j \in 1 .. MaxCollision : ~(j < 1)
  BY KVOpsAssumption
<1>2. Probe[k][1] \in Slots
  BY <1>1, ProbeIsSlot
<1>3. ASSUME media[Probe[k][1]] # NoRec PROVE media[Probe[k][1]].key = k
  <2>1. media[Probe[k][1]] \in Record
    BY <1>2, <1>3 DEF IInv, TypeOK
  <2>2. media[Probe[k][1]].key \in Keys
    BY <2>1 DEF Record
  <2> QED
    BY <1>2, <1>3, <2>2 DEF AtFirst, KeysApart
<1>4. \A s \in Slots : Matches(s, k) => s = Probe[k][1]
  BY DEF AtFirst, Matches
<1>5. ASSUME ~Matches(Probe[k][1], k) PROVE Lookup(k) = NoRec
  <2>1. \A i \in 1 .. MaxCollision : ~Matches(Probe[k][i], k)
    BY <1>4, <1>5, ProbeIsSlot
  <2> QED
    BY <2>1, LookupNone
<1>6. ASSUME Matches(Probe[k][1], k) PROVE Lookup(k) = media[Probe[k][1]].val
  BY <1>1, <1>6, LookupFirst
<1> QED
  BY <1>2, <1>3, <1>4, <1>5, <1>6

\* So the steps of calls that overlap are steps of the map.
LEMMA ConcFaithful ==
    ASSUME FirstApart, ConcInv
    PROVE  Faithful
<1> USE DEF ConcInv, ApartInv, Overlapping, At
<1>1. ASSUME NEW t \in Threads, pc[t] \notin {"idle", "finish"}
      PROVE  /\ req[t] \in Requests /\ req[t].key \in Keys /\ itr[t] \in 1 .. MaxCollision
             /\ Store[req[t].key] \in seen[t] /\ Store[req[t].key] = Lookup(req[t].key)
  BY <1>1, UnderWay DEF Watching, Store, IInv, TypeOK
<1>2. ASSUME NEW t \in Threads, pc[t] \in GenPcs
      PROVE  /\ lba[t] = Slot(t) /\ Passed(t)
             /\ media[lba[t]] = NoRec \/ media[lba[t]].key = req[t].key
             /\ req[t].replace
  <2>1. itr[t] = 1 /\ lba[t] = Probe[req[t].key][1] /\ req[t].op = "put"
    BY <1>2 DEF IInv, Located
  <2>2. req[t] \in Requests /\ req[t].key \in Keys
    BY <1>1, <1>2 DEF GenPcs
  <2>3. req[t].replace
    BY <2>1, <2>2 DEF Requests, FirstApart
  <2>4. \A j \in 1 .. MaxCollision : ~(j < 1)
    BY KVOpsAssumption
  <2> QED
    BY <2>1, <2>2, <2>3, <2>4, FirstSlot DEF Slot, Passed, FirstApart
<1>3. PutsFind
  BY <1>2 DEF PutsFind, GenPcs
<1>4. ReadsFind
  <2> SUFFICES ASSUME NEW t \in Threads, pc[t] \in {"get_range", "read_media", "del_read"}
               PROVE  IF Matches(Slot(t), req[t].key)
                      THEN Lookup(req[t].key) = media[Slot(t)].val
                      ELSE itr[t] = MaxCollision => NoRec \in seen[t]
    BY DEF ReadsFind
  <2>1. req[t].key \in Keys /\ Slot(t) \in Slots /\ Lookup(req[t].key) \in seen[t]
    BY <1>1, ProbeIsSlot DEF Slot
  <2>2. itr[t] = 1 \/ NoRec \in seen[t]
    BY DEF ReadsOn
  <2> QED
    BY <2>1, <2>2, FirstSlot DEF Slot, FirstApart
<1>5. TrimsFind
  <2> SUFFICES ASSUME NEW t \in Threads
               PROVE  /\ pc[t] \notin {"expire", "del_reread"}
                      /\ pc[t] = "del_trim" =>
                           /\ Matches(lba[t], req[t].key)
                           /\ \A s \in ProbeSlots(req[t].key) :
                                Matches(s, req[t].key) => s = lba[t]
    BY DEF TrimsFind
  <2>1. ASSUME pc[t] = "del_trim"
        PROVE  \A s \in ProbeSlots(req[t].key) : Matches(s, req[t].key) => s = lba[t]
    <3>1. req[t].key \in Keys /\ lba[t] \in Slots /\ Matches(lba[t], req[t].key)
      BY <1>1, <2>1 DEF IInv, TypeOK
    <3>2. ProbeSlots(req[t].key) \subseteq Slots
      BY <3>1, ProbeIsSlot DEF ProbeSlots
    <3> QED
      BY <3>1, <3>2, FirstSlot DEF FirstApart
  <2> QED
    BY <2>1 DEF ReadsOn
<1> QED
  BY <1>3, <1>4, <1>5 DEF Faithful

\* The request of a call is that of its place.
LEMMA CallOf ==
    ASSUME IInv, NEW t \in Threads, pc[t] # "idle"
    PROVE  /\ req[t] # NoRequest /\ req[t] \in Requests /\ req[t].key \in Keys
           /\ pc[t] \in GenPcs => req[t].op = "put"
           /\ pc[t] \in ReadPcs => req[t].op \in {"get", "exists"}
           /\ pc[t] \in DeletePcs => req[t].op = "delete"
<1>1. req[t] # NoRequest /\ req[t] \in Requests
  BY DEF IInv, Located, TypeOK
<1> QED
  BY <1>1, RequestFields DEF IInv, Located

\* Nobody is with a delete.
LEMMA NoCompany ==
    ASSUME IInv, DeletesAlone, NEW t \in Threads, NEW u \in Threads, u # t,
           pc[t] \in DeletePcs
    PROVE  pc[u] = "idle"
<1>1. req[t] # NoRequest /\ req[t].op = "delete"
  BY CallOf DEF DeletePcs
<1> QED
  BY <1>1 DEF DeletesAlone, IInv, Located

\* A put under way is of the key that its slot has, if the slot has any.
LEMMA PutsMatch ==
    ASSUME KeysApart, ApartInv, NEW t \in Threads, pc[t] \in GenPcs, media[lba[t]] # NoRec
    PROVE  Matches(lba[t], req[t].key)
<1>1. req[t].key \in Keys /\ lba[t] = Probe[req[t].key][1]
  BY CallOf DEF ApartInv, Overlapping, At, GenPcs
<1> QED
  BY <1>1, FirstSlot DEF ApartInv, Matches

\* A put leaves a record of its key, if not always the one that it was asked for.
LEMMA ApartWrite ==
    ASSUME KeysApart, ApartInv, NEW t \in Threads, PutWrite(t)
    PROVE  /\ media'[lba[t]] # NoRec /\ media'[lba[t]].key = req[t].key
           /\ \A s \in Slots : s # lba[t] => media'[s] = media[s]
<1> USE DEF ApartInv, IInv, TypeOK
<1>1. /\ pc[t] = "put_write"
      /\ media' = [media EXCEPT ![lba[t]] = Written(media[lba[t]], req[t], trim_len[t])]
  BY DEF PutWrite
<1>2. req[t] \in Requests /\ req[t].op = "put"
  BY <1>1, CallOf DEF GenPcs, ReadPcs
<1>3. trim_len[t] # 0 => media[lba[t]] # NoRec
  BY DEF Overlapping, At
<1>4. NewRecord(req[t]) \in Record /\ NewRecord(req[t]).key = req[t].key
  BY <1>2, RequestFields, KVOpsAssumption DEF NewRecord, Record
<1>5. /\ [NewRecord(req[t]) EXCEPT !.val = Torn] \in Record
      /\ [NewRecord(req[t]) EXCEPT !.val = Torn].key = req[t].key
  BY <1>4 DEF Record
<1>6. ASSUME media[lba[t]] # NoRec
      PROVE  /\ [media[lba[t]] EXCEPT !.val = Torn] \in Record
             /\ [media[lba[t]] EXCEPT !.val = Torn].key = req[t].key
  <2>1. media[lba[t]] \in Record
    BY <1>6
  <2>2. media[lba[t]].key = req[t].key
    BY <1>1, <1>6, PutsMatch DEF GenPcs, Matches
  <2> QED
    BY <2>1, <2>2 DEF Record
<1>7. trim_len[t] <= Sectors[req[t].val] \/ media[lba[t]] # NoRec
  <2>1. Sectors[req[t].val] \in Nat
    BY <1>2, RequestFields, KVOpsAssumption
  <2> QED
    BY <1>3, <2>1
<1> DEFINE new == Written(media[lba[t]], req[t], trim_len[t])
<1>8. new # NoRec /\ new.key = req[t].key
  BY <1>4, <1>5, <1>6, <1>7, NoneAreNot DEF Written
<1>9. media' = [media EXCEPT ![lba[t]] = new] /\ lba[t] \in Slots
  BY <1>1
<1> HIDE DEF new
<1> QED
  BY <1>8, <1>9

\* A step of another call leaves a call where it can be.
LEMMA AtOther ==
    ASSUME KeysApart, ApartInv, NEW t \in Threads, Step(t) \/ \E r \in Requests : Call(t, r),
           NEW u \in Threads, u # t
    PROVE  At(u)'
<1> USE DEF ApartInv, Overlapping, At
<1>1. /\ pc'[u] = pc[u] /\ req'[u] = req[u] /\ itr'[u] = itr[u] /\ lba'[u] = lba[u]
      /\ held'[u] = held[u] /\ wait'[u] = wait[u] /\ trim_len'[u] = trim_len[u]
  BY OthersKept DEF IInv
<1>2. At(u)
  OBVIOUS
<1>3. CASE DelTrim(t)
  <2>1. pc[u] = "idle"
    BY <1>3, NoCompany DEF DelTrim, DeletePcs
  <2> QED
    BY <1>1, <1>2, <2>1 DEF GenPcs, ReadPcs
<1>4. CASE ~DelTrim(t)
  <2>1. \A s \in Slots : media[s] # NoRec => media'[s] # NoRec
    <3>1. CASE PutWrite(t)
      BY <3>1, ApartWrite
    <3>2. CASE UNCHANGED media
      BY <3>2
    <3> QED
      BY <1>4, <3>1, <3>2, MediaStep
  <2>2. lba[u] \in Slots
    BY DEF IInv, TypeOK
  <2>3. pc[u] \in {"del_insert", "del_trim"} => UNCHANGED media
    <3> SUFFICES ASSUME pc[u] \in {"del_insert", "del_trim"}, ~UNCHANGED media PROVE FALSE
      OBVIOUS
    <3>1. PutWrite(t)
      BY <1>4, MediaStep
    <3>2. pc[t] = "idle"
      BY NoCompany DEF DeletePcs
    <3> QED
      BY <3>1, <3>2 DEF PutWrite
  <2>4. pc[u] \in {"del_insert", "del_trim"} => Matches(lba[u], req[u].key)'
    BY <1>1, <1>2, <2>3 DEF Matches
  <2>6. ASSUME wait[u]
        PROVE  \/ media'[lba[u]] # NoRec
               \/ \E w \in Threads : held'[w] /\ lba'[w] = lba[u] /\ pc'[w] = "put_write"
    <3>1. CASE media[lba[u]] # NoRec
      BY <2>1, <2>2, <3>1
    <3>2. ASSUME NEW w \in Threads, held[w], lba[w] = lba[u], pc[w] = "put_write", w # t
          PROVE  held'[w] /\ lba'[w] = lba[u] /\ pc'[w] = "put_write"
      BY <3>2, OthersKept DEF IInv
    <3>3. ASSUME held[t], lba[t] = lba[u], pc[t] = "put_write" PROVE media'[lba[u]] # NoRec
      <4>1. PutWrite(t)
        BY <3>3 DEF Call, Begin, Step, Contend, GenRange, GenInsert, GenReadMatch,
           GenReadMismatch, GenDrop, GetRange, ReadMatch, ReadMismatch, BlindRead, Expire, DelRead,
           DelInsert, DelReread, DelTrim, DelFound, ProbeOn, Insert, DeviceError, Finish, KeysApart
      <4> QED
        BY <3>3, <4>1, ApartWrite
    <3> QED
      BY <1>2, <2>6, <3>1, <3>2, <3>3
  <2> QED
    BY <1>1, <1>2, <2>1, <2>2, <2>4, <2>6
<1> QED
  BY <1>3, <1>4

\* A step of a call leads to where a call can be.
LEMMA AtSelf ==
    ASSUME KeysApart, ApartInv, NEW t \in Threads, Step(t)
    PROVE  At(t)'
<1> USE DEF ApartInv, Overlapping, At, IInv, TypeOK, Goto, Done, local
<1>1. At(t)
  OBVIOUS
<1>2. CASE Contend(t)
  <2>1. /\ pc[t] \in {"gen_insert", "del_insert"} /\ lba[t] \in safe
        /\ UNCHANGED <<media, pc, req, itr, lba, held, trim_len>>
    BY <1>2 DEF Contend
  <2>2. PICK u \in Threads : held[u] /\ lba[u] = lba[t]
    BY <2>1 DEF SafeListExact
  <2>3. u # t /\ pc[u] # "idle"
    BY <2>1, <2>2
  <2>4. pc[t] = "gen_insert" /\ pc[u] \notin DeletePcs
    BY <2>1, <2>3, NoCompany DEF DeletePcs
  <2>5. req[u].op # "delete"
    <3>1. req[u] # NoRequest /\ req[t] # NoRequest
      BY <2>3, <2>4, CallOf
    <3> QED
      BY <2>3, <3>1 DEF DeletesAlone
  <2>6. pc[u] \in {"gen_read", "put_write", "finish"}
    BY <2>2, <2>3, <2>4 DEF Pcs, ReadPcs, GenPcs, DeletePcs
  <2>7. media[lba[t]] # NoRec \/ pc[u] = "put_write"
    BY <2>2, <2>5, <2>6
  <2> QED
    BY <1>1, <2>1, <2>2, <2>4, <2>7 DEF GenPcs, ReadPcs
<1>3. CASE GenRange(t)
  <2>1. /\ pc[t] = "gen_range" /\ UNCHANGED <<media, req, itr, lba, held, wait, trim_len>>
        /\ pc'[t] = IF media[lba[t]] = NoRec THEN "gen_insert" ELSE "gen_read"
    BY <1>3 DEF GenRange
  <2> QED
    BY <1>1, <2>1 DEF GenPcs, ReadPcs
<1>4. CASE GenInsert(t)
  <2>1. /\ pc[t] = "gen_insert" /\ lba[t] \notin safe
        /\ UNCHANGED <<media, req, itr, lba, trim_len>>
        /\ pc'[t] = (IF wait[t] THEN "gen_read" ELSE "put_write") /\ held'[t] /\ ~wait'[t]
    BY <1>4 DEF GenInsert, Insert
  <2>2. wait[t] => media[lba[t]] # NoRec
    BY <1>1, <2>1 DEF SafeListExact
  <2> QED
    BY <1>1, <2>1, <2>2 DEF GenPcs, ReadPcs
<1>5. CASE GenReadMatch(t)
  <2>1. /\ pc[t] = "gen_read" /\ media[lba[t]] # NoRec
        /\ UNCHANGED <<media, req, itr, lba, held, wait>>
    BY <1>5 DEF GenReadMatch, Matches
  <2>2. pc'[t] = "finish" \/ pc'[t] = IF held[t] THEN "put_write" ELSE "gen_insert"
    BY <1>5 DEF GenReadMatch, LockFirst
  <2>3. ~wait[t]
    BY <1>1, <2>1
  <2> QED
    BY <1>1, <2>1, <2>2, <2>3 DEF GenPcs, ReadPcs
<1>6. CASE GenReadMismatch(t) \/ GenDrop(t)
  <2>1. pc[t] = "gen_read" /\ ~Matches(lba[t], req[t].key)
    BY <1>1, <1>6 DEF GenReadMismatch, GenDrop
  <2> QED
    BY <1>1, <2>1, PutsMatch DEF GenPcs, ReadPcs
<1>7. CASE PutWrite(t)
  <2>1. media'[lba[t]] # NoRec
    BY <1>7, ApartWrite
  <2>2. /\ pc[t] = "put_write" /\ pc'[t] = "finish"
        /\ UNCHANGED <<req, itr, lba, held, wait, trim_len>>
    BY <1>7 DEF PutWrite
  <2> QED
    BY <1>1, <2>1, <2>2 DEF GenPcs, ReadPcs
<1>8. CASE GetRange(t) \/ ReadMatch(t) \/ ReadMismatch(t) \/ BlindRead(t) \/ Expire(t)
  <2>1. /\ pc[t] \in ReadPcs /\ pc'[t] \in ReadPcs \cup {"finish"}
        /\ UNCHANGED <<held, wait, trim_len>>
    BY <1>8 DEF GetRange, ReadMatch, ReadMismatch, BlindRead, ProbeOn, Rehash, Expire, ReadPcs
  <2>2. ~held[t] /\ ~wait[t] /\ trim_len[t] = 0
    BY <1>1, <2>1 DEF ReadPcs, GenPcs
  <2> QED
    BY <2>1, <2>2 DEF ReadPcs, GenPcs
<1>9. CASE DeviceError(t)
  <2>1. /\ pc[t] \in DevicePcs \ {"put_write"} /\ pc'[t] = "finish"
        /\ UNCHANGED <<media, req, itr, lba, held, wait, trim_len>>
    BY <1>9, KVOpsAssumption DEF DeviceError, KeysApart
  <2>2. ~wait[t] /\ (pc[t] = "del_trim" => req[t].op = "delete")
    BY <1>1, <2>1, CallOf DEF DevicePcs, DeletePcs
  <2> QED
    BY <1>1, <2>1, <2>2 DEF GenPcs, ReadPcs, DevicePcs
<1>10. CASE DelRead(t)
  <2>1. CASE ProbeOn(t, "del_read", "ok")
    <3>1. pc[t] = "del_read" /\ req[t].op = "delete"
      BY <2>1, CallOf DEF ProbeOn, DeletePcs
    <3>2. pc'[t] \in {"del_read", "finish"} /\ UNCHANGED <<held, wait, trim_len>>
      BY <2>1, <3>1 DEF ProbeOn, Rehash, Measured
    <3> QED
      BY <1>1, <3>1, <3>2 DEF GenPcs
  <2>2. CASE DelFound(t, "del_read", "del_insert")
    <3>1. /\ pc[t] = "del_read" /\ pc'[t] = "del_insert"
          /\ UNCHANGED <<media, req, held, wait, trim_len>>
          /\ Matches(Slot(t), req[t].key) /\ lba'[t] = Slot(t)
      BY <2>2 DEF DelFound
    <3>2. Matches(lba[t], req[t].key)'
      BY <3>1 DEF Matches
    <3> QED
      BY <1>1, <3>1, <3>2 DEF GenPcs, ReadPcs
  <2> QED
    BY <1>10, <2>1, <2>2 DEF DelRead
<1>11. CASE DelInsert(t)
  <2>1. /\ pc[t] = "del_insert" /\ held'[t] /\ ~wait'[t]
        /\ UNCHANGED <<media, req, itr, lba, trim_len>>
        /\ pc'[t] = IF wait[t] THEN "del_reread" ELSE "del_trim"
    BY <1>11 DEF DelInsert, Insert
  <2>2. ~wait[t] /\ Matches(lba[t], req[t].key)'
    BY <1>1, <2>1 DEF Matches
  <2> QED
    BY <1>1, <2>1, <2>2 DEF GenPcs, ReadPcs
<1>12. CASE DelTrim(t)
  <2>1. pc[t] = "del_trim" /\ pc'[t] = "finish"
        /\ UNCHANGED <<req, lba, held, wait, trim_len>>
    BY <1>12 DEF DelTrim
  <2>2. req[t].op = "delete"
    BY <2>1, CallOf DEF DeletePcs
  <2> QED
    BY <1>1, <2>1, <2>2 DEF GenPcs, ReadPcs
<1>13. CASE Finish(t)
  <2>1. pc[t] = "finish" /\ pc'[t] = "idle" /\ ~held'[t] /\ trim_len'[t] = 0
        /\ UNCHANGED wait
    BY <1>13 DEF Finish
  <2> QED
    BY <1>1, <2>1 DEF GenPcs, ReadPcs
<1>14. ~DelReread(t)
  BY <1>1 DEF DelReread, DelFound, ProbeOn
<1> QED
  BY <1>2, <1>3, <1>4, <1>5, <1>6, <1>7, <1>8, <1>9, <1>10, <1>11, <1>12, <1>13, <1>14
     DEF Step

\* A call starts where a call can be.
LEMMA AtCall ==
    ASSUME ApartInv, NEW t \in Threads, NEW r \in Requests, Call(t, r)
    PROVE  At(t)'
<1> USE DEF ApartInv, Overlapping, At, IInv, TypeOK, Goto
<1>1. /\ pc[t] = "idle" /\ UNCHANGED <<held, wait, trim_len>>
      /\ req'[t] = r /\ itr'[t] = 1 /\ lba'[t] = Probe[r.key][1]
      /\ pc'[t] \in {"gen_range", "del_read", "get_range", "read_media"}
  BY DEF Call, Begin
<1>2. ~held[t] /\ ~wait[t] /\ trim_len[t] = 0
  BY <1>1 DEF GenPcs
<1> QED
  BY <1>1, <1>2 DEF GenPcs

\* What a step does to the list when deletes have no company.
LEMMA ConcLockEffect ==
    ASSUME KeysApart, ApartInv, NEW t \in Threads, Step(t) \/ \E r \in Requests : Call(t, r)
    PROVE  ListEffect(t)
<1> USE DEF ApartInv, Overlapping, At, IInv, TypeOK, Goto, Done, local, ListEffect
<1>1. CASE \E r \in Requests : Call(t, r)
  BY <1>1 DEF Call, Begin
<1>2. CASE GenInsert(t) \/ DelInsert(t)
  <2>1. /\ lba[t] \notin safe /\ safe' = safe \cup {lba[t]} /\ ~held[t]
        /\ held' = [held EXCEPT ![t] = TRUE] /\ UNCHANGED lba
    BY <1>2 DEF GenInsert, DelInsert, Insert
  <2> QED
    BY <2>1
<1>3. CASE DelRead(t) \/ ReadMatch(t) \/ BlindRead(t)
  <2>1. ~held[t] /\ UNCHANGED <<safe, held>>
        /\ (UNCHANGED lba \/ lba' = [lba EXCEPT ![t] = Slot(t)])
    BY <1>3 DEF DelRead, DelFound, ProbeOn, ReadMatch, BlindRead, ReadPcs
  <2> QED
    BY <2>1
<1>4. CASE Finish(t)
  <2>1. /\ safe' = IF held[t] THEN safe \ {lba[t]} ELSE safe
        /\ held' = [held EXCEPT ![t] = FALSE] /\ UNCHANGED lba
    BY <1>4 DEF Finish, ReleaseLba
  <2> QED
    BY <2>1
<1>5. ~GenReadMismatch(t) /\ ~GenDrop(t)
  BY PutsMatch DEF GenReadMismatch, GenDrop, GenPcs
<1>6. ~DelReread(t)
  BY DEF DelReread, DelFound, ProbeOn
<1>7. CASE \/ Contend(t) \/ GenRange(t) \/ GenReadMatch(t) \/ PutWrite(t) \/ GetRange(t)
           \/ ReadMismatch(t) \/ Expire(t) \/ DelTrim(t) \/ DeviceError(t)
  <2>1. UNCHANGED <<safe, held, lba>>
    BY <1>7 DEF Contend, GenRange, GenReadMatch, PutWrite, GetRange, ReadMismatch, ProbeOn,
                Expire, DelTrim, DeviceError
  <2> QED
    BY <2>1
<1> QED
  BY <1>1, <1>2, <1>3, <1>4, <1>5, <1>6, <1>7 DEF Step

\* Records stay at the first slots of their keys.
LEMMA AtFirstStep ==
    ASSUME KeysApart, ApartInv, NEW t \in Threads, Step(t) \/ \E r \in Requests : Call(t, r)
    PROVE  AtFirst'
<1> USE DEF ApartInv, IInv, TypeOK
<1>1. CASE UNCHANGED media
  BY <1>1 DEF AtFirst
<1>2. CASE PutWrite(t)
  <2>1. /\ media'[lba[t]].key = req[t].key
        /\ \A s \in Slots : s # lba[t] => media'[s] = media[s]
    BY <1>2, ApartWrite
  <2>2. lba[t] = Probe[req[t].key][1]
    BY <1>2 DEF PutWrite, Overlapping, At, GenPcs
  <2> QED
    BY <2>1, <2>2 DEF AtFirst
<1>3. CASE DelTrim(t)
  BY <1>3 DEF DelTrim, Trim, AtFirst
<1> QED
  BY <1>1, <1>2, <1>3, MediaStep

\* The callers keep deletes apart, and a step of a call makes no other call.
LEMMA DeletesAloneStep ==
    ASSUME KeysApart, ApartInv, NEW t \in Threads, HStep(t) \/ HCall(t)
    PROVE  DeletesAlone'
<1> USE DEF ApartInv, IInv, TypeOK
<1>1. \A u \in Threads : u # t => req'[u] = req[u]
  BY OthersKept DEF HStep, HCall
<1>2. CASE HStep(t)
  <2>1. Step(t)
    BY <1>2 DEF HStep
  <2>2. pc[t] # "idle"
    BY <2>1, KVOpsAssumption DEF Step, Contend, GenRange, GenInsert, GenReadMatch, GenReadMismatch,
       GenDrop, PutWrite, GetRange, ReadMatch, ReadMismatch, BlindRead, Expire, DelRead, DelInsert,
       DelReread, DelFound, ProbeOn, Insert, DelTrim, DeviceError, DevicePcs, Finish
  <2>3. req[t] # NoRequest
    BY <2>2, CallOf
  <2>4. req'[t] \in {req[t], NoRequest}
    BY <2>1, <2>3, RequestStep DEF Next
  <2> QED
    BY <1>1, <2>4 DEF DeletesAlone
<1>3. CASE HCall(t)
  <2>1. PICK r \in Requests :
          /\ Call(t, r)
          /\ \A u \in Threads :
               req[u] # NoRequest => r.op \notin Exclusive /\ req[u].op \notin Exclusive
    BY <1>3 DEF HCall
  <2>2. req'[t] = r
    BY <2>1 DEF Call, Begin
  <2>3. ASSUME NEW u \in Threads, u # t, req'[u] # NoRequest
        PROVE  req'[t].op # "delete" /\ req'[u].op # "delete"
    BY <1>1, <2>1, <2>2, <2>3 DEF KeysApart
  <2> QED
    BY <1>1, <2>3 DEF DeletesAlone
<1> QED
  BY <1>2, <1>3

\* At first no call is there.
LEMMA InitApartInv == HInit => ApartInv
<1>1. ASSUME HInit PROVE DeletesAlone /\ AtFirst /\ Overlapping
  BY <1>1 DEF HInit, Init, Opened, DeletesAlone, AtFirst, Overlapping, At, GenPcs, ReadPcs
<1> QED
  BY <1>1, InitObserved, InitLockInv DEF ApartInv, HInit, LockInv

\* Every step of the observed store keeps the invariant.
LEMMA ApartInductive ==
    ASSUME KeysApart, ApartInv, [HNext]_hvars
    PROVE  ApartInv'
<1>1. ASSUME NEW t \in Threads, HStep(t) \/ HCall(t) PROVE ApartInv'
  <2>1. (Step(t) \/ \E r \in Requests : Call(t, r)) /\ [Next]_vars
    BY <1>1 DEF HStep, HCall, Next
  <2>2. IInv' /\ Answers'
    BY <2>1, Inductive, AnswersStep DEF ApartInv
  <2>3. SafeListExact'
    BY <2>1, ConcLockEffect, ListFollows DEF ApartInv
  <2>4. DeletesAlone' /\ AtFirst'
    BY <1>1, <2>1, DeletesAloneStep, AtFirstStep
  <2>5. At(t)'
    BY <2>1, AtSelf, AtCall
  <2>6. \A u \in Threads : u # t => At(u)'
    BY <2>1, AtOther
  <2> QED
    BY <2>2, <2>3, <2>4, <2>5, <2>6 DEF ApartInv, Overlapping
<1>2. ASSUME Tick \/ UNCHANGED hvars PROVE ApartInv'
  <2>1. /\ UNCHANGED <<media, safe, pc, req, itr, lba, held, wait, trim_len, ret>>
        /\ [Next]_vars
    BY <1>2 DEF Tick, Next, hvars, vars, local
  <2>2. IInv' /\ Answers'
    BY <2>1, Inductive, AnswersStep DEF ApartInv
  <2>3. SafeListExact' /\ DeletesAlone' /\ AtFirst'
    BY <2>1 DEF ApartInv, SafeListExact, DeletesAlone, AtFirst
  <2>4. Overlapping'
    BY <2>1 DEF ApartInv, Overlapping, At, Matches
  <2> QED
    BY <2>2, <2>3, <2>4 DEF ApartInv
<1> QED
  BY <1>1, <1>2 DEF HNext

\* A call of a map that reads on, after the first slot of its key, has missed the key
\* there or seen it absent before.
LEMMA ReadsOnStep ==
    ASSUME FirstApart, ConcInv, Observe, NEW t \in Threads,
           Step(t) \/ \E r \in Requests : Call(t, r)
    PROVE  \A u \in Threads : ReadsOn(u)'
<1> USE DEF ConcInv, ApartInv, IInv, TypeOK, ReadsOn, Goto, Done, local
<1>1. ASSUME NEW u \in Threads, u # t PROVE ReadsOn(u)'
  <2>1. pc'[u] = pc[u] /\ req'[u] = req[u] /\ itr'[u] = itr[u]
    BY <1>1, OthersKept
  <2>2. pc[u] \in {"get_range", "read_media", "del_read"} => seen[u] \subseteq seen'[u]
    BY <2>1, CallOf, SeenGrows
  <2> QED
    BY <2>1, <2>2
<1>2. CASE \E r \in Requests : Call(t, r)
  <2>1. pc'[t] # "expire" /\ itr'[t] = 1
    BY <1>2 DEF Call, Begin
  <2> QED
    BY <1>1, <2>1
<1>3. ASSUME pc[t] \in {"get_range", "read_media", "del_read"}, UNCHANGED <<media, req>>,
             ~Matches(Slot(t), req[t].key)
      PROVE  NoRec \in seen'[t]
  <2>1. req[t].key \in Keys /\ req[t] # NoRequest
    BY <1>3, CallOf
  <2>2. NoRec \in seen[t]
    <3>1. CASE itr[t] = 1
      <4>1. Lookup(req[t].key) = NoRec
        BY <1>3, <2>1, <3>1, FirstSlot DEF Slot, FirstApart
      <4>2. Store[req[t].key] \in seen[t]
        BY <1>3, UnderWay DEF Watching
      <4> QED
        BY <2>1, <4>1, <4>2 DEF Store
    <3>2. CASE itr[t] # 1
      BY <1>3, <3>2
    <3> QED
      BY <3>1, <3>2
  <2> QED
    BY <1>3, <2>1, <2>2, SeenGrows
<1>4. CASE ReadMismatch(t) \/ (GetRange(t) /\ media[Slot(t)] = NoRec)
  <2>1. /\ pc[t] \in {"get_range", "read_media"} /\ UNCHANGED <<media, req>>
        /\ ~Matches(Slot(t), req[t].key)
    BY <1>4 DEF ReadMismatch, ProbeOn, GetRange, Matches
  <2>2. pc'[t] \in {"get_range", "read_media", "finish"}
    BY <1>4, <2>1 DEF ReadMismatch, ProbeOn, GetRange, Rehash
  <2> QED
    BY <1>1, <1>3, <2>1, <2>2
<1>5. CASE GetRange(t) /\ media[Slot(t)] # NoRec
  <2>1. pc[t] = "get_range" /\ pc'[t] = "read_media" /\ UNCHANGED <<req, itr>>
    BY <1>5 DEF GetRange
  <2>2. seen[t] \subseteq seen'[t]
    BY <2>1, CallOf, SeenGrows
  <2> QED
    BY <1>1, <2>1, <2>2
<1>6. CASE ProbeOn(t, "del_read", "ok")
  <2>1. /\ pc[t] = "del_read" /\ UNCHANGED <<media, req>> /\ ~Matches(Slot(t), req[t].key)
    BY <1>6 DEF ProbeOn
  <2>2. pc'[t] # "expire"
    BY <1>6, <2>1 DEF ProbeOn, Rehash
  <2> QED
    BY <1>1, <1>3, <2>1, <2>2
<1>7. ~BlindRead(t)
  <2> SUFFICES ASSUME BlindRead(t) PROVE FALSE
    OBVIOUS
  <2>1. req[t] \in Requests /\ req[t].op = "exists" /\ "read_media" \in Failing
    BY CallOf DEF BlindRead
  <2> QED
    BY <2>1, RequestFields DEF FirstApart
<1>8. CASE /\ Step(t) /\ ~ReadMismatch(t) /\ ~GetRange(t) /\ ~BlindRead(t)
           /\ ~ProbeOn(t, "del_read", "ok")
  <2>1. ~DelReread(t)
    BY DEF Overlapping, At, DelReread, DelFound, ProbeOn
  <2>2. \/ pc'[t] \notin {"get_range", "read_media", "del_read", "expire"}
        \/ Contend(t)
    BY <1>8, <2>1 DEF Step, GenRange, GenInsert, GenReadMatch, LockFirst, GenReadMismatch,
       NextProbe, GenDrop, PutWrite, ReadMatch, Expired, Expire, DelRead, DelFound, DelInsert,
       Insert, DelTrim, DeviceError, Finish, FirstApart
  <2>3. Contend(t) => pc'[t] \notin {"get_range", "read_media", "del_read", "expire"}
    BY DEF Contend
  <2> QED
    BY <1>1, <2>2, <2>3
<1> QED
  BY <1>2, <1>4, <1>5, <1>6, <1>7, <1>8

LEMMA ConcInductive ==
    ASSUME FirstApart, SameLengths, ConcInv, [HNext]_hvars
    PROVE  ConcInv'
<1>1. ApartInv'
  BY ApartInductive DEF ConcInv, FirstApart
<1>2. IInv /\ Answers /\ Watching /\ Intact
  BY DEF ConcInv, ApartInv
<1>3. [Next]_vars
  BY DEF HNext, HStep, HCall, Next, hvars
<1>4. Intact'
  BY <1>2, <1>3, IntactStep
<1>5. ASSUME NEW t \in Threads, HStep(t) \/ HCall(t) PROVE ConcInv'
  <2>1. (Step(t) \/ \E r \in Requests : Call(t, r)) /\ Observe
    BY <1>5 DEF HStep, HCall
  <2>2. Watching'
    BY <1>2, <1>3, <2>1, WatchingStep
  <2>3. \A u \in Threads : ReadsOn(u)'
    BY <2>1, ReadsOnStep
  <2> QED
    BY <1>1, <1>4, <2>2, <2>3 DEF ConcInv
<1>6. ASSUME (Tick /\ Observe) \/ UNCHANGED hvars PROVE ConcInv'
  <2>1. UNCHANGED <<media, pc, req, itr, ret>>
    BY <1>6 DEF Tick, hvars, vars, local
  <2>2. UNCHANGED <<Store, seen>>
    BY <1>2, <1>6, <2>1, SilentStep, StoreKept DEF hvars
  <2>3. Watching'
    BY <1>2, <2>1, <2>2 DEF Watching
  <2>4. \A t \in Threads : ReadsOn(t)'
    BY <2>1, <2>2 DEF ConcInv, ReadsOn
  <2> QED
    BY <1>1, <1>4, <2>3, <2>4 DEF ConcInv
<1> QED
  BY <1>5, <1>6 DEF HNext, ConcInv

\* With any number of calls that overlap, of keys that hash to different slots and values
\* of one length, with puts that replace and deletes that have no company, the store is a
\* map as long as its writes do not fail: every call takes effect, and gets its answer,
\* at one instant between its start and its end.
THEOREM ImplementsMapOverlapping ==
    ASSUME FirstApart, SameLengths
    PROVE  HSpec => ImplementsMap
<1>1. HInit => ConcInv /\ Map!Init
  <2>1. HInit => \A t \in Threads : ReadsOn(t)
    BY DEF HInit, Init, Opened, ReadsOn
  <2> QED
    BY <2>1, InitApartInv, InitObserved DEF ConcInv
<1>2. ConcInv /\ [HNext]_hvars => ConcInv'
  BY ConcInductive
<1>3. ConcInv /\ [HNext]_hvars => [Map!Next]_(Map!vars)
  BY ConcFaithful, Simulation DEF ConcInv, ApartInv, FirstApart
<1> QED
  BY <1>1, <1>2, <1>3, PTL DEF HSpec, ImplementsMap, Map!Spec

\* Then a key is stored once, although any number of calls may be putting it, with or
\* without replace, values of any length, expiring or not: the ones that find its slot
\* free wait for the one that has locked it and read its record.  What it takes is that
\* no two keys have the same hash, that a delete has no company, and that the one that
\* others wait for does not fail to write.
THEOREM UniqueKeyOverlapping ==
    ASSUME KeysApart
    PROVE  HSpec => []UniqueKey
<1>1. ApartInv => UniqueKey
  BY DEF ApartInv, AtFirst, UniqueKey
<1>2. ApartInv /\ [HNext]_hvars => ApartInv'
  BY ApartInductive
<1> QED
  BY InitApartInv, <1>1, <1>2, PTL DEF HSpec

-----------------------------------------------------------------------------
(***************************************************************************)
(* The collision cache.                                                    *)
(***************************************************************************)
\* The places of the calls of a store with a cache.
CPcs == Pcs \cup {"cache_drop"}

\* A context is of the call that asked the cache, and names a place of its key.
Contexts ==
    \A t \in Threads :
        /\ pc[t] = "idle" => ctx[t] = NoContext
        /\ pc[t] \in (GenPcs \ {"gen_range"}) \cup {"cache_drop"} => ctx[t] # NoContext
        /\ pc[t] = "finish" /\ req[t].op = "put" /\ ret[t] = "ok" => ctx[t] # NoContext
        /\ pc[t] = "cache_drop" => req[t].op = "put"
        /\ pc[t] \in DeletePcs \ {"del_read"} => ctx[t] # NoContext
        /\ ctx[t] # NoContext => ctx[t].index \in Probed(req[t].key)

\* Where the entries of the cache are, and where they lead.
EntriesPlaced ==
    \A i \in Indexes : cache[i] # NoEntry =>
        /\ i \in Probed(cache[i].key)
        /\ cache[i].lba \in ProbeSlots(cache[i].key)

\* Types of the cache and of the contexts.
CacheTyped ==
    /\ cache \in [Indexes -> Entry \cup {NoEntry}]
    /\ ctx \in [Threads -> Context \cup {NoContext}]

\* The inductive invariant of the store with a cache, whatever its calls are.
CInv == IInvAt(CPcs) /\ CacheTyped /\ Contexts /\ EntriesPlaced

\* The places of a key are places, and there is a first.
LEMMA ProbedIndexes ==
    ASSUME NEW k \in Keys
    PROVE  /\ Probed(k) \subseteq Indexes
           /\ DOMAIN CacheProbe[k] \subseteq Nat /\ 1 \in DOMAIN CacheProbe[k]
           /\ \A n \in DOMAIN CacheProbe[k] : CacheProbe[k][n] \in Probed(k)
<1>1. CacheProbe[k] \in Seq(Indexes) /\ CacheProbe[k] # <<>>
  BY CachedAssumption
<1>2. /\ DOMAIN CacheProbe[k] = 1 .. Len(CacheProbe[k]) /\ Len(CacheProbe[k]) \in Nat
      /\ Len(CacheProbe[k]) # 0
      /\ \A n \in DOMAIN CacheProbe[k] : CacheProbe[k][n] \in Indexes
  BY <1>1
<1> QED
  BY <1>2 DEF Probed

\* A search ends at the first place with the key or a hole, or at a place of another key.
LEMMA PlaceOf ==
    ASSUME CacheTyped, NEW k \in Keys
    PROVE  /\ Place(k) \in Probed(k)
           /\ Stops(k) # {} =>
                \E n \in Stops(k) : Place(k) = CacheProbe[k][n] /\ \A m \in Stops(k) : n <= m
           /\ Stops(k) = {} => cache[Place(k)] # NoEntry /\ ~Holds(cache[Place(k)], k)
<1>1. Stops(k) \in SUBSET Nat
  BY ProbedIndexes DEF Stops
<1>2. CASE Stops(k) # {}
  <2>1. Min(Stops(k)) \in Stops(k) /\ \A m \in Stops(k) : Min(Stops(k)) <= m
    BY <1>1, <1>2, MinIsLeast
  <2>2. Place(k) = CacheProbe[k][Min(Stops(k))]
    BY <1>2 DEF Place
  <2>3. Min(Stops(k)) \in DOMAIN CacheProbe[k]
    BY <2>1 DEF Stops
  <2> QED
    BY <1>2, <2>1, <2>2, <2>3, ProbedIndexes
<1>3. CASE Stops(k) = {}
  <2> DEFINE D == DOMAIN CacheProbe[k]
             ts(n) == cache[CacheProbe[k][n]].ts
             times == {ts(n) : n \in D}
             oldest == {n \in D : \A m \in D : ts(n) <= ts(m)}
  <2>1. ASSUME NEW n \in D
        PROVE  cache[CacheProbe[k][n]] \in Entry /\ ~Holds(cache[CacheProbe[k][n]], k)
    <3>1. n \notin Stops(k)
      BY <1>3
    <3>2. cache[CacheProbe[k][n]] # NoEntry /\ ~Holds(cache[CacheProbe[k][n]], k)
      BY <3>1 DEF Stops
    <3>3. CacheProbe[k][n] \in Indexes
      BY ProbedIndexes
    <3> QED
      BY <3>2, <3>3 DEF CacheTyped
  <2>2. \A n \in D : ts(n) \in Nat
    BY <2>1 DEF Entry
  <2>3. times \in SUBSET Nat /\ times # {}
    <3>1. 1 \in D
      BY ProbedIndexes
    <3> QED
      BY <2>2, <3>1
  <2>4. Min(times) \in times /\ \A x \in times : Min(times) <= x
    BY <2>3, MinIsLeast
  <2>5. PICK n \in D : ts(n) = Min(times)
    BY <2>4
  <2>6. n \in oldest
    BY <2>4, <2>5
  <2>7. oldest \in SUBSET Nat /\ oldest # {}
    BY <2>6, ProbedIndexes
  <2>8. Min(oldest) \in D
    BY <2>7, MinIsLeast
  <2>9. Place(k) = CacheProbe[k][Min(oldest)]
    BY <1>3 DEF Place, Oldest
  <2> HIDE DEF oldest
  <2>10. Place(k) \in Probed(k)
    BY <2>8, <2>9, ProbedIndexes
  <2>11. cache[Place(k)] \in Entry /\ ~Holds(cache[Place(k)], k)
    BY <2>1, <2>8, <2>9
  <2> QED
    BY <1>3, <2>10, <2>11, CachedAssumption
<1> QED
  BY <1>2, <1>3

\* The context that kv_cache_get fills.
LEMMA Got ==
    ASSUME CacheTyped, NEW k \in Keys
    PROVE  LET c == kv_cache_get(k) IN
           /\ c \in Context /\ c.index = Place(k) /\ c.index \in Probed(k)
           /\ c.state \in {"found", "empty", "evict"}
           /\ c.entry = cache[Place(k)]
           /\ c.state = "evict" <=> Stops(k) = {}
           /\ c.state = "empty" <=> cache[Place(k)] = NoEntry
           /\ c.state = "found" <=> Holds(cache[Place(k)], k)
<1> DEFINE state == IF Stops(k) = {} THEN "evict"
                    ELSE IF cache[Place(k)] = NoEntry THEN "empty" ELSE "found"
<1>1. kv_cache_get(k) =
        [state |-> state, index |-> Place(k), entry |-> cache[Place(k)], expiry |-> 0]
  <2>1. kv_cache_get(k) =
          [[state |-> "none", index |-> CacheProbe[k][1], entry |-> NoEntry, expiry |-> 0]
           EXCEPT !.state = state, !.index = Place(k), !.entry = cache[Place(k)]]
    BY DEF kv_cache_get, Blank
  <2> HIDE DEF state
  <2> QED
    BY <2>1
<1>2. /\ Place(k) \in Probed(k) /\ Place(k) \in Indexes
      /\ cache[Place(k)] \in Entry \cup {NoEntry}
  BY PlaceOf, ProbedIndexes DEF CacheTyped
<1>3. state = "evict" <=> Stops(k) = {}
  OBVIOUS
<1>4. state = "empty" <=> cache[Place(k)] = NoEntry
  BY PlaceOf
<1>5. state = "found" <=> Holds(cache[Place(k)], k)
  BY PlaceOf DEF Stops, Holds
<1>6. state \in {"found", "empty", "evict"} /\ (state # "empty" => cache[Place(k)] \in Entry)
  BY <1>2, <1>4
<1> HIDE DEF state
<1>7. kv_cache_get(k) \in Context
  BY <1>1, <1>2, <1>6 DEF Context
<1> QED
  BY <1>1, <1>2, <1>3, <1>4, <1>5, <1>6, <1>7

\* A context that was not asked for, or was wiped.
LEMMA BlankContext ==
    ASSUME NEW k \in Keys
    PROVE  /\ Blank(k) \in Context /\ Blank(k).state = "none"
           /\ Blank(k).index \in Probed(k)
<1>1. CacheProbe[k][1] \in Probed(k) /\ CacheProbe[k][1] \in Indexes
  BY ProbedIndexes
<1> QED
  BY <1>1 DEF Blank, Context

\* kv_cache_put updates the entry of the key that the context found, or puts the new
\* entry at a place of its key.
LEMMA PutInto ==
    ASSUME CacheTyped, NEW c \in Context, NEW new \in Entry, c.index \in Probed(new.key)
    PROVE  \E i \in Probed(new.key) :
             \/ /\ c.state = "found" /\ Holds(cache[i], new.key) /\ i = c.index
                /\ kv_cache_put(c, new) =
                     [cache EXCEPT ![i] = [@ EXCEPT !.secs = new.secs, !.ts = new.ts]]
             \/ /\ c.state = "found" => ~Holds(cache[c.index], new.key)
                /\ i = IF Usable(c, new.key) THEN c.index ELSE Place(new.key)
                /\ kv_cache_put(c, new) = [cache EXCEPT ![i] = new]
<1>1. new.key \in Keys
  BY DEF Entry
<1>2. Place(new.key) \in Probed(new.key)
  BY <1>1, PlaceOf
<1>3. CASE c.state = "found" /\ Holds(cache[c.index], new.key)
  BY <1>3 DEF kv_cache_put
<1>4. CASE ~(c.state = "found" /\ Holds(cache[c.index], new.key))
  BY <1>2, <1>4 DEF kv_cache_put
<1> QED
  BY <1>3, <1>4

\* Where a call of a store with a cache is agrees with what it is.
LEMMA CachedCallOf ==
    ASSUME IInvAt(CPcs), NEW t \in Threads, pc[t] # "idle"
    PROVE  /\ req[t] # NoRequest /\ req[t] \in Requests /\ req[t].key \in Keys
           /\ pc[t] \in GenPcs => req[t].op = "put"
           /\ pc[t] \in ReadPcs => req[t].op \in {"get", "exists"}
           /\ pc[t] \in DeletePcs => req[t].op = "delete"
<1>1. req[t] # NoRequest /\ req[t] \in Requests
  BY DEF IInvAt, Located, Typed
<1> QED
  BY <1>1, RequestFields DEF IInvAt, Located

\* A step of a call that does not end it goes on with the same request.
LEMMA StepWithin ==
    ASSUME NEW t \in Threads, Step(t), ~Finish(t)
    PROVE  req' = req /\ pc[t] \in GenPcs \cup ReadPcs \cup DeletePcs
  BY KVOpsAssumption DEF Step, Contend, GenRange, GenInsert, GenReadMatch, GenReadMismatch, GenDrop,
     PutWrite, GetRange, ReadMatch, ReadMismatch, BlindRead, Expire, DelRead, DelInsert, DelReread,
     DelFound, ProbeOn, Insert, DelTrim, DeviceError, DevicePcs, GenPcs, ReadPcs, DeletePcs, local

\* The steps of KVCached that are steps of KVOps.
LEMMA CachedNext ==
    ASSUME NEW t \in Threads, CCall(t) \/ CachedWrite(t) \/ Uncached(t) \/ CachedFinish(t)
    PROVE  [Next]_vars /\ (Step(t) \/ \E r \in Requests : Call(t, r))
  BY DEF CCall, CachedWrite, Uncached, CachedFinish, Next, Step

\* So they keep what KVOps keeps, ...
LEMMA CommonStep ==
    ASSUME IInvAt(CPcs), [Next]_vars
    PROVE  IInvAt(CPcs)'
  BY InductiveAt DEF CPcs

\* ... and the others keep it too.
LEMMA CachedStep ==
    ASSUME CInv, NEW t \in Threads,
           CacheGet(t) \/ CacheInsert(t) \/ CacheDrop(t) \/ CacheDelete(t)
    PROVE  IInvAt(CPcs)'
<1> USE DEF CInv, IInvAt, Typed, Goto, Done, local
<1> DEFINE k == req[t].key
<1>1. ASSUME NEW i \in Indexes, Holds(cache[i], k)
      PROVE  cache[i] \in Entry /\ cache[i].lba \in ProbeSlots(k) /\ cache[i].lba \in Slots
             /\ cache[i].secs \in Nat
  BY <1>1 DEF EntriesPlaced, Holds, CacheTyped, Entry
<1>2. CASE CacheGet(t)
  <2>1. pc[t] = "gen_range" /\ k \in Keys /\ req[t].op = "put"
    BY <1>2, CachedCallOf DEF CacheGet, GenPcs
  <2> DEFINE c == kv_cache_get(k)
  <2>2. c.state = "found" => \E i \in Indexes : c.entry = cache[i] /\ Holds(cache[i], k)
    BY <2>1, Got, PlaceOf, ProbedIndexes
  <2> HIDE DEF c
  <2>3. CASE UNCHANGED <<pc, lba, trim_len, ret>>
    BY <1>2, <2>3 DEF CacheGet, Located, Placement
  <2>4. CASE Done(t, "exists") /\ UNCHANGED <<lba, trim_len>>
    BY <1>2, <2>1, <2>4 DEF CacheGet, Located, Placement, CPcs, Pcs, GenPcs, ReadPcs, DeletePcs, Results
  <2>5. CASE /\ c.state = "found"
             /\ lba' = [lba EXCEPT ![t] = c.entry.lba]
             /\ trim_len' = [trim_len EXCEPT ![t] =
                  IF c.entry.secs > Sectors[req[t].val] THEN c.entry.secs ELSE 0]
             /\ Goto(t, "gen_insert")
             /\ UNCHANGED ret
    <3>1. PICK i \in Indexes : c.entry = cache[i] /\ Holds(cache[i], k)
      BY <2>2, <2>5
    <3>2. c.entry.lba \in ProbeSlots(k) /\ c.entry.lba \in Slots /\ c.entry.secs \in Nat
      BY <1>1, <3>1
    <3>3. UNCHANGED <<media, clock, expq, safe, req, itr, held, wait, iov_len>>
      BY <1>2 DEF CacheGet
    <3>4. Typed(CPcs)'
      BY <2>5, <3>2, <3>3 DEF CPcs, Pcs, GenPcs
    <3>5. Placement'
      BY <2>5, <3>2, <3>3, LbaMoves
    <3>6. Located'
      BY <2>1, <2>5, <3>3 DEF Located, GenPcs, ReadPcs, DeletePcs
    <3> QED
      BY <3>4, <3>5, <3>6
  <2> QED
    BY <1>2, <2>3, <2>4, <2>5 DEF CacheGet, c
<1>3. CASE CacheInsert(t)
  <2>1. CASE Contend(t)
    <3>1. [Next]_vars
      BY <2>1 DEF Next, Step
    <3> QED
      BY <3>1, CommonStep
  <2>2. CASE Insert(t, "gen_insert", "put_write", "cache_drop")
    <3>1. req[t].op = "put" /\ lba[t] \in Slots
      BY <2>2, CachedCallOf DEF Insert, GenPcs
    <3>2. Typed(CPcs)'
      BY <2>2, <3>1 DEF Insert, CPcs, Pcs, GenPcs
    <3>3. Located' /\ Placement'
      BY <2>2, <3>1 DEF Insert, Located, Placement, GenPcs, ReadPcs, DeletePcs
    <3> QED
      BY <3>2, <3>3
  <2> QED
    BY <1>3, <2>1, <2>2 DEF CacheInsert
<1>4. CASE CacheDrop(t)
  <2>1. req[t].op = "put" /\ k \in Keys
    BY <1>4, CachedCallOf DEF CacheDrop, Contexts
  <2>2. 1 \in 1 .. MaxCollision
    BY KVOpsAssumption
  <2>3. Probe[k][1] \in Slots /\ Probe[k][1] \in ProbeSlots(k)
    BY <2>1, <2>2, ProbeIsSlot, ProbeInSlots
  <2>4. Typed(CPcs)'
    BY <1>4, <2>3 DEF CacheDrop, CPcs, Pcs, GenPcs
  <2>5. Placement'
    BY <1>4, <2>3, LbaMoves DEF CacheDrop
  <2>6. Located'
    BY <1>4, <2>1 DEF CacheDrop, Located, GenPcs, ReadPcs, DeletePcs
  <2> QED
    BY <2>4, <2>5, <2>6
<1>5. CASE CacheDelete(t)
  <2>1. pc[t] = "del_read" /\ k \in Keys /\ req[t].op = "delete"
    BY <1>5, CachedCallOf DEF CacheDelete, DeletePcs
  <2> DEFINE found == {n \in DOMAIN CacheProbe[k] : Holds(cache[CacheProbe[k][n]], k)}
             i == CacheProbe[k][Min(found)]
  <2>2. CASE UNCHANGED <<cache, pc, lba>>
    BY <1>5, <2>2 DEF CacheDelete, Located, Placement
  <2>3. CASE found # {} /\ lba' = [lba EXCEPT ![t] = cache[i].lba] /\ Goto(t, "del_insert")
    <3>1. i \in Indexes /\ Holds(cache[i], k)
      <4>1. found \in SUBSET Nat
        BY <2>1, ProbedIndexes
      <4>2. Min(found) \in found
        BY <2>3, <4>1, MinIsLeast
      <4> QED
        BY <2>1, <4>2, ProbedIndexes
    <3> HIDE DEF i, found
    <3>2. cache[i].lba \in ProbeSlots(k) /\ cache[i].lba \in Slots
      BY <1>1, <3>1
    <3>3. UNCHANGED <<media, clock, expq, safe, req, itr, held, wait, trim_len, iov_len, ret>>
      BY <1>5 DEF CacheDelete
    <3>4. Typed(CPcs)'
      BY <2>3, <3>2, <3>3 DEF CPcs, Pcs, DeletePcs
    <3>5. Placement'
      BY <2>3, <3>2, <3>3, LbaMoves
    <3>6. Located'
      BY <2>1, <2>3, <3>3 DEF Located, GenPcs, ReadPcs, DeletePcs
    <3> QED
      BY <3>4, <3>5, <3>6
  <2> QED
    BY <1>5, <2>2, <2>3 DEF CacheDelete
<1> QED
  BY <1>2, <1>3, <1>4, <1>5

\* What becomes of a context.
LEMMA ContextUpdates ==
    ASSUME NEW c \in Context
    PROVE  /\ c.index \in Indexes /\ c.entry \in Entry \cup {NoEntry}
           /\ c.state \in {"found", "evict"} => c.entry \in Entry
           /\ [c EXCEPT !.state = "stored"] \in Context
           /\ [c EXCEPT !.state = "stored"].index = c.index
           /\ \A n \in Nat : /\ [c EXCEPT !.expiry = n] \in Context
                             /\ [c EXCEPT !.expiry = n].index = c.index
                             /\ [c EXCEPT !.expiry = n].state = c.state
                             /\ [c EXCEPT !.expiry = n].entry = c.entry
  BY DEF Context

\* The entry that a put leaves.
Fresh(t) == [key |-> req[t].key, lba |-> lba[t], secs |-> Sectors[req[t].val],
             expiry |-> ctx[t].expiry, ts |-> clock]

LEMMA CachePutEffect ==
    ASSUME CInv, NEW t \in Threads, CachePut(t)
    PROVE  /\ req[t] \in Requests /\ req[t].op = "put" /\ ret[t] = "ok" /\ pc[t] = "finish"
           /\ ctx[t] \in Context /\ ctx[t].state # "stored" /\ ctx[t].index \in Probed(req[t].key)
           /\ Fresh(t) \in Entry /\ Fresh(t).key = req[t].key /\ Fresh(t).lba \in ProbeSlots(req[t].key)
           /\ cache' = kv_cache_put(ctx[t], Fresh(t))
           /\ ctx' = [ctx EXCEPT ![t].state = "stored"]
           /\ UNCHANGED vars
<1> USE DEF CInv
<1>1. /\ pc[t] = "finish" /\ req[t].op = "put" /\ ret[t] = "ok"
      /\ cache' = kv_cache_put(ctx[t], Fresh(t)) /\ UNCHANGED vars
      /\ ctx' = [ctx EXCEPT ![t].state = "stored"] /\ ctx[t].state # "stored"
  BY DEF CachePut, Stored, Fresh
<1>2. req[t] \in Requests /\ req[t] # NoRequest /\ req[t].key \in Keys /\ req[t].val \in Values
  BY <1>1, CachedCallOf, RequestFields
<1>3. ctx[t] # NoContext /\ ctx[t] \in Context /\ ctx[t].index \in Probed(req[t].key)
  BY <1>1 DEF Contexts, CacheTyped
<1>4. ctx[t].expiry \in Nat
  BY <1>3 DEF Context
<1>5. lba[t] \in Slots /\ lba[t] \in ProbeSlots(req[t].key) /\ clock \in Nat
  BY <1>2 DEF IInvAt, Typed, Placement
<1>6. Sectors[req[t].val] \in Nat
  BY <1>2, KVOpsAssumption
<1> QED
  BY <1>1, <1>2, <1>3, <1>4, <1>5, <1>6 DEF Fresh, Entry

\* The cache stays well formed.
LEMMA EntriesStep ==
    ASSUME CInv, NEW t \in Threads, CachePut(t) \/ CacheDelete(t)
    PROVE  cache' \in [Indexes -> Entry \cup {NoEntry}] /\ EntriesPlaced'
<1> USE DEF CInv, CacheTyped
<1>1. CASE CachePut(t)
  <2> DEFINE new == Fresh(t)
  <2>1. /\ new \in Entry /\ new.key = req[t].key /\ new.lba \in ProbeSlots(new.key)
        /\ ctx[t] \in Context /\ ctx[t].index \in Probed(new.key)
        /\ cache' = kv_cache_put(ctx[t], new)
    BY <1>1, CachePutEffect
  <2> HIDE DEF new
  <2>2. PICK i \in Probed(new.key) :
          \/ /\ ctx[t].state = "found" /\ Holds(cache[i], new.key) /\ i = ctx[t].index
             /\ kv_cache_put(ctx[t], new) =
                  [cache EXCEPT ![i] = [@ EXCEPT !.secs = new.secs, !.ts = new.ts]]
          \/ /\ ctx[t].state = "found" => ~Holds(cache[ctx[t].index], new.key)
             /\ i = IF Usable(ctx[t], new.key) THEN ctx[t].index ELSE Place(new.key)
             /\ kv_cache_put(ctx[t], new) = [cache EXCEPT ![i] = new]
    BY <2>1, PutInto DEF CacheTyped
  <2>3. i \in Indexes
    BY <2>1, <2>2, ProbedIndexes DEF Entry
  <2>4. CASE /\ Holds(cache[i], new.key)
             /\ cache' = [cache EXCEPT ![i] = [@ EXCEPT !.secs = new.secs, !.ts = new.ts]]
    <3> DEFINE e == [cache[i] EXCEPT !.secs = new.secs, !.ts = new.ts]
    <3>1. cache[i] \in Entry /\ cache[i] # NoEntry
      BY <2>3, <2>4 DEF Holds
    <3>2. e \in Entry /\ e.key = cache[i].key /\ e.lba = cache[i].lba
      BY <2>1, <3>1 DEF Entry
    <3>3. cache' = [cache EXCEPT ![i] = e]
      BY <2>4
    <3> HIDE DEF e
    <3> QED
      BY <2>3, <3>1, <3>2, <3>3 DEF EntriesPlaced
  <2>5. CASE cache' = [cache EXCEPT ![i] = new]
    BY <2>1, <2>2, <2>3, <2>5 DEF EntriesPlaced
  <2> QED
    BY <2>1, <2>2, <2>4, <2>5
<1>2. CASE CacheDelete(t)
  <2>1. cache' = cache \/ \E i : cache' = [cache EXCEPT ![i] = NoEntry]
    BY <1>2 DEF CacheDelete, kv_cache_delete
  <2> QED
    BY <2>1 DEF EntriesPlaced
<1> QED
  BY <1>1, <1>2

\* A step of a call changes neither where another call is nor its context.
LEMMA CachedOthers ==
    ASSUME CInv, NEW t \in Threads,
           \/ CCall(t) \/ CacheGet(t) \/ CacheInsert(t) \/ CacheDrop(t) \/ CachedWrite(t)
           \/ CachePut(t) \/ CacheDelete(t) \/ Uncached(t) \/ CachedFinish(t),
           NEW u \in Threads, u # t
    PROVE  /\ pc'[u] = pc[u] /\ req'[u] = req[u] /\ ret'[u] = ret[u] /\ ctx'[u] = ctx[u]
           /\ lba'[u] = lba[u] /\ trim_len'[u] = trim_len[u]
<1> USE DEF CInv, CacheTyped
<1>1. CASE CCall(t) \/ CachedWrite(t) \/ Uncached(t) \/ CachedFinish(t)
  <2>1. ctx'[u] = ctx[u]
    BY <1>1 DEF CCall, CachedWrite, Uncached, CachedFinish
  <2> QED
    BY <1>1, <2>1, CachedNext, OthersKeptAt DEF IInvAt
<1>2. CASE CacheGet(t) \/ CacheDrop(t) \/ CachePut(t) \/ CacheDelete(t)
  BY <1>2 DEF CacheGet, CacheDrop, CachePut, CacheDelete, vars, Goto, Done, IInvAt, Typed
<1>3. CASE CacheInsert(t)
  BY <1>3 DEF CacheInsert, Contend, Insert, Goto, IInvAt, Typed
<1> QED
  BY <1>1, <1>2, <1>3

\* What a call does to its context, and to nothing of the others.
LEMMA ContextsStep ==
    ASSUME CInv, IInvAt(CPcs)', NEW t \in Threads,
           \/ CCall(t) \/ CacheGet(t) \/ CacheInsert(t) \/ CacheDrop(t) \/ CachedWrite(t)
           \/ CachePut(t) \/ CacheDelete(t) \/ Uncached(t) \/ CachedFinish(t)
    PROVE  ctx' \in [Threads -> Context \cup {NoContext}] /\ Contexts'
<1> USE DEF CInv
<1>1. \A u \in Threads : u # t =>
        pc'[u] = pc[u] /\ req'[u] = req[u] /\ ret'[u] = ret[u] /\ ctx'[u] = ctx[u]
  BY CachedOthers
<1> DEFINE Own ==
      /\ pc'[t] = "idle" => ctx'[t] = NoContext
      /\ pc'[t] \in (GenPcs \ {"gen_range"}) \cup {"cache_drop"} => ctx'[t] # NoContext
      /\ pc'[t] = "finish" /\ req'[t].op = "put" /\ ret'[t] = "ok" => ctx'[t] # NoContext
      /\ pc'[t] = "cache_drop" => req'[t].op = "put"
      /\ pc'[t] \in DeletePcs \ {"del_read"} => ctx'[t] # NoContext
      /\ ctx'[t] # NoContext => ctx'[t].index \in Probed(req'[t].key)
<1>2. ASSUME NEW c \in Context \cup {NoContext}, ctx' = [ctx EXCEPT ![t] = c], Own
      PROVE  ctx' \in [Threads -> Context \cup {NoContext}] /\ Contexts'
  <2>1. ctx \in [Threads -> Context \cup {NoContext}]
    BY DEF CacheTyped
  <2>3. ASSUME NEW u \in Threads, u # t
        PROVE  /\ pc'[u] = "idle" => ctx'[u] = NoContext
               /\ pc'[u] \in (GenPcs \ {"gen_range"}) \cup {"cache_drop"} => ctx'[u] # NoContext
               /\ pc'[u] = "finish" /\ req'[u].op = "put" /\ ret'[u] = "ok" => ctx'[u] # NoContext
               /\ pc'[u] = "cache_drop" => req'[u].op = "put"
               /\ pc'[u] \in DeletePcs \ {"del_read"} => ctx'[u] # NoContext
               /\ ctx'[u] # NoContext => ctx'[u].index \in Probed(req'[u].key)
    <3>1. pc'[u] = pc[u] /\ req'[u] = req[u] /\ ret'[u] = ret[u] /\ ctx'[u] = ctx[u]
      BY <1>1, <2>3
    <3> QED
      BY <3>1 DEF Contexts
  <2>5. Contexts'
    BY <1>2, <2>3 DEF Contexts
  <2> QED
    BY <1>2, <2>1, <2>5
<1>3. ctx \in [Threads -> Context \cup {NoContext}] /\ ctx[t] \in Context \cup {NoContext}
      /\ pc' \in [Threads -> CPcs] /\ pc \in [Threads -> CPcs]
      /\ ret \in [Threads -> Results] /\ req \in [Threads -> Requests \cup {NoRequest}]
  BY DEF CacheTyped, IInvAt, Typed
<1>4. CASE CCall(t)
  <2>1. PICK r \in Requests : Call(t, r) /\ ctx' = ctx
    BY <1>4 DEF CCall
  <2>2. /\ pc[t] = "idle" /\ ctx[t] = NoContext
        /\ pc'[t] \in {"gen_range", "del_read", "get_range", "read_media"}
    BY <1>3, <2>1 DEF Call, Begin, Goto, Contexts
  <2>3. ctx' = [ctx EXCEPT ![t] = NoContext]
    BY <1>3, <2>1, <2>2
  <2>4. Own
    BY <1>3, <2>2, <2>3 DEF GenPcs, DeletePcs
  <2> QED
    BY <1>2, <2>3, <2>4
<1>5. CASE CacheGet(t)
  <2>1. pc[t] = "gen_range" /\ req[t].key \in Keys /\ req[t].op = "put"
    BY <1>5, CachedCallOf DEF CacheGet, GenPcs
  <2> DEFINE c == kv_cache_get(req[t].key)
  <2>2. c \in Context /\ c.index \in Probed(req[t].key)
    BY <2>1, Got
  <2>3. ctx' = [ctx EXCEPT ![t] = c] /\ req' = req /\ pc'[t] \in {"gen_range", "finish", "gen_insert"}
    BY <1>3, <1>5, <2>1 DEF CacheGet, Goto, Done
  <2> HIDE DEF c
  <2>4. c # NoContext
    BY <2>2, NoContextIsNone
  <2>5. Own
    BY <1>3, <2>2, <2>3, <2>4 DEF GenPcs, DeletePcs
  <2> QED
    BY <1>2, <2>2, <2>3, <2>5
<1>6. CASE CacheInsert(t)
  <2>1. pc[t] = "gen_insert" /\ ctx' = ctx /\ ctx[t] # NoContext /\ req' = req
        /\ pc'[t] \in {"gen_insert", "put_write", "cache_drop"}
    BY <1>3, <1>6 DEF CacheInsert, Contend, Insert, Goto
  <2>2. ctx[t].index \in Probed(req[t].key) /\ req[t].op = "put"
    BY <2>1, CachedCallOf DEF Contexts, GenPcs
  <2>3. ctx' = [ctx EXCEPT ![t] = ctx[t]]
    BY <1>3, <2>1
  <2>4. Own
    BY <1>3, <2>1, <2>2 DEF GenPcs, DeletePcs
  <2> QED
    BY <1>2, <1>3, <2>3, <2>4
<1>7. CASE CacheDrop(t)
  <2>1. req[t].key \in Keys
    BY <1>7, CachedCallOf DEF CacheDrop
  <2> DEFINE c == Blank(req[t].key)
  <2>2. c \in Context /\ c.index \in Probed(req[t].key)
    BY <2>1, BlankContext
  <2>3. ctx' = [ctx EXCEPT ![t] = c] /\ req' = req /\ pc'[t] = "gen_range"
    BY <1>3, <1>7 DEF CacheDrop, Goto
  <2> HIDE DEF c
  <2>4. Own
    BY <1>3, <2>2, <2>3 DEF GenPcs, DeletePcs
  <2> QED
    BY <1>2, <2>2, <2>3, <2>4
<1>8. CASE CachedWrite(t)
  <2>1. pc[t] = "put_write" /\ req' = req /\ pc'[t] = "finish"
        /\ ctx' = [ctx EXCEPT ![t].expiry = NewRecord(req[t]).expiry]
    BY <1>3, <1>8 DEF CachedWrite, PutWrite, Done, Goto
  <2>2. req[t] \in Requests /\ req[t].op = "put" /\ clock \in Nat
    BY <2>1, CachedCallOf DEF GenPcs, IInvAt, Typed
  <2>3. NewRecord(req[t]).expiry \in Nat
    BY <2>2, RequestFields DEF NewRecord
  <2>4. ctx[t] \in Context /\ ctx[t] # NoContext /\ ctx[t].index \in Probed(req[t].key)
    BY <1>3, <2>1 DEF Contexts, GenPcs
  <2> DEFINE c == [ctx[t] EXCEPT !.expiry = NewRecord(req[t]).expiry]
  <2>5. c \in Context /\ c.index \in Probed(req[t].key)
    BY <2>3, <2>4, ContextUpdates
  <2>6. ctx' = [ctx EXCEPT ![t] = c]
    BY <2>1
  <2> HIDE DEF c
  <2>7. c # NoContext
    BY <2>5, NoContextIsNone
  <2>8. Own
    BY <1>3, <2>1, <2>5, <2>6, <2>7 DEF GenPcs, DeletePcs
  <2> QED
    BY <1>2, <2>5, <2>6, <2>8
<1>9. CASE CachePut(t)
  <2>1. /\ pc[t] = "finish" /\ ctx[t] \in Context /\ ctx[t].index \in Probed(req[t].key)
        /\ ctx' = [ctx EXCEPT ![t].state = "stored"] /\ UNCHANGED vars
    BY <1>9, CachePutEffect
  <2> DEFINE c == [ctx[t] EXCEPT !.state = "stored"]
  <2>2. c \in Context /\ c.index \in Probed(req[t].key)
    BY <2>1, ContextUpdates
  <2>3. ctx' = [ctx EXCEPT ![t] = c] /\ req' = req /\ pc' = pc
    BY <2>1 DEF vars
  <2> HIDE DEF c
  <2>4. c # NoContext
    BY <2>2, NoContextIsNone
  <2>5. Own
    BY <1>3, <2>1, <2>2, <2>3, <2>4 DEF GenPcs, DeletePcs
  <2> QED
    BY <1>2, <2>2, <2>3, <2>5
<1>10. CASE CacheDelete(t)
  <2>1. req[t].key \in Keys /\ pc[t] = "del_read" /\ req[t].op = "delete"
    BY <1>10, CachedCallOf DEF CacheDelete, DeletePcs
  <2> DEFINE c == Blank(req[t].key)
  <2>2. c \in Context /\ c.index \in Probed(req[t].key)
    BY <2>1, BlankContext
  <2>3. ctx' = [ctx EXCEPT ![t] = c] /\ req' = req /\ pc'[t] \in {"del_read", "del_insert"}
    BY <1>3, <1>10, <2>1 DEF CacheDelete, Goto
  <2> HIDE DEF c
  <2>4. c # NoContext
    BY <2>2, NoContextIsNone
  <2>5. Own
    BY <1>3, <2>2, <2>3, <2>4 DEF GenPcs, DeletePcs
  <2> QED
    BY <1>2, <2>2, <2>3, <2>5
<1>11. CASE Uncached(t)
  <2>1. Step(t) /\ ~Finish(t) /\ ctx' = ctx
        /\ (pc[t] \in {"gen_range", "del_read"} => ctx[t] # NoContext)
    BY <1>11 DEF Uncached, Finish, Step, DeviceError, DevicePcs
  <2>2. req' = req /\ pc[t] \in GenPcs \cup ReadPcs \cup DeletePcs
    BY <2>1, StepWithin
  <2>3. pc[t] # "idle" /\ req[t] # NoRequest
    BY <2>2, CachedCallOf DEF GenPcs, ReadPcs, DeletePcs
  <2>4. pc'[t] # "idle" /\ (pc'[t] \in GenPcs => req[t].op = "put")
        /\ (pc'[t] \in DeletePcs => req[t].op = "delete")
    BY <2>2, <2>3 DEF IInvAt, Located
  <2>5. pc'[t] # "cache_drop"
    BY <1>3, <2>1, <2>2 DEF Step, Contend, GenRange, GenInsert, GenReadMatch, LockFirst,
       GenReadMismatch, NextProbe, GenDrop, PutWrite, GetRange, ReadMatch, ReadMismatch, BlindRead, Expire,
       DelRead, DelInsert, DelReread, DelFound, ProbeOn, Rehash, Insert, DelTrim, DeviceError,
       Goto, Done, GenPcs, ReadPcs, DeletePcs
  <2>6. pc[t] \in GenPcs \cup DeletePcs => ctx[t] # NoContext
    BY <2>1 DEF Contexts, GenPcs, DeletePcs
  <2>7. pc[t] \in ReadPcs => req[t].op \in {"get", "exists"}
    BY <2>3, CachedCallOf
  <2>8. ctx' = [ctx EXCEPT ![t] = ctx[t]] /\ ctx'[t] = ctx[t]
    BY <1>3, <2>1
  <2>9. Own
    BY <2>2, <2>4, <2>5, <2>6, <2>7, <2>8 DEF Contexts
  <2> QED
    BY <1>2, <1>3, <2>8, <2>9
<1>12. CASE CachedFinish(t)
  <2>1. ctx' = [ctx EXCEPT ![t] = NoContext] /\ pc'[t] = "idle"
    BY <1>3, <1>12 DEF CachedFinish, Finish, Goto
  <2>2. Own
    BY <1>3, <2>1 DEF GenPcs, DeletePcs
  <2> QED
    BY <1>2, <2>1, <2>2
<1> QED
  BY <1>4, <1>5, <1>6, <1>7, <1>8, <1>9, <1>10, <1>11, <1>12

LEMMA InitCInv == CInit => CInv
<1> SUFFICES ASSUME CInit PROVE CInv
  OBVIOUS
<1>1. IInv
  BY InitIInv DEF CInit, HInit
<1>2. IInvAt(CPcs)
  BY <1>1 DEF IInv, IInvAt, TypeOK, Typed, CPcs
<1> QED
  BY <1>2 DEF CInit, HInit, Init, Opened, CInv, CacheTyped, Contexts, EntriesPlaced, GenPcs, DeletePcs

\* A call does one thing at a time, or time passes.
LEMMA CachedKinds ==
    ASSUME [CNext]_cvars
    PROVE  \/ \E t \in Threads :
                \/ CCall(t) \/ CacheGet(t) \/ CacheInsert(t) \/ CacheDrop(t) \/ CachedWrite(t)
                \/ CachePut(t) \/ CacheDelete(t) \/ Uncached(t) \/ CachedFinish(t)
           \/ (Tick \/ UNCHANGED vars) /\ UNCHANGED <<cache, ctx>>
  BY DEF CNext, cvars, hvars

LEMMA CInductive ==
    ASSUME CInv, [CNext]_cvars
    PROVE  CInv'
<1>1. CASE (Tick \/ UNCHANGED vars) /\ UNCHANGED <<cache, ctx>>
  <2>1. [Next]_vars /\ UNCHANGED <<pc, req, ret>>
    BY <1>1 DEF Next, Tick, vars, local
  <2>2. IInvAt(CPcs)'
    BY <2>1, CommonStep DEF CInv
  <2> QED
    BY <1>1, <2>1, <2>2 DEF CInv, CacheTyped, Contexts, EntriesPlaced
<1>2. ASSUME NEW t \in Threads,
             \/ CCall(t) \/ CacheGet(t) \/ CacheInsert(t) \/ CacheDrop(t) \/ CachedWrite(t)
             \/ CachePut(t) \/ CacheDelete(t) \/ Uncached(t) \/ CachedFinish(t)
      PROVE  CInv'
  <2>1. IInvAt(CPcs)'
    <3>1. CASE CCall(t) \/ CachedWrite(t) \/ Uncached(t) \/ CachedFinish(t)
      BY <3>1, CachedNext, CommonStep DEF CInv
    <3>2. CASE CachePut(t)
      BY <3>2, CachePutEffect, CommonStep DEF CInv
    <3> QED
      BY <1>2, <3>1, <3>2, CachedStep
  <2>2. CASE CachePut(t) \/ CacheDelete(t)
    BY <2>1, <2>2, EntriesStep, ContextsStep DEF CInv, CacheTyped
  <2>3. CASE ~(CachePut(t) \/ CacheDelete(t))
    <3>1. cache' = cache
      BY <1>2, <2>3 DEF CCall, CacheGet, CacheInsert, CacheDrop, CachedWrite, Uncached, CachedFinish
    <3> QED
      BY <1>2, <2>1, <3>1, ContextsStep DEF CInv, CacheTyped, EntriesPlaced
  <2> QED
    BY <2>2, <2>3
<1> QED
  BY <1>1, <1>2, CachedKinds

-----------------------------------------------------------------------------
\* Keys that are deleted have a place in the cache that no key can take from them, and
\* none that another such key can leave; and a delete has no company.
KeepsPlace ==
    /\ \A k \in Deletable : \E i \in Probed(k) : \A j \in Keys \ {k} : i \notin Probed(j)
    /\ \A j, k \in Deletable : j # k => Probed(j) \cap Probed(k) = {}
    /\ "delete" \in Exclusive

\* No place before the n-th of k is free or has k.
Filled(k, n) == \A m \in DOMAIN CacheProbe[k] : m < n =>
    cache[CacheProbe[k][m]] # NoEntry /\ ~Holds(cache[CacheProbe[k][m]], k)

\* A search for k passes what is before i.
Reaches(k, i) == \E n \in DOMAIN CacheProbe[k] : CacheProbe[k][n] = i /\ Filled(k, n)

NoneOf(k) == \A i \in Indexes : ~Holds(cache[i], k)

OneOf(k) == \A i \in Indexes : Holds(cache[i], k) =>
    Reaches(k, i) /\ \A j \in Indexes : Holds(cache[j], k) => j = i

\* A put that was given a free place for its key was given the one that a search reaches.
Informed(t) ==
    /\ ctx[t].state # "evict"
    /\ ctx[t].state = "empty" /\ cache[ctx[t].index] = NoEntry =>
         NoneOf(req[t].key) /\ Reaches(req[t].key, ctx[t].index)

\* A delete that has asked the cache has left nothing of its key there.
Uncovered(t) ==
    req[t] # NoRequest /\ req[t].op = "delete" =>
        /\ req[t].key \in Deletable
        /\ pc[t] \in DeletePcs /\ ctx[t] # NoContext => NoneOf(req[t].key)

SingleEntry ==
    /\ DeletesAlone
    /\ \A k \in Deletable : OneOf(k)
    /\ \A t \in Threads :
         /\ Uncovered(t)
         /\ ctx[t] # NoContext /\ req[t].key \in Deletable => Informed(t)

\* What is before a place does not change with what is not an entry's key.
LEMMA KeysKept ==
    ASSUME \A i \in Indexes : /\ cache'[i] = NoEntry <=> cache[i] = NoEntry
                              /\ cache[i] # NoEntry => cache'[i].key = cache[i].key,
           NEW k \in Keys
    PROVE  /\ \A i \in Indexes : Holds(cache'[i], k) <=> Holds(cache[i], k)
           /\ \A i \in Indexes : Reaches(k, i)' <=> Reaches(k, i)
           /\ NoneOf(k)' <=> NoneOf(k)
           /\ OneOf(k)' <=> OneOf(k)
<1>1. \A i \in Indexes : Holds(cache'[i], k) <=> Holds(cache[i], k)
  BY DEF Holds
<1>2. \A n \in DOMAIN CacheProbe[k] : CacheProbe[k][n] \in Indexes
  BY ProbedIndexes
<1>3. ASSUME NEW i \in Indexes PROVE Reaches(k, i)' <=> Reaches(k, i)
  BY <1>1, <1>2 DEF Reaches, Filled
<1>4. NoneOf(k)' <=> NoneOf(k)
  BY <1>1 DEF NoneOf
<1>5. OneOf(k)' <=> OneOf(k)
  BY <1>1, <1>3 DEF OneOf
<1> QED
  BY <1>1, <1>3, <1>4, <1>5

\* An entry of another key fills what it is put in, and takes from k what was there.
LEMMA OtherPut ==
    ASSUME CacheTyped, NEW k \in Keys, NEW i \in Indexes, NEW e \in Entry, e.key # k,
           cache' = [cache EXCEPT ![i] = e]
    PROVE  /\ \A j \in Indexes : Reaches(k, j) => Reaches(k, j)'
           /\ NoneOf(k) => NoneOf(k)'
           /\ OneOf(k) => OneOf(k)'
<1>1. \A j \in Indexes : cache'[j] = IF j = i THEN e ELSE cache[j]
  BY DEF CacheTyped
<1>2. e # NoEntry /\ ~Holds(e, k)
  BY CachedAssumption DEF Holds
<1>3. \A n \in DOMAIN CacheProbe[k] : CacheProbe[k][n] \in Indexes
  BY ProbedIndexes
<1>4. ASSUME NEW j \in Indexes, Reaches(k, j) PROVE Reaches(k, j)'
  BY <1>1, <1>2, <1>3, <1>4 DEF Reaches, Filled
<1>5. \A j \in Indexes : Holds(cache'[j], k) => Holds(cache[j], k)
  BY <1>1, <1>2
<1>6. NoneOf(k) => NoneOf(k)'
  BY <1>5 DEF NoneOf
<1>7. OneOf(k) => OneOf(k)'
  BY <1>4, <1>5 DEF OneOf
<1> QED
  BY <1>4, <1>6, <1>7

\* An entry of k is put in the free place that a search for k reaches: then it is the one.
LEMMA OwnPut ==
    ASSUME CacheTyped, NEW k \in Keys, NEW i \in Indexes, NEW e \in Entry, e.key = k,
           cache' = [cache EXCEPT ![i] = e],
           cache[i] = NoEntry, NoneOf(k), Reaches(k, i)
    PROVE  /\ OneOf(k)'
           /\ \A j \in Indexes : cache'[j] = NoEntry => ~Reaches(k, j) \/ cache[j] # NoEntry
<1>1. \A j \in Indexes : cache'[j] = IF j = i THEN e ELSE cache[j]
  BY DEF CacheTyped
<1>2. e # NoEntry /\ Holds(e, k)
  BY CachedAssumption DEF Holds
<1>3. \A n \in DOMAIN CacheProbe[k] : CacheProbe[k][n] \in Indexes /\ n \in Nat
  BY ProbedIndexes
<1>4. PICK n \in DOMAIN CacheProbe[k] : CacheProbe[k][n] = i /\ Filled(k, n)
  BY DEF Reaches
<1>5. \A m \in DOMAIN CacheProbe[k] : m < n =>
        CacheProbe[k][m] # i /\ cache'[CacheProbe[k][m]] # NoEntry
        /\ ~Holds(cache'[CacheProbe[k][m]], k)
  BY <1>1, <1>3, <1>4 DEF Filled
<1>6. Reaches(k, i)'
  BY <1>3, <1>4, <1>5 DEF Reaches, Filled
<1>7. \A j \in Indexes : Holds(cache'[j], k) => j = i
  BY <1>1 DEF NoneOf
<1>8. OneOf(k)'
  BY <1>6, <1>7 DEF OneOf
<1>9. ASSUME NEW j \in Indexes, cache'[j] = NoEntry, Reaches(k, j), cache[j] = NoEntry
      PROVE  FALSE
  <2>1. PICK m \in DOMAIN CacheProbe[k] : CacheProbe[k][m] = j /\ Filled(k, m)
    BY <1>9 DEF Reaches
  <2>2. j # i
    BY <1>1, <1>2, <1>9
  <2>3. m < n \/ n < m
    BY <1>3, <1>4, <2>1, <2>2
  <2> QED
    BY <1>3, <1>4, <1>9, <2>1, <2>3 DEF Filled
<1> QED
  BY <1>8, <1>9

\* A free place that a key keeps is reached, and one that has the key is the one.
LEMMA PlaceReached ==
    ASSUME KeepsPlace, CacheTyped, EntriesPlaced, NEW k \in Deletable, OneOf(k)
    PROVE  /\ Stops(k) # {}
           /\ cache[Place(k)] = NoEntry \/ Holds(cache[Place(k)], k)
           /\ cache[Place(k)] = NoEntry => NoneOf(k) /\ Reaches(k, Place(k))
<1>1. k \in Keys
  BY CachedAssumption
<1>2. PICK i \in Probed(k) : \A j \in Keys \ {k} : i \notin Probed(j)
  BY DEF KeepsPlace
<1>3. i \in Indexes
  BY <1>1, ProbedIndexes
<1>4. cache[i] = NoEntry \/ Holds(cache[i], k)
  <2>1. ASSUME cache[i] # NoEntry PROVE cache[i].key = k
    <3>1. cache[i].key \in Keys
      BY <1>3, <2>1 DEF CacheTyped, Entry
    <3> QED
      BY <1>2, <1>3, <2>1, <3>1 DEF EntriesPlaced
  <2> QED
    BY <2>1 DEF Holds
<1>5. PICK n \in DOMAIN CacheProbe[k] : CacheProbe[k][n] = i
  BY DEF Probed
<1>6. Stops(k) # {}
  BY <1>4, <1>5 DEF Stops
<1>7. PICK m \in Stops(k) : Place(k) = CacheProbe[k][m] /\ \A x \in Stops(k) : m <= x
  BY <1>1, <1>6, PlaceOf
<1>8. cache[Place(k)] = NoEntry \/ Holds(cache[Place(k)], k)
  BY <1>7 DEF Stops
<1>9. DOMAIN CacheProbe[k] \subseteq Nat
  BY <1>1, ProbedIndexes
<1>10. Filled(k, m)
  <2> SUFFICES ASSUME NEW x \in DOMAIN CacheProbe[k], x < m
               PROVE  cache[CacheProbe[k][x]] # NoEntry /\ ~Holds(cache[CacheProbe[k][x]], k)
    BY DEF Filled
  <2>1. m \in Nat /\ x \in Nat
    BY <1>9 DEF Stops
  <2>2. x \notin Stops(k)
    BY <1>7, <2>1
  <2> QED
    BY <2>2 DEF Stops
<1>11. Reaches(k, Place(k))
  BY <1>7, <1>10 DEF Reaches, Stops
<1>12. ASSUME cache[Place(k)] = NoEntry, NEW j \in Indexes, Holds(cache[j], k) PROVE FALSE
  <2>1. PICK x \in DOMAIN CacheProbe[k] : CacheProbe[k][x] = j /\ Filled(k, x)
    BY <1>12 DEF OneOf, Reaches
  <2>2. x \in Stops(k)
    BY <1>12, <2>1 DEF Stops
  <2>3. m < x
    <3>1. m <= x
      BY <1>7, <2>2
    <3>2. m # x
      BY <1>7, <1>12, <2>1 DEF Holds
    <3>3. m \in Nat /\ x \in Nat
      BY <1>9, <2>2 DEF Stops
    <3> QED
      BY <3>1, <3>2, <3>3
  <2>4. m \in DOMAIN CacheProbe[k]
    BY DEF Stops
  <2> QED
    BY <1>7, <1>12, <2>1, <2>3, <2>4 DEF Filled
<1> QED
  BY <1>6, <1>8, <1>11, <1>12 DEF NoneOf

\* What kv_cache_put does for a key that is deleted.
LEMMA PutEntries ==
    ASSUME KeepsPlace, CInv, SingleEntry, NEW t \in Threads, CachePut(t)
    PROVE  /\ \A k \in Deletable : OneOf(k)'
           /\ \A u \in Threads : u # t /\ ctx[u] # NoContext /\ req[u].key \in Deletable =>
                Informed(u)'
<1> USE DEF CInv
<1> DEFINE new == Fresh(t)
           own == req[t].key
<1>1. /\ new \in Entry /\ new.key = own /\ own \in Keys
      /\ ctx[t] \in Context /\ ctx[t].index \in Probed(own) /\ ctx[t] # NoContext
      /\ cache' = kv_cache_put(ctx[t], new) /\ UNCHANGED vars
  BY CachePutEffect, RequestFields, NoContextIsNone
<1> HIDE DEF new
<1>2. \A k \in Deletable : k \in Keys /\ OneOf(k)
  BY CachedAssumption DEF SingleEntry
<1>3. ASSUME NEW u \in Threads, u # t, ctx[u] # NoContext, req[u].key \in Deletable
      PROVE  /\ Informed(u) /\ ctx'[u] = ctx[u] /\ req'[u] = req[u]
             /\ ctx[u].index \in Indexes /\ req[u].key \in Keys
  <2>1. Informed(u) /\ ctx'[u] = ctx[u] /\ req'[u] = req[u]
    BY <1>3, CachedOthers DEF SingleEntry
  <2>2. ctx[u] \in Context
    BY <1>3 DEF CacheTyped
  <2> QED
    BY <1>2, <1>3, <2>1, <2>2, ContextUpdates
<1>4. CASE \A i \in Indexes : /\ cache'[i] = NoEntry <=> cache[i] = NoEntry
                              /\ cache[i] # NoEntry => cache'[i].key = cache[i].key
  <2>1. \A k \in Deletable : OneOf(k)'
    BY <1>2, <1>4, KeysKept
  <2>2. ASSUME NEW u \in Threads, u # t, ctx[u] # NoContext, req[u].key \in Deletable
        PROVE  Informed(u)'
    <3>1. \A k \in Keys : /\ \A i \in Indexes : Reaches(k, i)' <=> Reaches(k, i)
                          /\ NoneOf(k)' <=> NoneOf(k)
      BY <1>4, KeysKept
    <3> QED
      BY <1>3, <1>4, <2>2, <3>1 DEF Informed
  <2> QED
    BY <2>1, <2>2
<1>5. ASSUME NEW i \in Indexes, cache' = [cache EXCEPT ![i] = new],
             own \in Deletable => cache[i] = NoEntry /\ NoneOf(own) /\ Reaches(own, i)
      PROVE  /\ \A k \in Deletable : OneOf(k)'
             /\ \A u \in Threads : u # t /\ ctx[u] # NoContext /\ req[u].key \in Deletable =>
                  Informed(u)'
  <2>0. ASSUME NEW k \in Keys, k # own
        PROVE  /\ \A j \in Indexes : Reaches(k, j) => Reaches(k, j)'
               /\ NoneOf(k) => NoneOf(k)'
    BY <1>1, <1>5, <2>0, OtherPut
  <2>1. ASSUME NEW k \in Deletable PROVE OneOf(k)'
    <3>1. CASE k = own
      BY <1>1, <1>5, <2>1, <3>1, OwnPut
    <3>2. CASE k # own
      BY <1>1, <1>2, <1>5, <2>1, <3>2, OtherPut
    <3> QED
      BY <3>1, <3>2
  <2>2. ASSUME NEW u \in Threads, u # t, ctx[u] # NoContext, req[u].key \in Deletable
        PROVE  Informed(u)'
    <3>0. \A j \in Indexes : cache'[j] = NoEntry => cache[j] = NoEntry
      BY <1>1, <1>5, CachedAssumption DEF CacheTyped
    <3>1. CASE req[u].key = own
      <4>1. \A j \in Indexes : cache'[j] = NoEntry => ~Reaches(own, j) \/ cache[j] # NoEntry
        BY <1>1, <1>5, <2>2, <3>1, OwnPut
      <4> QED
        BY <1>3, <2>2, <3>0, <3>1, <4>1 DEF Informed
    <3>2. CASE req[u].key # own
      BY <1>3, <2>0, <2>2, <3>0, <3>2 DEF Informed
    <3> QED
      BY <3>1, <3>2
  <2> QED
    BY <2>1, <2>2
<1>6. PICK i \in Probed(new.key) :
        \/ /\ ctx[t].state = "found" /\ Holds(cache[i], new.key) /\ i = ctx[t].index
           /\ kv_cache_put(ctx[t], new) =
                [cache EXCEPT ![i] = [@ EXCEPT !.secs = new.secs, !.ts = new.ts]]
        \/ /\ ctx[t].state = "found" => ~Holds(cache[ctx[t].index], new.key)
           /\ i = IF Usable(ctx[t], new.key) THEN ctx[t].index ELSE Place(new.key)
           /\ kv_cache_put(ctx[t], new) = [cache EXCEPT ![i] = new]
  BY <1>1, PutInto
<1>7. i \in Indexes
  BY <1>1, ProbedIndexes
<1>8. CASE /\ Holds(cache[i], own)
           /\ cache' = [cache EXCEPT ![i] = [@ EXCEPT !.secs = new.secs, !.ts = new.ts]]
  <2> DEFINE e == [cache[i] EXCEPT !.secs = new.secs, !.ts = new.ts]
  <2>1. cache[i] \in Entry /\ cache[i] # NoEntry
    BY <1>7, <1>8 DEF Holds, CacheTyped
  <2>2. e \in Entry /\ e.key = cache[i].key
    BY <1>1, <2>1 DEF Entry
  <2>3. cache' = [cache EXCEPT ![i] = e]
    BY <1>8
  <2> HIDE DEF e
  <2> QED
    BY <1>4, <1>7, <2>1, <2>2, <2>3, CachedAssumption DEF CacheTyped
<1>9. CASE /\ i = IF Usable(ctx[t], own) THEN ctx[t].index ELSE Place(own)
           /\ cache' = [cache EXCEPT ![i] = new]
  <2>1. CASE own \in Deletable
    <3>1. Informed(t) /\ OneOf(own)
      BY <1>1, <2>1 DEF SingleEntry
    <3>2. CASE cache[i] = NoEntry /\ NoneOf(own) /\ Reaches(own, i)
      BY <1>5, <1>7, <1>9, <3>2
    <3>3. CASE Holds(cache[i], own)
      BY <1>1, <1>4, <1>7, <1>9, <3>3, CachedAssumption DEF CacheTyped, Holds
    <3>4. CASE Usable(ctx[t], own)
      BY <1>9, <3>1, <3>2, <3>4 DEF Usable, Informed
    <3>5. CASE ~Usable(ctx[t], own)
      BY <1>9, <2>1, <3>1, <3>2, <3>3, <3>5, PlaceReached
    <3> QED
      BY <3>4, <3>5
  <2>2. CASE own \notin Deletable
    BY <1>5, <1>7, <1>9, <2>2
  <2> QED
    BY <2>1, <2>2
<1> QED
  BY <1>1, <1>6, <1>8, <1>9

\* A delete that asks the cache leaves nothing of its key there, and all else as it was.
LEMMA DeleteEntries ==
    ASSUME KeepsPlace, CInv, SingleEntry, NEW t \in Threads, CacheDelete(t)
    PROVE  /\ \A k \in Deletable : OneOf(k)'
           /\ NoneOf(req[t].key)'
           /\ req[t].key \in Deletable /\ req[t].op = "delete" /\ req' = req
           /\ ctx' = [ctx EXCEPT ![t] = Blank(req[t].key)]
<1> USE DEF CInv, CacheTyped
<1> DEFINE own == req[t].key
           found == {n \in DOMAIN CacheProbe[own] : Holds(cache[CacheProbe[own][n]], own)}
           i == CacheProbe[own][Min(found)]
<1>1. pc[t] = "del_read" /\ req' = req /\ ctx' = [ctx EXCEPT ![t] = Blank(own)]
  BY DEF CacheDelete
<1>2. req[t].op = "delete" /\ own \in Keys /\ req[t] # NoRequest
  BY <1>1, CachedCallOf DEF DeletePcs
<1>3. own \in Deletable
  BY <1>2 DEF SingleEntry, Uncovered
<1>4. \A k \in Deletable : k \in Keys /\ OneOf(k)
  BY CachedAssumption DEF SingleEntry
<1>5. CASE found = {} /\ cache' = cache
  <2>1. NoneOf(own)
    <3> SUFFICES ASSUME NEW j \in Indexes, Holds(cache[j], own) PROVE FALSE
      BY DEF NoneOf
    <3>1. j \in Probed(own)
      BY DEF EntriesPlaced, Holds
    <3>2. PICK n \in DOMAIN CacheProbe[own] : CacheProbe[own][n] = j
      BY <3>1 DEF Probed
    <3>3. n \in found
      BY <3>2
    <3> QED
      BY <1>5, <3>3
  <2>2. /\ \A k \in Deletable : OneOf(k)' <=> OneOf(k)
        /\ NoneOf(own)' <=> NoneOf(own)
    <3>1. \A j \in Indexes : /\ cache'[j] = NoEntry <=> cache[j] = NoEntry
                             /\ cache[j] # NoEntry => cache'[j].key = cache[j].key
      BY <1>5
    <3>2. \A k \in Keys : (NoneOf(k)' <=> NoneOf(k)) /\ (OneOf(k)' <=> OneOf(k))
      BY <3>1, KeysKept
    <3>3. NoneOf(req[t].key)' <=> \A j \in Indexes : ~Holds(cache'[j], req'[t].key)
      BY DEF NoneOf
    <3>4. NoneOf(req[t].key)' <=> NoneOf(own)
      BY <1>1, <1>5, <3>3 DEF NoneOf
    <3> QED
      BY <1>4, <3>2, <3>4
  <2> QED
    BY <1>1, <1>2, <1>3, <1>4, <2>1, <2>2
<1>6. CASE found # {} /\ cache' = [cache EXCEPT ![i] = NoEntry]
  <2>1. i \in Indexes /\ i \in Probed(own) /\ Holds(cache[i], own)
    <3>1. found \in SUBSET Nat
      BY <1>2, ProbedIndexes
    <3>2. Min(found) \in found
      BY <1>6, <3>1, MinIsLeast
    <3> QED
      BY <1>2, <3>2, ProbedIndexes
  <2>2. cache' = [cache EXCEPT ![i] = NoEntry]
    BY <1>6
  <2> HIDE DEF i, found
  <2>3. \A j \in Indexes : cache'[j] = IF j = i THEN NoEntry ELSE cache[j]
    BY <2>2
  <2>4. \A j \in Indexes : ~Holds(cache'[j], own)
    BY <1>3, <1>4, <2>1, <2>3 DEF OneOf, Holds
  <2>5. NoneOf(req[t].key)'
    BY <1>1, <2>4 DEF NoneOf
  <2>6. ASSUME NEW k \in Deletable PROVE OneOf(k)'
    <3>1. CASE k = own
      BY <2>4, <3>1 DEF OneOf
    <3>2. CASE k # own
      <4>1. \A n \in DOMAIN CacheProbe[k] :
              CacheProbe[k][n] \in Indexes /\ CacheProbe[k][n] # i
        BY <1>3, <1>4, <2>1, <3>2, ProbedIndexes DEF KeepsPlace
      <4>2. \A n \in DOMAIN CacheProbe[k] : cache'[CacheProbe[k][n]] = cache[CacheProbe[k][n]]
        BY <2>3, <4>1
      <4>3. \A j \in Indexes : Reaches(k, j)' <=> Reaches(k, j)
        BY <4>2 DEF Reaches, Filled
      <4>4. \A j \in Indexes : Holds(cache'[j], k) => Holds(cache[j], k)
        BY <2>3 DEF Holds
      <4> QED
        BY <1>4, <4>3, <4>4 DEF OneOf
    <3> QED
      BY <3>1, <3>2
  <2> QED
    BY <1>1, <1>2, <1>3, <2>5, <2>6
<1> QED
  BY <1>5, <1>6 DEF CacheDelete, kv_cache_delete

\* A step of a call keeps its request, but for its first and its last.
LEMMA CachedRequest ==
    ASSUME CInv, NEW t \in Threads,
           \/ CacheGet(t) \/ CacheInsert(t) \/ CacheDrop(t) \/ CachedWrite(t)
           \/ CachePut(t) \/ CacheDelete(t) \/ Uncached(t)
    PROVE  req' = req /\ req[t] # NoRequest
<1>1. req' = req
  <2>1. CASE Uncached(t)
    BY <2>1, StepWithin DEF Uncached, Finish, DeviceError, DevicePcs, Step
  <2> QED
    BY <2>1 DEF CacheGet, CacheInsert, Contend, Insert, CacheDrop, CachedWrite, PutWrite, CachePut,
       CacheDelete, vars
<1>2. pc[t] # "idle"
  <2>1. CASE Uncached(t)
    <3>1. Step(t) /\ ~Finish(t)
      BY <2>1 DEF Uncached, Finish, DeviceError, DevicePcs, Step
    <3> QED
      BY <3>1, StepWithin DEF GenPcs, ReadPcs, DeletePcs
  <2> QED
    BY <2>1 DEF CacheGet, CacheInsert, CacheDrop, CachedWrite, PutWrite, CachePut, CacheDelete
<1> QED
  BY <1>1, <1>2, CachedCallOf DEF CInv

LEMMA AloneStep ==
    ASSUME KeepsPlace, CInv, DeletesAlone, NEW t \in Threads,
           \/ CCall(t) \/ CacheGet(t) \/ CacheInsert(t) \/ CacheDrop(t) \/ CachedWrite(t)
           \/ CachePut(t) \/ CacheDelete(t) \/ Uncached(t) \/ CachedFinish(t)
    PROVE  DeletesAlone'
<1>1. \A u \in Threads : u # t => req'[u] = req[u]
  BY CachedOthers
<1>2. req \in [Threads -> Requests \cup {NoRequest}]
  BY DEF CInv, IInvAt, Typed
<1>3. CASE CCall(t)
  <2>1. PICK r \in Requests :
          /\ req' = [req EXCEPT ![t] = r]
          /\ \A u \in Threads : req[u] # NoRequest => ~Apart(r) /\ ~Apart(req[u])
    BY <1>3 DEF CCall, Call, Begin
  <2>2. \A u \in Threads : req[u] # NoRequest => r.op # "delete" /\ req[u].op # "delete"
    BY <2>1 DEF Apart, KeepsPlace
  <2>3. req'[t] = r
    BY <1>2, <2>1
  <2> QED
    BY <1>1, <2>2, <2>3 DEF DeletesAlone
<1>4. CASE CachedFinish(t)
  <2>1. req'[t] = NoRequest
    BY <1>2, <1>4 DEF CachedFinish, Finish
  <2> QED
    BY <1>1, <2>1 DEF DeletesAlone
<1>5. CASE ~CCall(t) /\ ~CachedFinish(t)
  BY <1>5, CachedRequest DEF DeletesAlone
<1> QED
  BY <1>3, <1>4, <1>5

\* What a call of its own does, that does not change the cache, with what it knows of it.
LEMMA KnownStep ==
    ASSUME KeepsPlace, CInv, CInv', SingleEntry, NEW t \in Threads,
           \/ CCall(t) \/ CacheGet(t) \/ CacheInsert(t) \/ CacheDrop(t) \/ CachedWrite(t)
           \/ Uncached(t) \/ CachedFinish(t)
    PROVE  /\ cache' = cache
           /\ Uncovered(t)'
           /\ ctx'[t] # NoContext /\ req'[t].key \in Deletable => Informed(t)'
<1>1. cache' = cache
  BY DEF CCall, CacheGet, CacheInsert, CacheDrop, CachedWrite, Uncached, CachedFinish
<1>2. ctx \in [Threads -> Context \cup {NoContext}] /\ pc \in [Threads -> CPcs]
      /\ req \in [Threads -> Requests \cup {NoRequest}]
  BY DEF CInv, CacheTyped, IInvAt, Typed
<1>3. \A k : /\ NoneOf(k)' <=> NoneOf(k)
             /\ \A i : Reaches(k, i)' <=> Reaches(k, i)
  BY <1>1 DEF NoneOf, Reaches, Filled, Holds
<1>4. CASE CCall(t)
  <2>1. PICK r \in Requests :
          /\ r.op = "delete" => r.key \in Deletable
          /\ pc[t] = "idle" /\ req' = [req EXCEPT ![t] = r] /\ ctx' = ctx
    BY <1>4 DEF CCall, Call, Begin
  <2>2. req'[t] = r /\ ctx'[t] = NoContext
    BY <1>2, <2>1 DEF CInv, Contexts
  <2> QED
    BY <1>1, <2>1, <2>2 DEF Uncovered
<1>5. CASE CachedFinish(t)
  <2>1. req'[t] = NoRequest /\ ctx'[t] = NoContext
    BY <1>2, <1>5 DEF CachedFinish, Finish
  <2> QED
    BY <1>1, <2>1 DEF Uncovered
<1>6. CASE CacheGet(t)
  <2>1. req[t].op = "put" /\ req[t].key \in Keys /\ req' = req
    BY <1>6, CachedCallOf, CachedRequest DEF CacheGet, GenPcs, CInv
  <2> DEFINE k == req[t].key
  <2>2. ctx'[t] = kv_cache_get(k)
    BY <1>2, <1>6 DEF CacheGet
  <2>3. /\ ctx'[t].index = Place(k)
        /\ ctx'[t].state = "evict" <=> Stops(k) = {}
        /\ ctx'[t].state = "empty" <=> cache[Place(k)] = NoEntry
    BY <2>1, <2>2, Got DEF CInv
  <2>4. ASSUME k \in Deletable
        PROVE  /\ Stops(k) # {}
               /\ cache[Place(k)] = NoEntry => NoneOf(k) /\ Reaches(k, Place(k))
    <3>1. OneOf(k)
      BY <2>4 DEF SingleEntry
    <3> QED
      BY <2>4, <3>1, PlaceReached DEF CInv
  <2>5. k \in Deletable => Informed(t)'
    BY <1>1, <1>3, <2>1, <2>3, <2>4 DEF Informed
  <2> QED
    BY <1>1, <2>1, <2>5 DEF Uncovered
<1>7. CASE CacheInsert(t)
  <2>1. req[t].op = "put" /\ req' = req /\ ctx' = ctx
    BY <1>7, CachedCallOf, CachedRequest DEF CacheInsert, GenPcs, CInv
  <2>2. ctx[t] # NoContext /\ req[t].key \in Deletable => Informed(t)
    BY DEF SingleEntry
  <2> QED
    BY <1>1, <1>3, <2>1, <2>2 DEF Uncovered, Informed
<1>8. CASE CacheDrop(t)
  <2>1. req[t].op = "put" /\ req[t].key \in Keys /\ req' = req
    BY <1>8, CachedCallOf, CachedRequest DEF CacheDrop, Contexts, CInv
  <2>2. ctx'[t] = Blank(req[t].key)
    BY <1>2, <1>8 DEF CacheDrop
  <2>3. ctx'[t].state = "none"
    BY <2>1, <2>2, BlankContext
  <2> QED
    BY <1>1, <2>1, <2>3 DEF Uncovered, Informed
<1>9. CASE CachedWrite(t)
  <2>1. pc[t] = "put_write" /\ ctx' = [ctx EXCEPT ![t].expiry = NewRecord(req[t]).expiry]
    BY <1>9 DEF CachedWrite, PutWrite
  <2>2. req[t].op = "put" /\ req[t] \in Requests /\ req' = req
    BY <1>9, <2>1, CachedCallOf, CachedRequest DEF GenPcs, CInv
  <2>3. ctx[t] \in Context /\ ctx[t] # NoContext
    BY <1>2, <2>1 DEF CInv, Contexts, GenPcs
  <2>4. NewRecord(req[t]).expiry \in Nat
    BY <2>2, RequestFields DEF NewRecord, CInv, IInvAt, Typed
  <2>5. ctx'[t] = [ctx[t] EXCEPT !.expiry = NewRecord(req[t]).expiry]
    BY <1>2, <2>1
  <2>6. ctx'[t].state = ctx[t].state /\ ctx'[t].index = ctx[t].index
    BY <2>3, <2>4, <2>5, ContextUpdates
  <2>7. req[t].key \in Deletable => Informed(t)
    BY <2>3 DEF SingleEntry
  <2> QED
    BY <1>1, <1>3, <2>2, <2>6, <2>7 DEF Uncovered, Informed
<1>10. CASE Uncached(t)
  <2>1. Step(t) /\ ~Finish(t) /\ ctx' = ctx /\ req' = req
    BY <1>10, CachedRequest DEF Uncached, Finish, Step, DeviceError, DevicePcs
  <2>2. pc[t] \in GenPcs \cup ReadPcs \cup DeletePcs /\ pc[t] # "idle"
    BY <2>1, StepWithin DEF GenPcs, ReadPcs, DeletePcs
  <2>3. req[t].op = "delete" => pc[t] \in DeletePcs
    BY <2>2, CachedCallOf DEF CInv
  <2>4. Uncovered(t) /\ (ctx[t] # NoContext /\ req[t].key \in Deletable => Informed(t))
    BY DEF SingleEntry
  <2> QED
    BY <1>1, <1>3, <2>1, <2>3, <2>4 DEF Uncovered, Informed
<1> QED
  BY <1>4, <1>5, <1>6, <1>7, <1>8, <1>9, <1>10

LEMMA SingleEntryStep ==
    ASSUME KeepsPlace, CInv, SingleEntry, [CNext]_cvars
    PROVE  SingleEntry'
<1>1. CInv'
  BY CInductive
<1>2. CASE (Tick \/ UNCHANGED vars) /\ UNCHANGED <<cache, ctx>>
  <2>1. UNCHANGED <<pc, req, cache, ctx>>
    BY <1>2 DEF Tick, vars, local
  <2> QED
    BY <2>1 DEF SingleEntry, DeletesAlone, OneOf, NoneOf, Reaches, Filled, Holds, Uncovered, Informed
<1>3. ASSUME NEW t \in Threads,
             \/ CCall(t) \/ CacheGet(t) \/ CacheInsert(t) \/ CacheDrop(t) \/ CachedWrite(t)
             \/ CachePut(t) \/ CacheDelete(t) \/ Uncached(t) \/ CachedFinish(t)
      PROVE  SingleEntry'
  <2>1. DeletesAlone'
    BY <1>3, AloneStep DEF SingleEntry
  <2>2. ASSUME NEW u \in Threads, u # t
        PROVE  pc'[u] = pc[u] /\ req'[u] = req[u] /\ ctx'[u] = ctx[u]
    BY <1>3, <2>2, CachedOthers
  <2>3. CASE CachePut(t)
    <3>1. /\ req[t].op = "put" /\ req[t] # NoRequest /\ req' = req
          /\ ctx' = [ctx EXCEPT ![t].state = "stored"] /\ ctx[t] \in Context
      BY <2>3, CachePutEffect, CachedRequest
    <3>2. ctx'[t].state = "stored"
      BY <3>1 DEF CInv, CacheTyped, Context
    <3>3. \A u \in Threads : Uncovered(u)'
      <4>1. \A u \in Threads : req[u] # NoRequest => req[u].op # "delete"
        BY <3>1 DEF SingleEntry, DeletesAlone
      <4> QED
        BY <3>1, <4>1 DEF Uncovered
    <3>4. Informed(t)'
      BY <3>2 DEF Informed
    <3> QED
      BY <2>1, <2>2, <2>3, <3>3, <3>4, PutEntries DEF SingleEntry
  <2>4. CASE CacheDelete(t)
    <3>1. /\ \A k \in Deletable : OneOf(k)'
          /\ NoneOf(req[t].key)'
          /\ req[t].key \in Deletable /\ req[t].op = "delete" /\ req' = req
          /\ ctx' = [ctx EXCEPT ![t] = Blank(req[t].key)]
      BY <2>4, DeleteEntries
    <3>2. req[t] # NoRequest
      BY <2>4, CachedRequest
    <3>3. \A u \in Threads : u # t => req[u] = NoRequest
      BY <3>1, <3>2 DEF SingleEntry, DeletesAlone
    <3>4. \A u \in Threads : u # t => ctx'[u] = NoContext
      BY <2>2, <3>3 DEF CInv, IInvAt, Located, Contexts
    <3>5. ctx'[t].state = "none"
      <4>1. req[t].key \in Keys
        BY <3>1, CachedAssumption
      <4> QED
        BY <3>1, <4>1, BlankContext DEF CInv, CacheTyped
    <3>6. \A u \in Threads : Uncovered(u)'
      BY <3>1, <3>3 DEF Uncovered
    <3>7. Informed(t)'
      BY <3>5 DEF Informed
    <3> QED
      BY <2>1, <3>1, <3>4, <3>6, <3>7 DEF SingleEntry
  <2>5. CASE ~CachePut(t) /\ ~CacheDelete(t)
    <3>1. /\ cache' = cache /\ Uncovered(t)'
          /\ ctx'[t] # NoContext /\ req'[t].key \in Deletable => Informed(t)'
      BY <1>1, <1>3, <2>5, KnownStep
    <3>2. \A k : OneOf(k)' <=> OneOf(k)
      BY <3>1 DEF OneOf, Reaches, Filled, Holds
    <3>3. ASSUME NEW u \in Threads, u # t
          PROVE  /\ Uncovered(u)'
                 /\ ctx'[u] # NoContext /\ req'[u].key \in Deletable => Informed(u)'
      <4>1. pc'[u] = pc[u] /\ req'[u] = req[u] /\ ctx'[u] = ctx[u]
        BY <2>2, <3>3
      <4>2. \A k : (NoneOf(k)' <=> NoneOf(k)) /\ \A i : Reaches(k, i)' <=> Reaches(k, i)
        BY <3>1 DEF NoneOf, Reaches, Filled, Holds
      <4>3. Uncovered(u) /\ (ctx[u] # NoContext /\ req[u].key \in Deletable => Informed(u))
        BY DEF SingleEntry
      <4> QED
        BY <3>1, <4>1, <4>2, <4>3 DEF Uncovered, Informed
    <3> QED
      BY <2>1, <3>1, <3>2, <3>3 DEF SingleEntry
  <2> QED
    BY <2>3, <2>4, <2>5
<1> QED
  BY <1>2, <1>3, CachedKinds

LEMMA InitSingleEntry == CInit => SingleEntry
  BY DEF CInit, HInit, Init, Opened, SingleEntry, DeletesAlone, OneOf, NoneOf, Holds, Uncovered

\* What kv_cache_put leaves is where a search for its key looks and leads to where the key
\* may be; and where keys that are deleted keep a place in the cache and their deletes
\* have no company, such a key has one entry only.
THEOREM CachePlacementHolds ==
    ASSUME KeepsPlace
    PROVE  CSpec => []CachePlacement
<1> DEFINE Inv == CInv /\ SingleEntry
<1>1. CInit => Inv
  BY InitCInv, InitSingleEntry
<1>2. Inv /\ [CNext]_cvars => Inv'
  BY CInductive, SingleEntryStep
<1>3. Inv => CachePlacement
  <2> SUFFICES ASSUME Inv, NEW i \in Indexes, cache[i] # NoEntry
               PROVE  /\ i \in Probed(cache[i].key)
                      /\ cache[i].lba \in ProbeSlots(cache[i].key)
                      /\ cache[i].key \in Deletable =>
                           \A j \in Indexes \ {i} : ~Holds(cache[j], cache[i].key)
    BY DEF CachePlacement
  <2>1. Holds(cache[i], cache[i].key)
    BY DEF Holds
  <2> QED
    BY <2>1 DEF CInv, EntriesPlaced, SingleEntry, OneOf
<1> HIDE DEF Inv
<1> QED
  BY <1>1, <1>2, <1>3, PTL DEF CSpec

-----------------------------------------------------------------------------
\* No slot is shared by keys.
SlotsDisjoint == \A j, k \in Keys : j # k => ProbeSlots(j) \cap ProbeSlots(k) = {}

\* An excess to be trimmed is of a record that is there, and so is what a put has written.
Guided(t) ==
    /\ pc[t] \in {"idle", "gen_range", "gen_drop"} => trim_len[t] = 0
    /\ pc[t] \in {"gen_insert", "gen_read", "put_write"} /\ trim_len[t] # 0 =>
         media[lba[t]] # NoRec
    /\ pc[t] = "finish" /\ ~Stored(t) => media[lba[t]] # NoRec

\* What the cache leads to is there.
Leads ==
    /\ \A i \in Indexes : cache[i] # NoEntry => media[cache[i].lba] # NoRec
    /\ \A t \in Threads : Guided(t)

\* A write leaves something at its slot.
LEMMA WriteFills ==
    ASSUME CInv, Leads, NEW t \in Threads, CachedWrite(t)
    PROVE  /\ media'[lba[t]] # NoRec
           /\ \A s \in Slots : media[s] # NoRec => media'[s] # NoRec
<1> USE DEF CInv, IInvAt, Typed
<1>1. /\ pc[t] = "put_write"
      /\ media' = [media EXCEPT ![lba[t]] = Written(media[lba[t]], req[t], trim_len[t])]
  BY DEF CachedWrite, PutWrite
<1>2. req[t] \in Requests /\ req[t].op = "put"
  BY <1>1, CachedCallOf DEF GenPcs
<1>3. trim_len[t] # 0 => media[lba[t]] # NoRec
  BY <1>1 DEF Leads, Guided
<1>4. NewRecord(req[t]) \in Record
  BY <1>2, RequestFields, KVOpsAssumption DEF NewRecord, Record
<1>5. [NewRecord(req[t]) EXCEPT !.val = Torn] \in Record
  BY <1>4 DEF Record
<1>6. ASSUME media[lba[t]] # NoRec PROVE [media[lba[t]] EXCEPT !.val = Torn] \in Record
  <2>1. media[lba[t]] \in Record
    BY <1>6
  <2> QED
    BY <2>1 DEF Record
<1>7. trim_len[t] <= Sectors[req[t].val] \/ media[lba[t]] # NoRec
  <2>1. Sectors[req[t].val] \in Nat
    BY <1>2, RequestFields, KVOpsAssumption
  <2> QED
    BY <1>3, <2>1
<1>8. Written(media[lba[t]], req[t], trim_len[t]) # NoRec
  BY <1>4, <1>5, <1>6, <1>7, NoneAreNot DEF Written
<1> QED
  BY <1>1, <1>8

\* Nothing else but a delete takes what is there.
LEMMA MediaKept ==
    ASSUME CInv, Leads, NEW t \in Threads,
           \/ CCall(t) \/ CacheGet(t) \/ CacheInsert(t) \/ CacheDrop(t) \/ CachedWrite(t)
           \/ CachePut(t) \/ CacheDelete(t) \/ Uncached(t) \/ CachedFinish(t)
    PROVE  \/ \A s \in Slots : media[s] # NoRec => media'[s] # NoRec
           \/ Uncached(t) /\ DelTrim(t)
<1>1. CASE CachedWrite(t)
  BY <1>1, WriteFills
<1>2. CASE Uncached(t)
  <2>1. Step(t) /\ ~PutWrite(t)
    BY <1>2 DEF Uncached, Step, PutWrite, DeviceError, Done, Goto, CInv, IInvAt, Typed
  <2> QED
    BY <1>2, <2>1, MediaStep
<1>3. CASE ~CachedWrite(t) /\ ~Uncached(t)
  BY <1>3 DEF CCall, Call, Begin, CacheGet, CacheInsert, Contend, Insert, CacheDrop, CachePut,
     CacheDelete, CachedFinish, Finish, vars
<1> QED
  BY <1>1, <1>2, <1>3

\* How a step moves what is to be trimmed.
LEMMA GuidedStep ==
    ASSUME CInv, Leads, NEW t \in Threads, Uncached(t)
    PROVE  Guided(t)'
<1> USE DEF CInv, IInvAt, Typed, CPcs, Pcs, ReadPcs, GenPcs, DeletePcs, Goto, Done, local
<1>1. Step(t) /\ ~Finish(t) /\ ~PutWrite(t) /\ ctx' = ctx /\ cache' = cache
  BY DEF Uncached, Step, Finish, PutWrite, DeviceError, DevicePcs
<1>2. req' = req /\ Guided(t) /\ pc[t] \in GenPcs \cup ReadPcs \cup DeletePcs
  BY <1>1, StepWithin DEF Leads
<1>3. CASE DeviceError(t)
  BY <1>2, <1>3 DEF DeviceError, Guided, Stored
<1>4. CASE Contend(t) \/ GenRange(t) \/ GenInsert(t)
  <2>1. /\ media' = media /\ lba' = lba /\ trim_len' = trim_len
        /\ \/ pc'[t] = pc[t]
           \/ pc[t] = "gen_range" /\ pc'[t] \in {"gen_insert", "gen_read"}
           \/ pc[t] = "gen_insert" /\ pc'[t] \in {"put_write", "gen_read"}
    BY <1>4 DEF Contend, GenRange, GenInsert, Insert
  <2> QED
    BY <1>2, <2>1 DEF Guided
<1>5. CASE GenReadMatch(t)
  <2>1. media[lba[t]] # NoRec
    BY <1>5 DEF GenReadMatch, Matches
  <2>2. /\ media' = media /\ lba' = lba
        /\ pc'[t] \in {"put_write", "gen_insert"} \/ (pc'[t] = "finish" /\ ret'[t] = "exists")
    BY <1>5 DEF GenReadMatch, LockFirst
  <2> QED
    BY <2>1, <2>2 DEF Guided, Stored
<1>6. CASE GenReadMismatch(t) \/ GenDrop(t)
  <2>1. trim_len'[t] = 0
    BY <1>2, <1>6 DEF GenReadMismatch, GenDrop, Guided
  <2>2. pc'[t] \in {"gen_drop", "gen_range"} \/ (pc'[t] = "finish" /\ ret'[t] = "failed")
    BY <1>6 DEF GenReadMismatch, GenDrop, NextProbe
  <2> QED
    BY <2>1, <2>2 DEF Guided, Stored
<1>7. CASE GetRange(t) \/ ReadMatch(t) \/ ReadMismatch(t) \/ BlindRead(t) \/ Expire(t)
  <2>1. pc'[t] \in ReadPcs \cup {"finish"} /\ pc[t] \in ReadPcs
    BY <1>7 DEF GetRange, ReadMatch, ReadMismatch, BlindRead, ProbeOn, Rehash, Expire, ReadPcs
  <2>2. req'[t].op # "put"
    BY <1>2, <2>1, CachedCallOf
  <2> QED
    BY <2>1, <2>2 DEF Guided, Stored
<1>8. CASE DelRead(t) \/ DelInsert(t) \/ DelReread(t) \/ DelTrim(t)
  <2>1. pc'[t] \in DeletePcs \cup ReadPcs \cup {"finish"} /\ pc[t] \in DeletePcs
    BY <1>8 DEF DelRead, DelInsert, DelReread, DelTrim, DelFound, ProbeOn, Rehash, Insert, DeletePcs, ReadPcs
  <2>2. req'[t].op # "put"
    BY <1>2, <2>1, CachedCallOf
  <2> QED
    BY <2>1, <2>2 DEF Guided, Stored
<1> QED
  BY <1>1, <1>3, <1>4, <1>5, <1>6, <1>7, <1>8 DEF Step

LEMMA GuidedSelf ==
    ASSUME CInv, Leads, NEW t \in Threads,
           \/ CCall(t) \/ CacheGet(t) \/ CacheInsert(t) \/ CacheDrop(t) \/ CachedWrite(t)
           \/ CachePut(t) \/ CacheDelete(t) \/ Uncached(t) \/ CachedFinish(t)
    PROVE  Guided(t)'
<1> USE DEF CInv, IInvAt, Typed, Goto, Done
<1>1. Guided(t)
  BY DEF Leads
<1>2. CASE CCall(t)
  <2>1. /\ pc[t] = "idle" /\ trim_len' = trim_len
        /\ pc'[t] \in {"gen_range", "del_read", "get_range", "read_media"}
    BY <1>2 DEF CCall, Call, Begin
  <2> QED
    BY <1>1, <2>1 DEF Guided
<1>3. CASE CacheGet(t)
  <2>1. pc[t] = "gen_range" /\ req[t].key \in Keys /\ media' = media
    BY <1>3, CachedCallOf DEF CacheGet, GenPcs
  <2> DEFINE c == kv_cache_get(req[t].key)
  <2>2. c.state = "found" => c.entry \in Entry /\ media[c.entry.lba] # NoRec
    <3>1. /\ c.entry = cache[Place(req[t].key)] /\ Place(req[t].key) \in Indexes
          /\ c.state = "found" <=> Holds(cache[Place(req[t].key)], req[t].key)
      BY <2>1, Got, PlaceOf, ProbedIndexes
    <3> QED
      BY <3>1 DEF Holds, CacheTyped, Leads
  <2> HIDE DEF c
  <2>3. CASE UNCHANGED <<pc, lba, trim_len, ret>>
    BY <1>1, <2>1, <2>3 DEF Guided
  <2>4. CASE Done(t, "exists")
    BY <2>4 DEF Guided, Stored
  <2>5. CASE /\ c.state = "found"
             /\ lba' = [lba EXCEPT ![t] = c.entry.lba]
             /\ Goto(t, "gen_insert")
    BY <2>1, <2>2, <2>5 DEF Guided
  <2> QED
    BY <1>3, <2>3, <2>4, <2>5 DEF CacheGet, c
<1>4. CASE CacheInsert(t)
  <2>1. /\ pc[t] = "gen_insert" /\ pc'[t] \in {"gen_insert", "put_write", "cache_drop"}
        /\ UNCHANGED <<media, lba, trim_len>>
    BY <1>4 DEF CacheInsert, Contend, Insert
  <2> QED
    BY <1>1, <2>1 DEF Guided
<1>5. CASE CacheDrop(t)
  BY <1>5 DEF CacheDrop, Guided
<1>6. CASE CachedWrite(t)
  <2>1. pc'[t] = "finish" /\ lba' = lba
    BY <1>6 DEF CachedWrite, PutWrite
  <2> QED
    BY <1>6, <2>1, WriteFills DEF Guided
<1>7. CASE CachePut(t)
  <2>1. pc'[t] = "finish" /\ ctx' = [ctx EXCEPT ![t].state = "stored"] /\ ctx[t] \in Context
    BY <1>7, CachePutEffect DEF vars
  <2>2. ctx'[t].state = "stored"
    BY <2>1 DEF CacheTyped, Context
  <2> QED
    BY <2>1, <2>2 DEF Guided, Stored
<1>8. CASE CacheDelete(t)
  <2>1. pc'[t] \in {"del_read", "del_insert"}
    BY <1>8 DEF CacheDelete
  <2> QED
    BY <2>1 DEF Guided
<1>9. CASE CachedFinish(t)
  BY <1>9 DEF CachedFinish, Finish, Guided
<1> QED
  BY <1>2, <1>3, <1>4, <1>5, <1>6, <1>7, <1>8, <1>9, GuidedStep

\* The entries of the cache still lead to something.
LEMMA EntriesLead ==
    ASSUME SlotsDisjoint, CInv, SingleEntry, Leads, NEW t \in Threads,
           \/ CCall(t) \/ CacheGet(t) \/ CacheInsert(t) \/ CacheDrop(t) \/ CachedWrite(t)
           \/ CachePut(t) \/ CacheDelete(t) \/ Uncached(t) \/ CachedFinish(t)
    PROVE  \A i \in Indexes : cache'[i] # NoEntry => media'[cache'[i].lba] # NoRec
<1> USE DEF CInv
<1>1. \A i \in Indexes : cache[i] # NoEntry =>
        /\ cache[i] \in Entry /\ cache[i].lba \in Slots /\ cache[i].key \in Keys
        /\ media[cache[i].lba] # NoRec
  BY DEF CacheTyped, Entry, Leads
<1>2. CASE CachePut(t)
  <2> DEFINE new == Fresh(t)
  <2>1. /\ new \in Entry /\ ctx[t] \in Context /\ ctx[t].index \in Probed(new.key)
        /\ cache' = kv_cache_put(ctx[t], new) /\ UNCHANGED vars
        /\ pc[t] = "finish" /\ req[t].op = "put" /\ ret[t] = "ok" /\ ctx[t].state # "stored"
    BY <1>2, CachePutEffect
  <2>2. new.lba = lba[t]
    BY DEF Fresh
  <2> HIDE DEF new
  <2>3. media[new.lba] # NoRec
    BY <2>1, <2>2 DEF Leads, Guided, Stored
  <2>4. PICK i \in Probed(new.key) :
          \/ /\ ctx[t].state = "found" /\ Holds(cache[i], new.key) /\ i = ctx[t].index
             /\ kv_cache_put(ctx[t], new) =
                  [cache EXCEPT ![i] = [@ EXCEPT !.secs = new.secs, !.ts = new.ts]]
          \/ /\ ctx[t].state = "found" => ~Holds(cache[ctx[t].index], new.key)
             /\ i = IF Usable(ctx[t], new.key) THEN ctx[t].index ELSE Place(new.key)
             /\ kv_cache_put(ctx[t], new) = [cache EXCEPT ![i] = new]
    BY <2>1, PutInto DEF CacheTyped
  <2>5. i \in Indexes
    BY <2>1, <2>4, ProbedIndexes DEF Entry
  <2>6. CASE /\ Holds(cache[i], new.key)
             /\ cache' = [cache EXCEPT ![i] = [@ EXCEPT !.secs = new.secs, !.ts = new.ts]]
    <3> DEFINE e == [cache[i] EXCEPT !.secs = new.secs, !.ts = new.ts]
    <3>1. cache[i] \in Entry /\ cache[i] # NoEntry
      BY <1>1, <2>5, <2>6 DEF Holds
    <3>2. e.lba = cache[i].lba
      BY <2>1, <3>1 DEF Entry
    <3>3. cache' = [cache EXCEPT ![i] = e]
      BY <2>6
    <3> HIDE DEF e
    <3> QED
      BY <1>1, <2>1, <2>5, <3>1, <3>2, <3>3 DEF CacheTyped, vars
  <2>7. CASE cache' = [cache EXCEPT ![i] = new]
    BY <1>1, <2>1, <2>3, <2>5, <2>7 DEF CacheTyped, vars
  <2> QED
    BY <2>1, <2>4, <2>6, <2>7
<1>3. CASE CacheDelete(t)
  <2>1. media' = media /\ (cache' = cache \/ \E i : cache' = [cache EXCEPT ![i] = NoEntry])
    BY <1>3 DEF CacheDelete, kv_cache_delete
  <2> QED
    BY <1>1, <2>1 DEF CacheTyped
<1>4. CASE Uncached(t) /\ DelTrim(t)
  <2>1. /\ pc[t] = "del_trim" /\ media' = [media EXCEPT ![lba[t]] = NoRec]
        /\ cache' = cache
    BY <1>4 DEF DelTrim, Trim, Uncached
  <2>2. req[t].op = "delete" /\ req[t] # NoRequest /\ req[t].key \in Keys /\ ctx[t] # NoContext
    BY <2>1, CachedCallOf DEF DeletePcs, Contexts
  <2>3. NoneOf(req[t].key)
    BY <2>1, <2>2 DEF SingleEntry, Uncovered, DeletePcs
  <2>4. lba[t] \in ProbeSlots(req[t].key) /\ lba[t] \in Slots
    BY <2>2 DEF IInvAt, Typed, Placement
  <2>5. ASSUME NEW i \in Indexes, cache[i] # NoEntry PROVE cache[i].lba # lba[t]
    <3>1. cache[i].key # req[t].key
      BY <2>3, <2>5 DEF NoneOf, Holds
    <3>2. cache[i].lba \in ProbeSlots(cache[i].key)
      BY <2>5 DEF EntriesPlaced
    <3> QED
      BY <1>1, <2>2, <2>4, <2>5, <3>1, <3>2 DEF SlotsDisjoint
  <2> QED
    BY <1>1, <2>1, <2>5 DEF IInvAt, Typed
<1>5. CASE ~CachePut(t) /\ ~CacheDelete(t) /\ ~(Uncached(t) /\ DelTrim(t))
  <2>1. cache' = cache
    BY <1>5 DEF CCall, CacheGet, CacheInsert, CacheDrop, CachedWrite, Uncached, CachedFinish
  <2>2. \A s \in Slots : media[s] # NoRec => media'[s] # NoRec
    BY <1>5, MediaKept
  <2> QED
    BY <1>1, <2>1, <2>2
<1> QED
  BY <1>2, <1>3, <1>4, <1>5

LEMMA LeadsStep ==
    ASSUME SlotsDisjoint, CInv, SingleEntry, Leads, [CNext]_cvars
    PROVE  Leads'
<1>1. CASE (Tick \/ UNCHANGED vars) /\ UNCHANGED <<cache, ctx>>
  <2>1. UNCHANGED <<media, pc, req, lba, trim_len, ret, cache, ctx>>
    BY <1>1 DEF Tick, vars, local
  <2> QED
    BY <2>1 DEF Leads, Guided, Stored
<1>2. ASSUME NEW t \in Threads,
             \/ CCall(t) \/ CacheGet(t) \/ CacheInsert(t) \/ CacheDrop(t) \/ CachedWrite(t)
             \/ CachePut(t) \/ CacheDelete(t) \/ Uncached(t) \/ CachedFinish(t)
      PROVE  Leads'
  <2>1. ASSUME NEW u \in Threads, u # t PROVE Guided(u)'
    <3>1. /\ pc'[u] = pc[u] /\ req'[u] = req[u] /\ ret'[u] = ret[u] /\ ctx'[u] = ctx[u]
          /\ lba'[u] = lba[u] /\ trim_len'[u] = trim_len[u]
      BY <1>2, <2>1, CachedOthers
    <3>2. Guided(u) /\ lba[u] \in Slots
      BY DEF Leads, CInv, IInvAt, Typed
    <3>3. CASE \A s \in Slots : media[s] # NoRec => media'[s] # NoRec
      BY <3>1, <3>2, <3>3 DEF Guided, Stored
    <3>4. CASE DelTrim(t)
      <4>1. req[t].op = "delete" /\ req[t] # NoRequest
        BY <3>4, CachedCallOf DEF DelTrim, DeletePcs, CInv
      <4>2. pc[u] = "idle"
        BY <2>1, <4>1 DEF SingleEntry, DeletesAlone, CInv, IInvAt, Located
      <4> QED
        BY <3>1, <3>2, <4>2 DEF Guided
    <3> QED
      BY <1>2, <3>3, <3>4, MediaKept
  <2>2. Guided(t)'
    BY <1>2, GuidedSelf
  <2>3. \A i \in Indexes : cache'[i] # NoEntry => media'[cache'[i].lba] # NoRec
    BY <1>2, EntriesLead
  <2> QED
    BY <2>1, <2>2, <2>3 DEF Leads
<1> QED
  BY <1>1, <1>2, CachedKinds

\* Where keys share no slots, and those that are deleted keep a place in the cache, what
\* the cache holds for a key between calls is where the key is, however the calls failed.
THEOREM MappingTrueHolds ==
    ASSUME KeepsPlace, SlotsDisjoint
    PROVE  CSpec => []MappingTrue
<1> DEFINE Inv == CInv /\ SingleEntry /\ Leads
<1>1. CInit => Inv
  <2>1. CInit => Leads
    BY DEF CInit, HInit, Init, Opened, Leads, Guided
  <2> QED
    BY <2>1, InitCInv, InitSingleEntry
<1>2. Inv /\ [CNext]_cvars => Inv'
  BY CInductive, SingleEntryStep, LeadsStep
<1>3. Inv => MappingTrue
  <2> SUFFICES ASSUME Inv, NEW k \in Keys, kv_cache_get(k).state = "found"
               PROVE  Matches(kv_cache_get(k).entry.lba, k)
    BY DEF MappingTrue
  <2> DEFINE e == cache[Place(k)]
  <2>1. kv_cache_get(k).entry = e /\ Holds(e, k) /\ Place(k) \in Indexes
    BY Got, PlaceOf, ProbedIndexes DEF CInv
  <2>2. e \in Entry /\ e.key = k /\ e.lba \in Slots /\ e.lba \in ProbeSlots(k) /\ media[e.lba] # NoRec
    BY <2>1 DEF Holds, CInv, CacheTyped, EntriesPlaced, Leads, Entry
  <2> HIDE DEF e
  <2>3. media[e.lba] \in Record /\ e.lba \in ProbeSlots(media[e.lba].key)
    BY <2>2 DEF CInv, IInvAt, Typed, Placement
  <2>4. media[e.lba].key = k
    BY <2>2, <2>3 DEF SlotsDisjoint, Record
  <2> QED
    BY <2>1, <2>2, <2>4 DEF Matches
<1> HIDE DEF Inv
<1> QED
  BY <1>1, <1>2, <1>3, PTL DEF CSpec

-----------------------------------------------------------------------------
(***************************************************************************)
(* Batches.                                                                *)
(***************************************************************************)
\* The places of the calls of a store that takes batches.
BPcs == Pcs \cup BatchPcs

\* What an entry of the vectors is for: the put of the batch with the same number.
Entered(t, i) ==
    LET p == placed[t][i]
        r == iovs[t][i]
    IN
    /\ p.rec.key = r.key /\ p.rec.val = r.val /\ p.rec.secs = Sectors[r.val]
    /\ p.lba \in ProbeSlots(r.key)

\* A batch has as many entries as it has keys behind it, until it releases them.
Batching(t) ==
    /\ pc[t] = "idle" => iovs[t] = <<>>
    /\ pc[t] \in BatchPcs => iovs[t] # <<>>
    /\ iovs[t] = <<>> => placed[t] = <<>>
    /\ iovs[t] # <<>> => pc[t] \in GenPcs \cup BatchPcs \cup {"finish"}
    /\ iovs[t] # <<>> /\ pc[t] # "finish" =>
         /\ placed[t] \in Seq(Placed) /\ Len(placed[t]) <= Len(iovs[t])
         /\ \A i \in 1 .. Len(placed[t]) : Entered(t, i)
         /\ pc[t] \in GenPcs =>
              Len(placed[t]) < Len(iovs[t]) /\ req[t] = iovs[t][Len(placed[t]) + 1]

\* Types of the batches; placed is only what a release leaves of it, and not looked at then.
BTyped ==
    /\ iovs \in [Threads -> Batches \cup {<<>>}]
    /\ placed = [t \in Threads |-> placed[t]]
    /\ before = [t \in Threads |-> before[t]]

\* The inductive invariant of single calls and batches, however they overlap.
BInv == IInvAt(BPcs) /\ BTyped /\ \A t \in Threads : Batching(t)

\* A set of numbers up to n that is not empty has a greatest element, which is its Max.
LEMMA MaxIsGreatest ==
    ASSUME NEW n \in Nat, NEW S \in SUBSET (1 .. n), S # {}
    PROVE  Max(S) \in S /\ \A y \in S : y <= Max(S)
<1> DEFINE D == {n - x : x \in S}
<1>0. \A x \in S : x \in Nat /\ x <= n /\ n - x \in Nat
  OBVIOUS
<1>1. D \in SUBSET Nat /\ D # {}
  BY <1>0
<1>2. Min(D) \in D /\ \A d \in D : Min(D) <= d
  BY <1>1, MinIsLeast
<1>3. PICK x \in S : n - x = Min(D)
  BY <1>2
<1>4. ASSUME NEW y \in S PROVE x >= y
  <2>1. n - y \in D
    OBVIOUS
  <2>2. n - x <= n - y
    BY <1>2, <1>3, <2>1
  <2> QED
    BY <1>0, <2>2
<1>5. Max(S) \in S /\ \A y \in S : Max(S) >= y
  BY <1>4 DEF Max
<1>6. Max(S) \in Nat /\ \A y \in S : y \in Nat
  BY <1>0, <1>5
<1> QED
  BY <1>5, <1>6

\* A batch is a sequence of puts.
LEMMA BatchIsSeq ==
    ASSUME NEW b \in Batches
    PROVE  /\ b \in Seq(Requests) /\ b # <<>> /\ Len(b) \in Nat /\ Len(b) >= 1
           /\ DOMAIN b = 1 .. Len(b)
           /\ \A i \in 1 .. Len(b) : /\ b[i] \in Requests /\ b[i] # NoRequest /\ b[i].op = "put"
                                     /\ b[i].key \in Keys /\ b[i].val \in Values
<1>1. PICK n \in 1 .. MaxBatch : b \in [1 .. n -> Puts]
  BY DEF Batches
<1>2. n \in Nat /\ n >= 1
  BY <1>1, BatchAssumption
<1>3. b = [i \in 1 .. n |-> b[i]] /\ \A i \in 1 .. n : b[i] \in Requests /\ b[i].op = "put"
  BY <1>1 DEF Puts
<1>4. b \in Seq(Requests) /\ Len(b) = n
  BY <1>2, <1>3
<1>5. b # <<>>
  BY <1>2, <1>4
<1> QED
  BY <1>2, <1>3, <1>4, <1>5, RequestFields, NoneAreNot

\* The probe at which a search for a key begins, and what it has passed over.
LEMMA FirstProbeOf ==
    ASSUME NEW t \in Threads, NEW k \in Keys
    PROVE  /\ FirstProbe(t, k) \in 1 .. MaxCollision
           /\ \A m \in 1 .. MaxCollision : m < FirstProbe(t, k) =>
                \E i \in Places(t) : placed[t][i].lba = Probe[k][m] /\ placed[t][i].rec.key # k
           /\ FirstProbe(t, k) < MaxCollision =>
                \/ \A i \in Places(t) : placed[t][i].lba # Probe[k][FirstProbe(t, k)]
                \/ IsDuplicate(t, k, Probe[k][FirstProbe(t, k)])
<1> DEFINE free == {n \in 1 .. (MaxCollision - 1) :
                      \/ \A i \in Places(t) : placed[t][i].lba # Probe[k][n]
                      \/ IsDuplicate(t, k, Probe[k][n])}
<1>1. MaxCollision \in Nat /\ MaxCollision >= 1
  BY KVOpsAssumption
<1>2. FirstProbe(t, k) = IF free = {} THEN MaxCollision ELSE Min(free)
  BY DEF FirstProbe
<1>3. free \in SUBSET Nat /\ \A n \in free : n < MaxCollision /\ n \in 1 .. MaxCollision
  BY <1>1
<1>4. free # {} => Min(free) \in free /\ \A n \in free : Min(free) <= n
  BY <1>3, MinIsLeast
<1>5. ASSUME NEW m \in 1 .. MaxCollision, m < MaxCollision, m \notin free
      PROVE  \E i \in Places(t) : placed[t][i].lba = Probe[k][m] /\ placed[t][i].rec.key # k
  <2>1. m \in 1 .. (MaxCollision - 1)
    BY <1>1, <1>5
  <2>2. /\ \E i \in Places(t) : placed[t][i].lba = Probe[k][m]
        /\ ~IsDuplicate(t, k, Probe[k][m])
    BY <1>5, <2>1
  <2> QED
    BY <2>2 DEF IsDuplicate
<1>6. \A n \in free : \/ \A i \in Places(t) : placed[t][i].lba # Probe[k][n]
                      \/ IsDuplicate(t, k, Probe[k][n])
  OBVIOUS
<1> HIDE DEF free
<1>7. CASE free = {}
  BY <1>1, <1>2, <1>5, <1>7
<1>8. CASE free # {}
  <2>1. FirstProbe(t, k) \in free /\ \A n \in free : FirstProbe(t, k) <= n
    BY <1>2, <1>4, <1>8
  <2>2. FirstProbe(t, k) \in 1 .. MaxCollision /\ FirstProbe(t, k) < MaxCollision
    BY <1>3, <2>1
  <2>3. ASSUME NEW m \in 1 .. MaxCollision, m < FirstProbe(t, k)
        PROVE  m < MaxCollision /\ m \notin free
    BY <1>1, <2>1, <2>2, <2>3
  <2> QED
    BY <1>5, <1>6, <2>1, <2>2, <2>3
<1> QED
  BY <1>7, <1>8

\* An entry goes to the end.
LEMMA PlacedNext ==
    ASSUME NEW t \in Threads, placed = [u \in Threads |-> placed[u]], placed[t] \in Seq(Placed),
           clock \in Nat, NEW r \in Requests, r.op = "put", NEW s \in Slots, NEW trim \in Nat,
           PlaceKey(t, r, s, trim)
    PROVE  /\ placed' = [u \in Threads |-> placed'[u]]
           /\ \A u \in Threads : u # t => placed'[u] = placed[u]
           /\ placed'[t] \in Seq(Placed) /\ Len(placed'[t]) = Len(placed[t]) + 1
           /\ \A i \in 1 .. Len(placed[t]) : placed'[t][i] = placed[t][i]
           /\ placed'[t][Len(placed[t]) + 1] = [lba |-> s, rec |-> NewRecord(r), trim |-> trim]
<1> DEFINE e == [lba |-> s, rec |-> NewRecord(r), trim |-> trim]
<1>1. NewRecord(r) \in Record
  BY RequestFields, KVOpsAssumption DEF NewRecord, Record
<1>2. e \in Placed
  BY <1>1 DEF Placed
<1>3. placed' = [placed EXCEPT ![t] = Append(placed[t], e)]
  BY DEF PlaceKey
<1> HIDE DEF e
<1>4. placed'[t] = Append(placed[t], e)
  BY <1>3
<1>5. placed' = [u \in Threads |-> placed'[u]] /\ \A u \in Threads : u # t => placed'[u] = placed[u]
  BY <1>3
<1>6. /\ placed'[t] \in Seq(Placed) /\ Len(placed'[t]) = Len(placed[t]) + 1
      /\ \A i \in 1 .. Len(placed[t]) : placed'[t][i] = placed[t][i]
      /\ placed'[t][Len(placed[t]) + 1] = e
  BY <1>2, <1>4
<1> QED
  BY <1>5, <1>6 DEF e

\* The entries of a batch that has not released them.
LEMMA EntryOf ==
    ASSUME BInv, NEW t \in Threads, iovs[t] # <<>>, pc[t] # "finish"
    PROVE  /\ iovs[t] \in Batches /\ placed[t] \in Seq(Placed)
           /\ Len(placed[t]) \in Nat /\ Places(t) = 1 .. Len(placed[t])
           /\ Len(placed[t]) <= Len(iovs[t])
           /\ \A i \in Places(t) :
                /\ i \in DOMAIN iovs[t] /\ placed[t][i] \in Placed
                /\ placed[t][i].lba \in Slots /\ placed[t][i].trim \in Nat
                /\ placed[t][i].rec \in Record /\ placed[t][i].rec # NoRec
                /\ placed[t][i].rec.key = iovs[t][i].key /\ placed[t][i].rec.key \in Keys
                /\ placed[t][i].rec.val = iovs[t][i].val
                /\ placed[t][i].rec.secs = Sectors[iovs[t][i].val]
                /\ placed[t][i].lba \in ProbeSlots(placed[t][i].rec.key)
<1>1. /\ iovs[t] \in Batches /\ placed[t] \in Seq(Placed) /\ Len(placed[t]) <= Len(iovs[t])
      /\ \A i \in 1 .. Len(placed[t]) : Entered(t, i)
  BY DEF BInv, BTyped, Batching
<1>2. Len(placed[t]) \in Nat /\ Places(t) = 1 .. Len(placed[t])
  BY <1>1 DEF Places
<1>3. DOMAIN iovs[t] = 1 .. Len(iovs[t]) /\ Len(iovs[t]) \in Nat
      /\ \A i \in 1 .. Len(iovs[t]) : iovs[t][i].key \in Keys
  BY <1>1, BatchIsSeq
<1>4. ASSUME NEW i \in Places(t)
      PROVE  /\ i \in DOMAIN iovs[t] /\ placed[t][i] \in Placed
             /\ placed[t][i].lba \in Slots /\ placed[t][i].trim \in Nat
             /\ placed[t][i].rec \in Record /\ placed[t][i].rec # NoRec
             /\ placed[t][i].rec.key = iovs[t][i].key /\ placed[t][i].rec.key \in Keys
             /\ placed[t][i].rec.val = iovs[t][i].val
             /\ placed[t][i].rec.secs = Sectors[iovs[t][i].val]
             /\ placed[t][i].lba \in ProbeSlots(placed[t][i].rec.key)
  <2>1. i \in 1 .. Len(placed[t]) /\ Entered(t, i)
    BY <1>1, <1>2
  <2>2. i \in 1 .. Len(iovs[t])
    BY <1>1, <1>2, <1>3, <2>1
  <2>3. placed[t][i] \in Placed
    BY <1>1, <2>1
  <2> QED
    BY <1>3, <2>1, <2>2, <2>3, NoneAreNot DEF Entered, Placed
<1> QED
  BY <1>1, <1>2, <1>4

\* A slot that a batch writes gets the last record meant for it.
LEMMA WrittenMedia ==
    ASSUME BInv, NEW t \in Threads, iovs[t] # <<>>, pc[t] # "finish", NEW s \in Slots
    PROVE  \/ /\ \A i \in Places(t) : placed[t][i].lba # s
              /\ AllWritten(t)[s] = media[s]
           \/ \E i \in Places(t) :
                /\ placed[t][i].lba = s /\ AllWritten(t)[s] = placed[t][i].rec
                /\ \A j \in Places(t) : placed[t][j].lba = s => j <= i
<1> DEFINE here == {i \in Places(t) : placed[t][i].lba = s}
<1>1. AllWritten(t)[s] = IF here = {} THEN media[s] ELSE placed[t][Max(here)].rec
  BY DEF AllWritten
<1>2. CASE here = {}
  BY <1>1, <1>2
<1>3. CASE here # {}
  <2>1. Places(t) = 1 .. Len(placed[t]) /\ Len(placed[t]) \in Nat
    BY EntryOf
  <2>2. here \in SUBSET (1 .. Len(placed[t]))
    BY <2>1
  <2>3. Max(here) \in here /\ \A j \in here : j <= Max(here)
    BY <1>3, <2>1, <2>2, MaxIsGreatest
  <2> QED
    BY <1>1, <1>3, <2>3
<1> QED
  BY <1>2, <1>3

\* A slot that it trims keeps its key.
LEMMA TrimmedMedia ==
    ASSUME BInv, NEW t \in Threads, NEW s \in Slots
    PROVE  \/ AllTrimmed(t)[s] = media[s]
           \/ /\ \E i \in Places(t) : placed[t][i].lba = s
              /\ media[s] # NoRec /\ AllTrimmed(t)[s] \in Record /\ AllTrimmed(t)[s] # NoRec
              /\ AllTrimmed(t)[s].key = media[s].key /\ AllTrimmed(t)[s].secs = media[s].secs
<1> DEFINE trimmed == media[s] # NoRec /\ \E i \in Trims(t) : placed[t][i].lba = s
<1>1. AllTrimmed(t)[s] = IF trimmed THEN [media[s] EXCEPT !.val = Torn] ELSE media[s]
  BY DEF AllTrimmed
<1>2. CASE trimmed
  <2>1. media[s] \in Record
    BY <1>2 DEF BInv, IInvAt, Typed
  <2>2. /\ [media[s] EXCEPT !.val = Torn] \in Record
        /\ [media[s] EXCEPT !.val = Torn].key = media[s].key
        /\ [media[s] EXCEPT !.val = Torn].secs = media[s].secs
    BY <2>1 DEF Record
  <2> QED
    BY <1>1, <1>2, <2>2, NoneAreNot DEF Trims
<1> QED
  BY <1>1, <1>2

\* What a batch writes stays within the sets, and where its keys look.
LEMMA BatchMedia ==
    ASSUME BInv, NEW t \in Threads, BatchWrite(t) \/ BatchRewrite(t)
    PROVE  /\ media' \in [Slots -> Record \cup {NoRec}]
           /\ \A s \in Slots : media'[s] # NoRec => s \in ProbeSlots(media'[s].key)
           /\ media' = AllWritten(t) \/ media' = AllTrimmed(t)
           /\ iovs[t] # <<>> /\ pc[t] \in {"batch_next", "batch_rewrite"}
<1>1. media' = AllWritten(t) \/ media' = AllTrimmed(t)
  BY DEF BatchWrite, BatchRewrite
<1>2. pc[t] \in {"batch_next", "batch_rewrite"} /\ iovs[t] # <<>>
  BY DEF BatchWrite, BatchRewrite, AllPlaced, BInv, Batching, BatchPcs
<1>3. /\ media \in [Slots -> Record \cup {NoRec}]
      /\ \A s \in Slots : media[s] # NoRec => s \in ProbeSlots(media[s].key)
  BY DEF BInv, IInvAt, Typed, Placement
<1>4. ASSUME NEW s \in Slots
      PROVE  /\ media'[s] \in Record \cup {NoRec}
             /\ media'[s] # NoRec => s \in ProbeSlots(media'[s].key)
  <2>1. CASE media' = AllWritten(t)
    BY <1>2, <1>3, <2>1, WrittenMedia, EntryOf
  <2>2. CASE media' = AllTrimmed(t)
    BY <1>3, <2>2, TrimmedMedia
  <2> QED
    BY <1>1, <2>1, <2>2
<1>5. media' = [s \in Slots |-> media'[s]]
  BY <1>1 DEF AllWritten, AllTrimmed
<1> QED
  BY <1>1, <1>2, <1>4, <1>5

\* A step of a put that a batch shares with it stays in it or ends.
LEMMA PutPlaces ==
    ASSUME IInvAt(BPcs), NEW t \in Threads, Step(t), ~Finish(t)
    PROVE  /\ req' = req /\ pc[t] \in GenPcs \cup ReadPcs \cup DeletePcs
           /\ pc'[t] \in Pcs /\ pc'[t] # "idle"
           /\ pc[t] \in GenPcs => pc'[t] \in GenPcs \cup {"finish"}
<1>1. req' = req /\ pc[t] \in GenPcs \cup ReadPcs \cup DeletePcs
  BY StepWithin
<1>2. /\ pc'[t] \in Pcs /\ pc'[t] # "idle"
      /\ pc[t] \in GenPcs => pc'[t] \in GenPcs \cup {"finish"}
  BY <1>1 DEF IInvAt, Typed, Step, Contend, GenRange, GenInsert, GenReadMatch, LockFirst,
       GenReadMismatch, NextProbe, GenDrop, PutWrite, GetRange, ReadMatch, ReadMismatch, BlindRead, Expire,
       DelRead, DelInsert, DelReread, DelFound, ProbeOn, Rehash, Insert, DelTrim, DeviceError,
       Goto, Done, Pcs, GenPcs, ReadPcs, DeletePcs, local
<1> QED
  BY <1>1, <1>2

\* A step of a call does not change where another call is, nor its batch.
LEMMA BatchOthers ==
    ASSUME BInv, NEW t \in Threads,
           \/ BatchStep(t) \/ SingleStep(t)
           \/ \E b \in Batches : BatchCall(t, b)
           \/ \E r \in Requests : Call(t, r) /\ UNCHANGED <<iovs, placed, before>>,
           NEW u \in Threads, u # t
    PROVE  pc'[u] = pc[u] /\ req'[u] = req[u] /\ iovs'[u] = iovs[u] /\ placed'[u] = placed[u]
<1> USE DEF BInv, BTyped, IInvAt, Typed
<1>1. CASE SingleStep(t) \/ \E r \in Requests : Call(t, r) /\ UNCHANGED <<iovs, placed, before>>
  BY <1>1, OthersKeptAt DEF SingleStep
<1>2. CASE \E b \in Batches : BatchCall(t, b)
  BY <1>2 DEF BatchCall, Goto
<1>3. CASE BatchStep(t)
  BY <1>3 DEF BatchStep, BatchNext, BatchPlace, PlaceKey, BatchWrite, BatchRewrite, BatchError,
     BatchRelease, BatchFinish, Goto, Done, local
<1> QED
  BY <1>1, <1>2, <1>3

\* The steps of a batch that give its keys their slots.
LEMMA BatchPlaces ==
    ASSUME BInv, NEW t \in Threads, BatchNext(t) \/ BatchPlace(t)
    PROVE  IInvAt(BPcs)' /\ BTyped' /\ Batching(t)'
<1> USE DEF BInv, BTyped, IInvAt, Typed, Goto, Done, local
<1> DEFINE n == Len(placed[t])
<1>1. CASE BatchNext(t)
  <2>1. pc[t] = "batch_next" /\ iovs[t] # <<>>
    BY <1>1 DEF BatchNext, Batching, BatchPcs
  <2> DEFINE r == iovs[t][n + 1]
             p == FirstProbe(t, r.key)
             s == Probe[r.key][p]
  <2>2. n \in Nat /\ n + 1 \in 1 .. Len(iovs[t]) /\ placed[t] \in Seq(Placed)
        /\ \A i \in 1 .. n : Entered(t, i)
    BY <1>1, <2>1 DEF BatchNext, Batching
  <2>3. r \in Requests /\ r # NoRequest /\ r.op = "put" /\ r.key \in Keys
    BY <2>1, <2>2, BatchIsSeq
  <2>4. p \in 1 .. MaxCollision
    BY <2>3, FirstProbeOf
  <2>5. s \in Slots /\ s \in ProbeSlots(r.key)
    BY <2>3, <2>4, ProbeIsSlot, ProbeInSlots
  <2>6. /\ req' = [req EXCEPT ![t] = r] /\ itr' = [itr EXCEPT ![t] = p]
        /\ lba' = [lba EXCEPT ![t] = s] /\ trim_len' = [trim_len EXCEPT ![t] = 0]
        /\ UNCHANGED <<media, clock, expq, safe, held, wait, iov_len, iovs, before>>
        /\ \/ Done(t, "failed") /\ UNCHANGED placed
           \/ PlaceKey(t, r, s, 0) /\ UNCHANGED <<pc, ret>>
           \/ Goto(t, "gen_range") /\ UNCHANGED <<placed, ret>>
    BY <1>1 DEF BatchNext
  <2> HIDE DEF r, p, s
  <2>7. /\ pc' \in [Threads -> BPcs] /\ ret' \in [Threads -> Results]
        /\ pc'[t] \in {"finish", "batch_next", "gen_range"}
        /\ \A u \in Threads : u # t => pc'[u] = pc[u]
    BY <2>1, <2>6 DEF PlaceKey, BPcs, Pcs, GenPcs, Results
  <2>8. Typed(BPcs)'
    BY <2>3, <2>4, <2>5, <2>6, <2>7
  <2>9. Placement'
    BY <2>3, <2>5, <2>6 DEF Placement
  <2>10. Located'
    BY <2>1, <2>3, <2>6, <2>7 DEF Located, GenPcs, ReadPcs, DeletePcs
  <2>11. CASE PlaceKey(t, r, s, 0) /\ UNCHANGED <<pc, ret>>
    <3>1. /\ placed' = [u \in Threads |-> placed'[u]]
          /\ placed'[t] \in Seq(Placed) /\ Len(placed'[t]) = n + 1
          /\ \A i \in 1 .. n : placed'[t][i] = placed[t][i]
          /\ placed'[t][n + 1] = [lba |-> s, rec |-> NewRecord(r), trim |-> 0]
      <4>1. /\ placed = [u \in Threads |-> placed[u]] /\ placed[t] \in Seq(Placed)
            /\ clock \in Nat /\ 0 \in Nat /\ PlaceKey(t, r, s, 0)
        BY <2>2, <2>11
      <4> QED
        BY ONLY <4>1, <2>3, <2>5, t \in Threads, PlacedNext
    <3>2. ASSUME NEW i \in 1 .. Len(placed'[t]) PROVE Entered(t, i)'
      <4>1. CASE i \in 1 .. n
        BY <2>2, <2>6, <3>1, <4>1 DEF Entered
      <4>2. CASE i = n + 1
        <5>1. iovs'[t][i] = r
          BY <2>6, <4>2 DEF r
        <5> QED
          BY <2>5, <3>1, <4>2, <5>1 DEF Entered, NewRecord
      <4> QED
        BY <2>2, <3>1, <4>1, <4>2
    <3>3. Batching(t)'
      BY <2>1, <2>2, <2>6, <2>11, <3>1, <3>2 DEF Batching, BatchPcs, GenPcs
    <3>4. BTyped'
      BY <2>6, <3>1
    <3> QED
      BY <2>8, <2>9, <2>10, <3>3, <3>4
  <2>12. CASE UNCHANGED placed /\ pc'[t] \in {"finish", "gen_range"}
    <3>1. BTyped'
      BY <2>6, <2>12
    <3>2. req'[t] = iovs[t][n + 1]
      BY <2>6 DEF r
    <3>3. \A i \in 1 .. n : Entered(t, i)'
      BY <2>2, <2>6, <2>12 DEF Entered
    <3>4. n < Len(iovs[t]) /\ n <= Len(iovs[t])
      BY <2>1, <2>2, EntryOf, BatchIsSeq
    <3>5. Batching(t)'
      BY <2>1, <2>2, <2>6, <2>12, <3>2, <3>3, <3>4 DEF Batching, BatchPcs, GenPcs
    <3> QED
      BY <2>8, <2>9, <2>10, <3>1, <3>5
  <2> QED
    BY <2>6, <2>11, <2>12
<1>2. CASE BatchPlace(t)
  <2>1. /\ pc[t] = "put_write" /\ iovs[t] # <<>> /\ pc' = [pc EXCEPT ![t] = "batch_next"]
        /\ PlaceKey(t, req[t], lba[t], trim_len[t])
        /\ UNCHANGED <<media, clock, expq, safe, local, iovs, before>>
    BY <1>2 DEF BatchPlace, InBatch
  <2>2. /\ n \in Nat /\ placed[t] \in Seq(Placed) /\ n < Len(iovs[t]) /\ req[t] = iovs[t][n + 1]
        /\ \A i \in 1 .. n : Entered(t, i)
    BY <2>1 DEF Batching, GenPcs
  <2>3. req[t] \in Requests /\ req[t].op = "put" /\ req[t] # NoRequest
    BY <2>1 DEF Located, GenPcs
  <2>4. lba[t] \in Slots /\ lba[t] \in ProbeSlots(req[t].key) /\ trim_len[t] \in Nat
    BY <2>3 DEF Placement
  <2>5. /\ placed' = [u \in Threads |-> placed'[u]]
        /\ placed'[t] \in Seq(Placed) /\ Len(placed'[t]) = n + 1
        /\ \A i \in 1 .. n : placed'[t][i] = placed[t][i]
        /\ placed'[t][n + 1] = [lba |-> lba[t], rec |-> NewRecord(req[t]), trim |-> trim_len[t]]
    BY <2>1, <2>2, <2>3, <2>4, PlacedNext
  <2>6. ASSUME NEW i \in 1 .. Len(placed'[t]) PROVE Entered(t, i)'
    <3>1. CASE i \in 1 .. n
      BY <2>1, <2>2, <2>5, <3>1 DEF Entered
    <3>2. CASE i = n + 1
      BY <2>1, <2>2, <2>4, <2>5, <3>2 DEF Entered, NewRecord
    <3> QED
      BY <2>2, <2>5, <3>1, <3>2
  <2>7. n + 1 <= Len(iovs[t])
    <3>1. Len(iovs[t]) \in Nat
      BY <2>1, BatchIsSeq
    <3> QED
      BY <2>2, <3>1
  <2>8. Batching(t)'
    BY <2>1, <2>2, <2>5, <2>6, <2>7 DEF Batching, BatchPcs, GenPcs
  <2>9. Typed(BPcs)' /\ Placement'
    BY <2>1 DEF BPcs, BatchPcs, Placement
  <2>10. Located'
    BY <2>1, <2>3 DEF Located, GenPcs, ReadPcs, DeletePcs
  <2>11. BTyped'
    BY <2>1, <2>5
  <2> QED
    BY <2>8, <2>9, <2>10, <2>11
<1> QED
  BY <1>1, <1>2

\* The steps of a batch that begin, write and end it.
LEMMA BatchEnds ==
    ASSUME BInv, NEW t \in Threads,
           \/ \E b \in Batches : BatchCall(t, b)
           \/ BatchWrite(t) \/ BatchRewrite(t) \/ BatchError(t)
           \/ BatchRelease(t) \/ BatchFinish(t)
    PROVE  IInvAt(BPcs)' /\ BTyped' /\ Batching(t)'
<1> USE DEF BInv, BTyped, IInvAt, Typed, Goto, Done, local
<1>1. ASSUME NEW b \in Batches, BatchCall(t, b) PROVE IInvAt(BPcs)' /\ BTyped' /\ Batching(t)'
  <2>1. /\ pc[t] = "idle" /\ iovs' = [iovs EXCEPT ![t] = b] /\ req' = [req EXCEPT ![t] = b[1]]
        /\ lba' = [lba EXCEPT ![t] = Probe[b[1].key][1]] /\ pc' = [pc EXCEPT ![t] = "batch_next"]
        /\ before' = [before EXCEPT ![t] = Store]
        /\ UNCHANGED <<media, clock, expq, safe, itr, held, wait, trim_len, iov_len, ret, placed>>
    BY <1>1 DEF BatchCall
  <2>2. /\ b # <<>> /\ b[1] \in Requests /\ b[1] # NoRequest /\ b[1].key \in Keys
        /\ Len(b) \in Nat /\ 1 <= Len(b)
    <3>1. /\ b # <<>> /\ Len(b) \in Nat /\ Len(b) >= 1
          /\ \A i \in 1 .. Len(b) : b[i] \in Requests /\ b[i] # NoRequest /\ b[i].key \in Keys
      BY BatchIsSeq
    <3>2. 1 \in 1 .. Len(b)
      BY <3>1
    <3> QED
      BY <3>1, <3>2
  <2>3. 1 \in 1 .. MaxCollision
    BY KVOpsAssumption
  <2>4. Probe[b[1].key][1] \in Slots /\ Probe[b[1].key][1] \in ProbeSlots(b[1].key)
    BY <2>2, <2>3, ProbeIsSlot, ProbeInSlots
  <2>5. iovs[t] = <<>> /\ placed[t] = <<>>
    BY <2>1 DEF Batching
  <2>6. Typed(BPcs)' /\ BTyped'
    BY <2>1, <2>2, <2>4 DEF BPcs, BatchPcs
  <2>7. Placement'
    BY <2>1, <2>2, <2>4 DEF Placement
  <2>8. Located'
    BY <2>1, <2>2 DEF Located, GenPcs, ReadPcs, DeletePcs
  <2>9. placed'[t] = <<>> /\ iovs'[t] = b /\ pc'[t] = "batch_next"
    BY <2>1, <2>5
  <2>10. placed'[t] \in Seq(Placed) /\ Len(placed'[t]) = 0
    BY <2>9
  <2>11. Batching(t)'
    BY <2>2, <2>9, <2>10 DEF Batching, BatchPcs, GenPcs
  <2> QED
    BY <2>6, <2>7, <2>8, <2>11
<1>2. CASE BatchWrite(t) \/ BatchRewrite(t) \/ BatchError(t)
  <2>1. iovs[t] # <<>> /\ pc[t] \in {"batch_next", "batch_rewrite"} /\ req[t] # NoRequest
    BY <1>2 DEF BatchWrite, BatchRewrite, BatchError, AllPlaced, Batching, BatchPcs, Located
  <2>2. /\ media' \in [Slots -> Record \cup {NoRec}]
        /\ \A s \in Slots : media'[s] # NoRec => s \in ProbeSlots(media'[s].key)
    BY <1>2, BatchMedia DEF BatchError, Placement
  <2>3. /\ \/ /\ pc' = [pc EXCEPT ![t] = "finish"]
              /\ \E x \in Results : ret' = [ret EXCEPT ![t] = x]
           \/ /\ pc' = [pc EXCEPT ![t] = "batch_rewrite"]
              /\ ret' = ret
        /\ UNCHANGED <<clock, expq, safe, req, itr, lba, held, wait, trim_len, iov_len, iovs, placed, before>>
    BY <1>2 DEF BatchWrite, BatchRewrite, BatchError, Results
  <2>4. Typed(BPcs)' /\ BTyped'
    BY <2>2, <2>3 DEF BPcs, BatchPcs, Pcs
  <2>5. Placement'
    BY <2>2, <2>3 DEF Placement
  <2>6. Located'
    BY <2>1, <2>3 DEF Located, GenPcs, ReadPcs, DeletePcs
  <2>7. Batching(t)'
    BY <2>1, <2>3 DEF Batching, Entered, BatchPcs, GenPcs
  <2> QED
    BY <2>4, <2>5, <2>6, <2>7
<1>3. CASE BatchRelease(t)
  <2>1. /\ pc[t] = "finish" /\ iovs[t] # <<>> /\ safe' \subseteq safe
        /\ \E q : placed' = [placed EXCEPT ![t] = q]
        /\ UNCHANGED <<media, clock, expq, pc, local, iovs, before>>
    BY <1>3 DEF BatchRelease, InBatch
  <2>2. placed' = [u \in Threads |-> placed'[u]]
    BY <2>1
  <2>3. Typed(BPcs)' /\ BTyped' /\ Located' /\ Placement'
    BY <2>1, <2>2 DEF Located, Placement
  <2>4. Batching(t)'
    BY <2>1 DEF Batching, BatchPcs
  <2> QED
    BY <2>3, <2>4
<1>4. CASE BatchFinish(t)
  <2>1. /\ pc[t] = "finish" /\ pc' = [pc EXCEPT ![t] = "idle"]
        /\ held' = [held EXCEPT ![t] = FALSE] /\ trim_len' = [trim_len EXCEPT ![t] = 0]
        /\ req' = [req EXCEPT ![t] = NoRequest] /\ ret' = [ret EXCEPT ![t] = NoResult]
        /\ iovs' = [iovs EXCEPT ![t] = <<>>] /\ placed' = [placed EXCEPT ![t] = <<>>]
        /\ UNCHANGED <<media, clock, expq, safe, itr, lba, wait, iov_len, before>>
    BY <1>4 DEF BatchFinish
  <2>2. Typed(BPcs)' /\ BTyped'
    BY <2>1 DEF BPcs, Pcs, Results
  <2>3. Located' /\ Placement'
    BY <2>1 DEF Located, Placement, GenPcs, ReadPcs, DeletePcs
  <2>4. Batching(t)'
    BY <2>1 DEF Batching, BatchPcs
  <2> QED
    BY <2>2, <2>3, <2>4
<1> QED
  BY <1>1, <1>2, <1>3, <1>4

\* What a batch shares with single calls.
LEMMA BatchShares ==
    ASSUME BInv, NEW t \in Threads,
           \/ SingleStep(t)
           \/ \E r \in Requests : Call(t, r) /\ UNCHANGED <<iovs, placed, before>>
    PROVE  IInvAt(BPcs)' /\ BTyped' /\ Batching(t)'
<1> USE DEF BInv, BTyped
<1>1. [Next]_vars /\ UNCHANGED <<iovs, placed, before>>
  BY DEF SingleStep, Next
<1>2. IInvAt(BPcs)'
  BY <1>1, InductiveAt DEF BPcs
<1>3. BTyped'
  BY <1>1
<1>4. CASE \E r \in Requests : Call(t, r)
  <2>1. pc[t] = "idle" /\ pc'[t] \in {"gen_range", "del_read", "get_range", "read_media"}
    BY <1>4 DEF Call, Begin, Goto, IInvAt, Typed
  <2> QED
    BY <1>1, <1>2, <1>3, <2>1 DEF Batching, BatchPcs
<1>5. CASE SingleStep(t)
  <2>1. Step(t) /\ (iovs[t] # <<>> => pc[t] \notin {"put_write", "finish"})
    BY <1>5 DEF SingleStep, InBatch
  <2>2. CASE Finish(t)
    <3>1. iovs[t] = <<>> /\ pc'[t] = "idle"
      BY <2>1, <2>2 DEF Finish, Goto, IInvAt, Typed
    <3> QED
      BY <1>1, <1>2, <1>3, <3>1 DEF Batching, BatchPcs
  <2>3. CASE ~Finish(t)
    <3>1. /\ req' = req /\ pc[t] \in GenPcs \cup ReadPcs \cup DeletePcs
          /\ pc'[t] \in Pcs /\ pc'[t] # "idle"
          /\ pc[t] \in GenPcs => pc'[t] \in GenPcs \cup {"finish"}
      BY <2>1, <2>3, PutPlaces
    <3>2. pc'[t] \notin BatchPcs
      BY <3>1 DEF Pcs, BatchPcs, GenPcs, ReadPcs, DeletePcs
    <3>3. iovs[t] # <<>> => pc[t] \in GenPcs
      BY <3>1 DEF Batching, BatchPcs, GenPcs, ReadPcs, DeletePcs
    <3>4. iovs' = iovs /\ placed' = placed
      BY <1>1
    <3>5. CASE iovs[t] = <<>>
      BY <1>2, <1>3, <3>1, <3>2, <3>4, <3>5 DEF Batching
    <3>6. CASE iovs[t] # <<>>
      <4>1. pc[t] \in GenPcs /\ pc[t] # "finish" /\ pc'[t] \in GenPcs \cup {"finish"}
        BY <3>1, <3>3, <3>6 DEF GenPcs
      <4>2. \A i \in 1 .. Len(placed[t]) : Entered(t, i)'
        BY <3>4, <3>6, <4>1 DEF Batching, Entered
      <4> QED
        BY <1>2, <1>3, <3>1, <3>2, <3>4, <3>6, <4>1, <4>2 DEF Batching
    <3> QED
      BY <3>5, <3>6
  <2> QED
    BY <2>2, <2>3
<1> QED
  BY <1>4, <1>5

LEMMA InitBInv == BInit => BInv
<1> SUFFICES ASSUME BInit PROVE BInv
  OBVIOUS
<1>1. IInv
  BY InitIInv DEF BInit, HInit
<1>2. IInvAt(BPcs)
  BY <1>1 DEF IInv, IInvAt, TypeOK, Typed, BPcs
<1> QED
  BY <1>2 DEF BInit, HInit, Init, Opened, BInv, BTyped, Batching, BatchPcs

\* A call does one thing at a time, or time passes.
LEMMA BatchKinds ==
    ASSUME [BNext]_bvars
    PROVE  \/ \E t \in Threads :
                \/ BatchStep(t) \/ SingleStep(t)
                \/ \E b \in Batches : BatchCall(t, b)
                \/ \E r \in Requests : Call(t, r) /\ UNCHANGED <<iovs, placed, before>>
           \/ (Tick \/ UNCHANGED vars) /\ UNCHANGED <<iovs, placed, before>>
  BY DEF BNext, BStep, bvars, hvars

LEMMA BInductive ==
    ASSUME BInv, [BNext]_bvars
    PROVE  BInv'
<1>1. CASE (Tick \/ UNCHANGED vars) /\ UNCHANGED <<iovs, placed, before>>
  <2>1. [Next]_vars /\ UNCHANGED <<pc, req>>
    BY <1>1 DEF Next, Tick, vars, local
  <2>2. IInvAt(BPcs)'
    BY <2>1, InductiveAt DEF BInv, BPcs
  <2> QED
    BY <1>1, <2>1, <2>2 DEF BInv, BTyped, Batching, Entered
<1>2. ASSUME NEW t \in Threads,
             \/ BatchStep(t) \/ SingleStep(t)
             \/ \E b \in Batches : BatchCall(t, b)
             \/ \E r \in Requests : Call(t, r) /\ UNCHANGED <<iovs, placed, before>>
      PROVE  BInv'
  <2>1. IInvAt(BPcs)' /\ BTyped' /\ Batching(t)'
    BY <1>2, BatchPlaces, BatchEnds, BatchShares DEF BatchStep
  <2>2. ASSUME NEW u \in Threads, u # t PROVE Batching(u)'
    <3>1. pc'[u] = pc[u] /\ req'[u] = req[u] /\ iovs'[u] = iovs[u] /\ placed'[u] = placed[u]
      BY <1>2, <2>2, BatchOthers
    <3>2. Batching(u)
      BY DEF BInv
    <3> QED
      BY <3>1, <3>2 DEF Batching, Entered
  <2> QED
    BY <2>1, <2>2 DEF BInv
<1> QED
  BY <1>1, <1>2, BatchKinds

\* With batches too, however they overlap, a record is always at one of the slots that a
\* call for its key probes.
THEOREM BatchPlacementHolds == BSpec => []Placement
<1>1. BInv /\ [BNext]_bvars => BInv'
  BY BInductive
<1>2. BInv => Placement
  BY DEF BInv, IInvAt
<1> QED
  BY InitBInv, <1>1, <1>2, PTL DEF BSpec

-----------------------------------------------------------------------------
\* All that is stored has the size of a value, and so has what is to be trimmed.
Sizes == {Sectors[v] : v \in Values}

Sized ==
    /\ \A s \in Slots : media[s] # NoRec => media[s].secs \in Sizes
    /\ \A t \in Threads : trim_len[t] \in Sizes \cup {0}

\* The slot s is passed over by a search for k: it has another key, or will have.
Blocked(t, k, s) ==
    \/ media[s] # NoRec /\ media[s].key # k
    \/ \E i \in Places(t) : placed[t][i].lba = s /\ placed[t][i].rec.key # k

\* The slots that the keys of a batch were given: free ones, which are locked, and ones
\* that have the key; and a key is given the first of its slots that no other has.
Given(t) ==
    \A i \in Places(t) :
        LET p == placed[t][i] IN
        /\ p.trim \in Sizes \cup {0}
        /\ IF media[p.lba] = NoRec THEN p.lba \in safe ELSE media[p.lba].key = p.rec.key
        /\ \A j \in Places(t) : placed[t][j].lba = p.lba => placed[t][j].rec.key = p.rec.key
        /\ \E n \in 1 .. MaxCollision :
             /\ p.lba = Probe[p.rec.key][n]
             /\ \A m \in 1 .. MaxCollision : m < n => Blocked(t, p.rec.key, Probe[p.rec.key][m])

\* The search for a slot for the next key.
Searching(t) ==
    /\ lba[t] = Slot(t)
    /\ \A m \in 1 .. MaxCollision : m < itr[t] => Blocked(t, req[t].key, Probe[req[t].key][m])
    /\ pc[t] \in {"gen_insert", "put_write"} =>
         media[lba[t]] = NoRec \/ media[lba[t]].key = req[t].key
    /\ pc[t] = "put_write" /\ media[lba[t]] = NoRec =>
         /\ lba[t] \in safe
         /\ \A i \in Places(t) : placed[t][i].lba # lba[t]
    /\ pc[t] = "gen_read" => media[lba[t]] # NoRec
    /\ pc[t] = "gen_drop" => media[lba[t]] # NoRec /\ media[lba[t]].key # req[t].key

\* The batch needs no second run over its vectors.
AtOnce(t) ==
    \/ 3 * Len(iovs[t]) <= MaxIovs
    \/ \A i \in DOMAIN iovs[t] : \A v \in Values : Sectors[v] <= Sectors[iovs[t][i].val]

Indices(t, k) == {i \in DOMAIN iovs[t] : iovs[t][i].key = k}

\* What is in the store at each place of a batch.
Outcome(t) ==
    /\ pc[t] \in GenPcs \cup {"batch_next"} => \A k \in Keys : Lookup(k) = before[t][k]
    /\ pc[t] = "batch_rewrite" =>
         /\ ~AtOnce(t) /\ Len(placed[t]) = Len(iovs[t])
         /\ \A k \in Keys : Indices(t, k) = {} => Lookup(k) = before[t][k]
    /\ pc[t] = "finish" /\ ret[t] = "ok" => \A k \in Keys :
         Lookup(k) = IF Indices(t, k) = {} THEN before[t][k] ELSE iovs[t][Max(Indices(t, k))].val
    /\ pc[t] = "finish" /\ ret[t] \in {"failed", "exists"} /\ AtOnce(t) =>
         \A k \in Keys : Lookup(k) = before[t][k]
    /\ pc[t] # "batch_write"

\* A call that waits for an LBA waits for one that is in the safe list.
Waits(t) == wait[t] => pc[t] \in {"gen_insert", "del_insert"} /\ lba[t] \in safe

\* What holds of a batch until it ends.
Running(t) ==
    iovs[t] # <<>> =>
      /\ pc[t] # "finish" => Given(t)
      /\ pc[t] \in GenPcs => Searching(t)
      /\ Outcome(t)

\* The inductive invariant of calls and batches that follow each other.
SoloInv ==
    /\ BInv /\ Sized
    /\ \A t \in Threads :
         /\ Waits(t)
         /\ ret[t] # NoResult => pc[t] = "finish"
         /\ Running(t)

\* What kv_put leaves at a slot is of the size of a value.
LEMMA WrittenSize ==
    ASSUME clock \in Nat, NEW r \in Requests, r.op = "put",
           NEW old \in Record \cup {NoRec}, old # NoRec => old.secs \in Sizes, NEW trim \in Nat,
           Written(old, r, trim) # NoRec
    PROVE  Written(old, r, trim).secs \in Sizes
<1>1. NewRecord(r) \in Record /\ NewRecord(r).secs \in Sizes
  BY RequestFields, KVOpsAssumption DEF NewRecord, Record, Sizes
<1>2. [NewRecord(r) EXCEPT !.val = Torn].secs \in Sizes
  BY <1>1 DEF Record
<1>3. ASSUME old # NoRec PROVE [old EXCEPT !.val = Torn].secs \in Sizes
  BY <1>3 DEF Record
<1> QED
  BY <1>1, <1>2, <1>3 DEF Written

\* A call replaces no more than a record, and takes no other size for it.
LEMMA StepSized ==
    ASSUME BInv, Sized, NEW t \in Threads, Step(t) \/ \E r \in Requests : Call(t, r)
    PROVE  Sized'
<1> USE DEF BInv, IInvAt, Typed, Goto, Done, local
<1>1. \A u \in Threads : u # t => trim_len'[u] = trim_len[u]
  BY OthersKeptAt
<1>2. trim_len'[t] \in Sizes \cup {0}
  <2>1. ASSUME NEW r \in Requests, Call(t, r) PROVE trim_len'[t] = trim_len[t]
    BY <2>1 DEF Call, Begin
  <2>2. CASE GenReadMatch(t)
    <3>1. media[lba[t]] # NoRec
      BY <2>2 DEF GenReadMatch, Matches
    <3> QED
      BY <2>2, <3>1 DEF GenReadMatch, Sized
  <2>3. CASE GenReadMismatch(t) \/ Finish(t)
    BY <2>3 DEF GenReadMismatch, Finish
  <2>4. CASE Step(t) /\ ~GenReadMatch(t) /\ ~GenReadMismatch(t) /\ ~Finish(t)
    <3>1. trim_len' = trim_len
      BY <2>4 DEF Step, Contend, GenRange, GenInsert, GenDrop, PutWrite, GetRange, ReadMatch, ReadMismatch,
         BlindRead, Expire, DelRead, DelInsert, DelReread, DelFound, ProbeOn, Insert, DelTrim,
         DeviceError
    <3> QED
      BY <3>1 DEF Sized
  <2> QED
    BY <2>1, <2>2, <2>3, <2>4 DEF Sized
<1>3. ASSUME NEW s \in Slots, media'[s] # NoRec PROVE media'[s].secs \in Sizes
  <2>1. CASE PutWrite(t)
    <3>1. /\ media' = [media EXCEPT ![lba[t]] = Written(media[lba[t]], req[t], trim_len[t])]
          /\ req[t] \in Requests /\ req[t].op = "put"
      BY <2>1 DEF PutWrite, Located, GenPcs
    <3>2. CASE s = lba[t]
      BY <1>3, <3>1, <3>2, WrittenSize DEF Sized
    <3> QED
      BY <1>3, <3>1, <3>2 DEF Sized
  <2>2. CASE DelTrim(t)
    BY <1>3, <2>2 DEF DelTrim, Trim, Sized
  <2> QED
    BY <1>3, <2>1, <2>2, MediaStep DEF Sized
<1> QED
  BY <1>1, <1>2, <1>3 DEF Sized

\* So does a batch.
LEMMA BatchSized ==
    ASSUME BInv, Sized, NEW t \in Threads, BatchStep(t) \/ \E b \in Batches : BatchCall(t, b)
    PROVE  Sized'
<1> USE DEF BInv, IInvAt, Typed, Goto, Done, local
<1>1. CASE BatchWrite(t) \/ BatchRewrite(t)
  <2>1. trim_len' = trim_len /\ iovs[t] # <<>> /\ pc[t] # "finish"
        /\ (media' = AllWritten(t) \/ media' = AllTrimmed(t))
    BY <1>1, BatchMedia DEF BatchWrite, BatchRewrite
  <2>2. ASSUME NEW s \in Slots, media'[s] # NoRec PROVE media'[s].secs \in Sizes
    <3>1. CASE media' = AllTrimmed(t)
      BY <2>2, <3>1, TrimmedMedia DEF Sized
    <3>2. CASE media' = AllWritten(t)
      <4>1. CASE media'[s] = media[s]
        BY <2>2, <4>1 DEF Sized
      <4>2. ASSUME NEW i \in Places(t), media'[s] = placed[t][i].rec
            PROVE  media'[s].secs \in Sizes
        <5>1. /\ placed[t][i].rec.secs = Sectors[iovs[t][i].val]
              /\ i \in 1 .. Len(iovs[t]) /\ iovs[t] \in Batches
          BY <2>1, EntryOf, BatchIsSeq
        <5> QED
          BY <4>2, <5>1, BatchIsSeq DEF Sizes
      <4> QED
        BY <2>1, <3>2, <4>1, <4>2, WrittenMedia
    <3> QED
      BY <2>1, <3>1, <3>2
  <2> QED
    BY <2>1, <2>2 DEF Sized
<1>2. CASE BatchNext(t) \/ BatchPlace(t) \/ BatchError(t) \/ BatchRelease(t) \/ BatchFinish(t)
           \/ \E b \in Batches : BatchCall(t, b)
  <2>1. media' = media /\ \A u \in Threads : trim_len'[u] \in {trim_len[u], 0}
    BY <1>2 DEF BatchNext, BatchPlace, BatchError, BatchRelease, BatchFinish, BatchCall
  <2> QED
    BY <2>1 DEF Sized
<1> QED
  BY <1>1, <1>2 DEF BatchStep

\* Nobody but the caller itself keeps a call waiting, so it waits for ever.
LEMMA WaitsForEver ==
    ASSUME \A t, u \in Threads : t = u, BInv, NEW t \in Threads, Waits(t),
           \/ BatchStep(t) \/ SingleStep(t)
           \/ \E b \in Batches : BatchCall(t, b)
           \/ \E r \in Requests : Call(t, r)
    PROVE  ~wait[t] /\ Waits(t)'
<1> USE DEF BInv, IInvAt, Typed, Goto, Done, local, Waits
<1>1. ~wait[t]
  <2> SUFFICES ASSUME wait[t] PROVE FALSE
    OBVIOUS
  <2>1. pc[t] \in {"gen_insert", "del_insert"} /\ lba[t] \in safe
    OBVIOUS
  <2>2. ~BatchStep(t) /\ ~(\E b \in Batches : BatchCall(t, b)) /\ ~(\E r \in Requests : Call(t, r))
    BY <2>1 DEF BatchStep, BatchNext, BatchPlace, BatchWrite, BatchRewrite, BatchError, AllPlaced,
       BatchRelease, BatchFinish, BatchCall, Call, Begin
  <2>3. ~Step(t)
    BY <2>1, KVOpsAssumption DEF Step, Contend, GenRange, GenInsert, GenReadMatch, GenReadMismatch, GenDrop,
       PutWrite, GetRange, ReadMatch, ReadMismatch, BlindRead, Expire, DelRead, DelInsert, DelReread,
       DelFound, ProbeOn, Insert, DelTrim, DeviceError, DevicePcs, Finish
  <2> QED
    BY <2>2, <2>3 DEF SingleStep
<1>2. CASE BatchStep(t) \/ (\E b \in Batches : BatchCall(t, b)) \/ (\E r \in Requests : Call(t, r))
  <2>1. wait' = wait
    BY <1>2 DEF BatchStep, BatchNext, BatchPlace, BatchWrite, BatchRewrite, BatchError,
       BatchRelease, BatchFinish, BatchCall, Call, Begin
  <2> QED
    BY <1>1, <2>1
<1>3. CASE Step(t)
  <2>1. CASE Contend(t)
    BY <1>1, <2>1 DEF Contend
  <2>2. CASE ~Contend(t)
    <3>1. wait'[t] = wait[t] \/ ~wait'[t]
      BY <1>3, <2>2 DEF Step, GenRange, GenInsert, GenReadMatch, GenReadMismatch, GenDrop,
         PutWrite, GetRange, ReadMatch, ReadMismatch, BlindRead, Expire, DelRead, DelInsert, DelReread,
         DelFound, ProbeOn, Insert, DelTrim, DeviceError, Finish
    <3> QED
      BY <1>1, <3>1
  <2> QED
    BY <2>1, <2>2
<1> QED
  BY <1>1, <1>2, <1>3 DEF SingleStep

\* A call that has a result has nothing left to do but to clean up.
LEMMA ResultIsLast ==
    ASSUME BInv, NEW t \in Threads, ret[t] # NoResult => pc[t] = "finish",
           \/ BatchStep(t) \/ SingleStep(t)
           \/ \E b \in Batches : BatchCall(t, b)
           \/ \E r \in Requests : Call(t, r)
    PROVE  ret'[t] # NoResult => pc'[t] = "finish"
<1> USE DEF BInv, IInvAt, Typed, Goto, Done, local
<1>1. CASE BatchStep(t) \/ (\E b \in Batches : BatchCall(t, b)) \/ (\E r \in Requests : Call(t, r))
  BY <1>1 DEF BatchStep, BatchNext, BatchPlace, BatchWrite, BatchRewrite, BatchError, AllPlaced,
     BatchRelease, BatchFinish, BatchCall, Call, Begin
<1>2. CASE Step(t)
  <2>1. CASE Finish(t)
    BY <2>1 DEF Finish
  <2>2. CASE ~Finish(t)
    <3>1. ret[t] = NoResult
      BY <1>2, <2>2, StepWithin DEF GenPcs, ReadPcs, DeletePcs
    <3>2. \/ ret'[t] = ret[t]
          \/ pc'[t] = "finish"
      BY <1>2, <2>2 DEF Step, Contend, GenRange, GenInsert, GenReadMatch, GenReadMismatch,
         NextProbe, GenDrop, PutWrite, GetRange, ReadMatch, ReadMismatch, BlindRead, Expire, DelRead,
         DelInsert, DelReread, DelFound, ProbeOn, Rehash, Insert, DelTrim, DeviceError
    <3> QED
      BY <3>1, <3>2
  <2> QED
    BY <2>1, <2>2
<1> QED
  BY <1>1, <1>2 DEF SingleStep

\* What the vectors of a batch do to a slot, be it the trims or the writes: whatever is
\* there keeps its key, and what is written is for the key that was given the slot.
LEMMA VectorsAt ==
    ASSUME BInv, NEW t \in Threads, iovs[t] # <<>>, pc[t] # "finish", Given(t),
           media' = AllWritten(t) \/ media' = AllTrimmed(t), NEW s \in Slots
    PROVE  /\ media[s] # NoRec => media'[s] # NoRec /\ media'[s].key = media[s].key
           /\ (\A i \in Places(t) : placed[t][i].lba # s) => media'[s] = media[s]
           /\ \A i \in Places(t) : placed[t][i].lba = s /\ media'[s] # NoRec =>
                media'[s].key = placed[t][i].rec.key
<1>1. \A i \in Places(t) : placed[t][i].lba = s =>
        /\ media[s] # NoRec => media[s].key = placed[t][i].rec.key
        /\ \A j \in Places(t) : placed[t][j].lba = s => placed[t][j].rec.key = placed[t][i].rec.key
        /\ placed[t][i].rec # NoRec
  BY EntryOf DEF Given
<1>2. CASE media' = AllTrimmed(t)
  BY <1>1, <1>2, TrimmedMedia
<1>3. CASE media' = AllWritten(t)
  BY <1>1, <1>3, WrittenMedia
<1> QED
  BY <1>2, <1>3

\* A slot that a search has passed over is passed over again.
LEMMA StaysBlocked ==
    ASSUME BInv, NEW t \in Threads, iovs[t] # <<>>, pc[t] # "finish", Given(t),
           media' = AllWritten(t) \/ media' = AllTrimmed(t),
           NEW k \in Keys, NEW s \in Slots, Blocked(t, k, s)
    PROVE  ~Matches(s, k)' /\ (placed' = placed => Blocked(t, k, s)')
<1>1. CASE media[s] # NoRec /\ media[s].key # k
  BY <1>1, VectorsAt DEF Matches, Blocked
<1>2. CASE \E i \in Places(t) : placed[t][i].lba = s /\ placed[t][i].rec.key # k
  BY <1>2, VectorsAt DEF Matches, Blocked, Places
<1> QED
  BY <1>1, <1>2 DEF Blocked

\* So the keys still have the slots that they were given.
LEMMA StaysGiven ==
    ASSUME BInv, NEW t \in Threads, iovs[t] # <<>>, pc[t] # "finish", Given(t),
           media' = AllWritten(t) \/ media' = AllTrimmed(t), UNCHANGED <<placed, safe>>
    PROVE  Given(t)'
<1> SUFFICES ASSUME NEW i \in Places(t)
             PROVE  LET p == placed[t][i] IN
               /\ p.trim \in Sizes \cup {0}
               /\ IF media'[p.lba] = NoRec THEN p.lba \in safe ELSE media'[p.lba].key = p.rec.key
               /\ \A j \in Places(t) : placed[t][j].lba = p.lba => placed[t][j].rec.key = p.rec.key
               /\ \E n \in 1 .. MaxCollision :
                    /\ p.lba = Probe[p.rec.key][n]
                    /\ \A m \in 1 .. MaxCollision : m < n => Blocked(t, p.rec.key, Probe[p.rec.key][m])'
  BY DEF Given, Places
<1> DEFINE p == placed[t][i]
<1>1. p.lba \in Slots /\ p.rec.key \in Keys
  BY EntryOf
<1>2. /\ p.trim \in Sizes \cup {0}
      /\ media[p.lba] = NoRec => p.lba \in safe
      /\ \A j \in Places(t) : placed[t][j].lba = p.lba => placed[t][j].rec.key = p.rec.key
  BY DEF Given
<1>3. IF media'[p.lba] = NoRec THEN p.lba \in safe ELSE media'[p.lba].key = p.rec.key
  BY <1>1, <1>2, VectorsAt
<1>4. PICK n \in 1 .. MaxCollision :
         /\ p.lba = Probe[p.rec.key][n]
         /\ \A m \in 1 .. MaxCollision : m < n => Blocked(t, p.rec.key, Probe[p.rec.key][m])
  BY DEF Given
<1>5. \A m \in 1 .. MaxCollision : m < n => Blocked(t, p.rec.key, Probe[p.rec.key][m])'
  BY <1>1, <1>4, ProbeIsSlot, StaysBlocked
<1> QED
  BY <1>2, <1>3, <1>4, <1>5

\* A batch, whatever it has done, leaves the keys alone that are not in it.
LEMMA OtherKeys ==
    ASSUME BInv, NEW t \in Threads, iovs[t] # <<>>, pc[t] # "finish", Given(t),
           media' = AllWritten(t) \/ media' = AllTrimmed(t),
           NEW k \in Keys, Indices(t, k) = {}
    PROVE  Lookup(k)' = Lookup(k)
<1>1. \A i \in Places(t) : placed[t][i].rec.key # k
  BY EntryOf DEF Indices
<1>2. ASSUME NEW s \in ProbeSlots(k)
      PROVE  /\ Matches(s, k)' <=> Matches(s, k)
             /\ Matches(s, k) => media'[s] = media[s]
  <2>1. s \in Slots
    BY ProbeIsSlot DEF ProbeSlots
  <2>2. CASE \A i \in Places(t) : placed[t][i].lba # s
    BY <2>1, <2>2, VectorsAt DEF Matches
  <2>3. ASSUME NEW i \in Places(t), placed[t][i].lba = s PROVE ~Matches(s, k) /\ ~Matches(s, k)'
    <3>1. ~Matches(s, k)'
      BY <1>1, <2>1, <2>3, VectorsAt DEF Matches
    <3>2. ~Matches(s, k)
      BY <1>1, <2>3 DEF Matches, Given
    <3> QED
      BY <3>1, <3>2
  <2> QED
    BY <2>2, <2>3
<1> QED
  BY <1>2, LookupKept

\* A batch that was written gives each of its keys the last of its values.
LEMMA KeysWritten ==
    ASSUME BInv, NEW t \in Threads, iovs[t] # <<>>, pc[t] # "finish", Given(t),
           Len(placed[t]) = Len(iovs[t]), media' = AllWritten(t),
           NEW k \in Keys, Indices(t, k) # {}
    PROVE  Lookup(k)' = iovs[t][Max(Indices(t, k))].val
<1> DEFINE given == Indices(t, k)
           last == Max(given)
           p == placed[t][last]
<1>1. /\ Places(t) = 1 .. Len(iovs[t]) /\ Len(iovs[t]) \in Nat
      /\ DOMAIN iovs[t] = 1 .. Len(iovs[t])
  BY EntryOf, BatchIsSeq
<1>2. given \in SUBSET (1 .. Len(iovs[t]))
  BY <1>1 DEF Indices
<1>3. last \in given /\ \A i \in given : i <= last
  BY <1>1, <1>2, MaxIsGreatest
<1>4. last \in Places(t) /\ iovs[t][last].key = k
  BY <1>1, <1>2, <1>3 DEF Indices
<1>5. /\ p.lba \in Slots /\ p.rec # NoRec /\ p.rec.key = k /\ p.rec.val = iovs[t][last].val
  BY <1>4, EntryOf
<1>6. PICK n \in 1 .. MaxCollision :
         /\ p.lba = Probe[k][n]
         /\ \A m \in 1 .. MaxCollision : m < n => Blocked(t, k, Probe[k][m])
  BY <1>4, <1>5 DEF Given
<1>7. ASSUME NEW m \in 1 .. MaxCollision, m < n PROVE ~Matches(Probe[k][m], k)'
  BY <1>6, <1>7, ProbeIsSlot, StaysBlocked
<1>8. media'[p.lba] = p.rec
  <2>1. PICK x \in Places(t) :
           /\ placed[t][x].lba = p.lba /\ media'[p.lba] = placed[t][x].rec
           /\ \A j \in Places(t) : placed[t][j].lba = p.lba => j <= x
    BY <1>4, <1>5, WrittenMedia
  <2>2. placed[t][x].rec.key = k
    BY <1>4, <1>5, <2>1 DEF Given
  <2>3. x \in given
    BY <1>1, <2>2, EntryOf DEF Indices
  <2>4. x <= last /\ last <= x
    BY <1>3, <1>4, <2>1, <2>3
  <2>5. x = last
    BY <1>1, <1>4, <2>4
  <2> QED
    BY <2>1, <2>5
<1>9. Matches(Probe[k][n], k)'
  BY <1>5, <1>6, <1>8 DEF Matches
<1>10. Lookup(k)' = media'[Probe[k][n]].val
  BY <1>7, <1>9, LookupFirstNext
<1> QED
  BY <1>5, <1>6, <1>8, <1>10

\* A batch that takes a second run over its vectors has too few of them, and trims.
LEMMA SecondRun ==
    ASSUME BInv, NEW t \in Threads, Given(t), iovs[t] # <<>>, BatchWrite(t),
           pc'[t] # "finish"
    PROVE  ~AtOnce(t) /\ pc'[t] = "batch_rewrite" /\ ret' = ret
<1> DEFINE n == Len(placed[t])
           trims == Cardinality(Trims(t))
<1>1. pc[t] = "batch_next" /\ n = Len(iovs[t])
  BY DEF BatchWrite, AllPlaced
<1>2. n \in Nat /\ Places(t) = 1 .. n
  BY <1>1, EntryOf
<1>3. IsFiniteSet(1 .. n) /\ Cardinality(1 .. n) = n
  <2>1. 1 \in Int /\ n \in Int /\ (IF 1 > n THEN 0 ELSE n - 1 + 1) = n
    BY <1>2
  <2> HIDE DEF n
  <2>2. IsFiniteSet(1 .. n) /\ Cardinality(1 .. n) = IF 1 > n THEN 0 ELSE n - 1 + 1
    BY ONLY <2>1, FS_Interval
  <2> QED
    BY <2>1, <2>2
<1>4. Trims(t) \subseteq 1 .. n
  BY <1>2 DEF Trims
<1>5. IsFiniteSet(Trims(t)) /\ trims <= n /\ trims \in Nat
  BY <1>3, <1>4, FS_Subset, FS_CardinalityType
<1>6. /\ trims > 0 /\ pc'[t] = "batch_rewrite" /\ ret' = ret
      /\ ~Fits(t, n + trims) \/ ~Fits(t, trims)
  <2>1. pc \in [Threads -> BPcs]
    BY DEF BInv, IInvAt, Typed
  <2> QED
    BY <2>1 DEF BatchWrite, Done, Goto
<1>7. 3 * n > MaxIovs
  <2>1. MaxIovs \in Nat
    BY KVOpsAssumption
  <2>2. n + (n + trims) > MaxIovs \/ n + trims > MaxIovs
    BY <1>2, <1>5, <1>6, <2>1 DEF Fits
  <2> QED
    BY <1>2, <1>5, <2>1, <2>2
<1>8. \E i \in DOMAIN iovs[t] : \E v \in Values : Sectors[v] > Sectors[iovs[t][i].val]
  <2>1. Trims(t) # {}
    <3>1. Trims(t) = {} => trims = 0
      BY FS_EmptySet, Zenon
    <3> QED
      BY <1>5, <1>6, <3>1
  <2>2. PICK i \in Places(t) : placed[t][i].trim > placed[t][i].rec.secs
    BY <2>1 DEF Trims
  <2>3. /\ placed[t][i].trim \in Sizes \cup {0} /\ i \in DOMAIN iovs[t]
        /\ placed[t][i].rec.secs = Sectors[iovs[t][i].val]
    BY <1>1, <2>2, EntryOf DEF Given
  <2>4. Sectors[iovs[t][i].val] \in Nat
    <3>1. iovs[t] \in Batches
      BY <1>1, EntryOf
    <3>2. iovs[t][i].val \in Values
      BY <2>3, <3>1, BatchIsSeq
    <3> QED
      BY <3>2, KVOpsAssumption
  <2> QED
    BY <2>2, <2>3, <2>4 DEF Sizes
<1>9. iovs[t] \in Batches /\ Len(iovs[t]) = n
  BY <1>1, EntryOf
<1>10. \A i \in DOMAIN iovs[t] : iovs[t][i].val \in Values
  BY <1>9, BatchIsSeq
<1>11. ~AtOnce(t)
  <2>1. MaxIovs \in Nat /\ Sectors \in [Values -> Nat]
    BY KVOpsAssumption
  <2> QED
    BY <1>2, <1>7, <1>8, <1>9, <1>10, <2>1 DEF AtOnce
<1> QED
  BY <1>6, <1>11

\* While nothing is written nothing is looked up differently.
LEMMA SameLookup ==
    media' = media => \A k \in Keys : Lookup(k)' = Lookup(k)
  BY DEF Lookup, Copies, Matches

\* One step of the search for a slot for a key: the slots that were given stay given.
LEMMA SearchGiven ==
    ASSUME BInv, NEW t \in Threads, iovs[t] # <<>>, pc[t] \in GenPcs, pc[t] # "put_write",
           Running(t), Step(t), UNCHANGED <<iovs, placed, before>>
    PROVE  /\ media' = media /\ req' = req /\ Given(t)'
           /\ \A s \in Slots : media[s] = NoRec /\ s \in safe => s \in safe'
<1> USE DEF BInv, IInvAt, Typed, Goto, Done, local
<1>1. ~PutWrite(t) /\ ~DelTrim(t) /\ ~Finish(t) /\ pc[t] # "finish"
  BY DEF PutWrite, DelTrim, Finish, GenPcs
<1>2. media' = media /\ req' = req
  BY <1>1, MediaStep, StepWithin
<1>3. \A s \in Slots : media[s] = NoRec /\ s \in safe => s \in safe'
  <2>1. CASE GenDrop(t)
    <3>1. media[lba[t]] # NoRec
      BY <2>1 DEF GenDrop, Running, Searching
    <3> QED
      BY <2>1, <3>1 DEF GenDrop
  <2>2. CASE ~GenDrop(t)
    BY <1>1, <2>2 DEF Step, Contend, GenRange, GenInsert, GenReadMatch, GenReadMismatch,
       GetRange, ReadMatch, ReadMismatch, BlindRead, Expire, DelRead, DelInsert, DelReread, DelFound,
       ProbeOn, Insert, DeviceError
  <2> QED
    BY <2>1, <2>2
<1>4. \A i \in Places(t) : placed[t][i].lba \in Slots
  BY <1>1, EntryOf
<1>5. Given(t)'
  <2>1. Given(t)
    BY <1>1 DEF Running
  <2>2. \A k, s : Blocked(t, k, s) => Blocked(t, k, s)'
    BY <1>2 DEF Blocked, Places
  <2>3. \A s \in Slots :
          IF media[s] = NoRec THEN s \in safe => s \in safe' ELSE media'[s] = media[s]
    BY <1>2, <1>3
  <2>4. media' = media /\ placed' = placed
    BY <1>2
  <2> QED
    BY ONLY <1>4, <2>1, <2>2, <2>3, <2>4 DEF Given, Places
<1> QED
  BY <1>2, <1>3, <1>5

\* ... and what was passed over stays that.
LEMMA SearchGoesOn ==
    ASSUME BInv, NEW t \in Threads, iovs[t] # <<>>, pc[t] \in GenPcs, pc[t] # "put_write",
           Waits(t), Running(t), Step(t), UNCHANGED <<iovs, placed, before>>, pc'[t] \in GenPcs
    PROVE  Searching(t)'
<1> USE DEF BInv, IInvAt, Typed, Goto, Done, local, GenPcs
<1>1. media' = media /\ req' = req
  BY SearchGiven
<1>2. Searching(t) /\ Given(t)
  BY DEF Running
<1> DEFINE k == req[t].key
           Behind(n) == \A m \in 1 .. MaxCollision : m < n => Blocked(t, k, Probe[k][m])
<1>3. \A n : Behind(n) =>
        (\A m \in 1 .. MaxCollision : m < n => Blocked(t, req[t].key, Probe[req[t].key][m])')
  BY <1>1 DEF Blocked, Places
<1>4. lba[t] = Probe[k][itr[t]] /\ Behind(itr[t]) /\ itr[t] \in 1 .. MaxCollision
  BY <1>2 DEF Searching, Slot
<1>5. CASE UNCHANGED <<itr, lba>>
  <2>1. /\ pc'[t] \in {"gen_insert", "put_write"} =>
             media[lba[t]] = NoRec \/ media[lba[t]].key = req[t].key
        /\ pc'[t] = "gen_read" => media[lba[t]] # NoRec
        /\ pc'[t] = "gen_drop" => media[lba[t]] # NoRec /\ media[lba[t]].key # req[t].key
    <3>1. CASE Contend(t) \/ GenRange(t)
      BY <1>2, <3>1 DEF Contend, GenRange, Searching
    <3>2. CASE GenInsert(t)
      BY <1>2, <3>2 DEF GenInsert, Insert, Searching, Waits
    <3>3. CASE GenReadMatch(t) \/ GenReadMismatch(t)
      BY <1>2, <3>3 DEF GenReadMatch, GenReadMismatch, NextProbe, LockFirst, Matches, Searching
    <3>4. CASE GenDrop(t) \/ DeviceError(t)
      BY <3>4 DEF GenDrop, NextProbe, DeviceError
    <3> QED
      BY <3>1, <3>2, <3>3, <3>4 DEF Step, PutWrite, GetRange, ReadMatch, ReadMismatch, BlindRead, Expire,
         DelRead, DelInsert, DelReread, DelFound, ProbeOn, Insert, DelTrim, Finish
  <2>2. pc'[t] = "put_write" /\ media[lba[t]] = NoRec =>
          /\ lba[t] \in safe' /\ lba[t] \notin safe
    <3>1. CASE GenInsert(t)
      BY <3>1 DEF GenInsert, Insert
    <3>2. CASE GenReadMatch(t)
      BY <3>2 DEF GenReadMatch, Matches
    <3>3. CASE ~GenInsert(t) /\ ~GenReadMatch(t)
      BY <3>3 DEF Step, Contend, GenRange, GenReadMismatch, NextProbe, GenDrop, PutWrite, GetRange, ReadMatch,
         ReadMismatch, BlindRead, Expire, DelRead, DelInsert, DelReread, DelFound, ProbeOn, Insert,
         DelTrim, DeviceError, Finish
    <3> QED
      BY <3>1, <3>2, <3>3
  <2>3. pc'[t] = "put_write" /\ media[lba[t]] = NoRec =>
          /\ lba[t] \in safe' /\ \A i \in Places(t) : placed[t][i].lba # lba[t]
    BY <1>2, <2>2 DEF Given
  <2>4. lba'[t] = lba[t] /\ itr'[t] = itr[t]
    BY <1>5
  <2> QED
    BY <1>1, <1>3, <1>4, <2>1, <2>3, <2>4 DEF Searching, Slot, Places
<1>6. CASE ~UNCHANGED <<itr, lba>>
  <2>1. /\ itr[t] < MaxCollision /\ itr' = [itr EXCEPT ![t] = itr[t] + 1]
        /\ lba' = [lba EXCEPT ![t] = Probe[req[t].key][itr[t] + 1]] /\ pc'[t] = "gen_range"
        /\ media[lba[t]] # NoRec /\ media[lba[t]].key # req[t].key
    <3>1. CASE GenReadMismatch(t)
      BY <1>2, <1>6, <3>1 DEF GenReadMismatch, NextProbe, Matches, Searching
    <3>2. CASE GenDrop(t)
      BY <1>2, <1>6, <3>2 DEF GenDrop, NextProbe, Searching
    <3>3. CASE ~GenReadMismatch(t) /\ ~GenDrop(t)
      BY <1>6, <3>3 DEF Step, Contend, GenRange, GenInsert, GenReadMatch, PutWrite, GetRange, ReadMatch,
         ReadMismatch, BlindRead, Expire, DelRead, DelInsert, DelReread, DelFound, ProbeOn, Insert,
         DelTrim, DeviceError, Finish
    <3> QED
      BY <3>1, <3>2, <3>3
  <2>2. itr'[t] = itr[t] + 1 /\ lba'[t] = Probe[k][itr[t] + 1]
    BY <2>1
  <2>3. Blocked(t, k, Probe[k][itr[t]])
    BY <1>4, <2>1 DEF Blocked
  <2>4. \A m \in 1 .. MaxCollision : m < itr[t] + 1 => m < itr[t] \/ m = itr[t]
    BY <1>4
  <2>5. Behind(itr[t] + 1)
    BY <1>4, <2>3, <2>4
  <2> HIDE DEF Behind
  <2>6. \A m \in 1 .. MaxCollision : m < itr'[t] => Blocked(t, req[t].key, Probe[req[t].key][m])'
    BY <1>3, <2>2, <2>5
  <2> QED
    BY <1>1, <2>1, <2>2, <2>6 DEF Searching, Slot
<1> QED
  BY <1>5, <1>6

\* A step of the search for a slot for a key.
LEMMA SearchRuns ==
    ASSUME BInv, NEW t \in Threads, iovs[t] # <<>>, Waits(t), Running(t),
           ret[t] # NoResult => pc[t] = "finish", SingleStep(t)
    PROVE  Running(t)'
<1> USE DEF BInv, IInvAt, Typed, Goto, Done, local
<1>1. /\ Step(t) /\ UNCHANGED <<iovs, placed, before>>
      /\ pc[t] # "put_write" /\ pc[t] # "finish"
  BY DEF SingleStep, InBatch
<1>2. ~Finish(t)
  BY <1>1 DEF Finish
<1>3. pc[t] \in GenPcs /\ pc'[t] \in GenPcs \cup {"finish"}
  <2>1. pc[t] \in GenPcs
    BY <1>1, <1>2, StepWithin DEF Batching, BatchPcs, GenPcs, ReadPcs, DeletePcs
  <2> QED
    BY <1>1, <1>2, <2>1, PutPlaces
<1>4. media' = media /\ Given(t)'
  BY <1>1, <1>3, SearchGiven
<1>5. pc'[t] \in GenPcs => Searching(t)'
  BY <1>1, <1>3, SearchGoesOn
<1>6. pc'[t] = "finish" => ret'[t] \in {"failed", "exists"}
  BY <1>1, <1>3 DEF GenPcs, Step, Contend, GenRange, GenInsert, GenReadMatch, GenReadMismatch,
     NextProbe, LockFirst, GenDrop, PutWrite, GetRange, ReadMatch, ReadMismatch, BlindRead, Expire, DelRead,
     DelInsert, DelReread, DelFound, ProbeOn, Insert, DelTrim, DeviceError, Finish
<1>7. \A k \in Keys : Lookup(k)' = before[t][k]
  BY <1>3, <1>4, SameLookup DEF Running, Outcome
<1>8. \A k \in Keys : Lookup(k)' = before'[t][k]
  BY <1>1, <1>7
<1>9. Outcome(t)'
  <2>1. pc'[t] # "batch_rewrite" /\ pc'[t] # "batch_write"
    BY <1>3 DEF GenPcs
  <2>2. pc'[t] = "finish" => ret'[t] # "ok"
    BY <1>6
  <2> QED
    BY <1>8, <2>1, <2>2 DEF Outcome
<1> QED
  BY <1>4, <1>5, <1>9 DEF Running

\* A key is given a slot.
LEMMA PlaceRuns ==
    ASSUME BInv, Sized, NEW t \in Threads, Running(t),
           ret[t] # NoResult => pc[t] = "finish", BatchNext(t) \/ BatchPlace(t)
    PROVE  Running(t)'
<1> USE DEF BInv, BTyped, IInvAt, Typed, Goto, Done, local
<1> DEFINE n == Len(placed[t])
<1>1. /\ iovs[t] # <<>> /\ pc[t] \in {"batch_next", "put_write"}
      /\ media' = media /\ safe' = safe /\ iovs' = iovs /\ before' = before
  BY DEF BatchNext, BatchPlace, InBatch, Batching, BatchPcs
<1>2. Given(t) /\ pc[t] # "finish" /\ \A k \in Keys : Lookup(k) = before[t][k]
  BY <1>1 DEF Running, Outcome, GenPcs
<1>3. \A k \in Keys : Lookup(k)' = before'[t][k]
  <2>1. \A k \in Keys : Lookup(k)' = Lookup(k)
    BY <1>1, SameLookup
  <2> QED
    BY <1>1, <1>2, <2>1
<1>4. /\ n \in Nat /\ Places(t) = 1 .. n /\ placed[t] \in Seq(Placed)
      /\ \A i \in Places(t) : placed[t][i].lba \in Slots /\ placed[t][i].rec.key \in Keys
  BY <1>1, <1>2, EntryOf
\* What it takes for the new entry to keep the invariant.
<1>5. ASSUME NEW r \in Requests, r.op = "put", NEW s \in Slots, NEW trim \in Sizes \cup {0},
             PlaceKey(t, r, s, trim),
             IF media[s] = NoRec THEN s \in safe ELSE media[s].key = r.key,
             \A j \in Places(t) : placed[t][j].lba = s => placed[t][j].rec.key = r.key,
             NEW p \in 1 .. MaxCollision, s = Probe[r.key][p],
             \A m \in 1 .. MaxCollision : m < p => Blocked(t, r.key, Probe[r.key][m])
      PROVE  Given(t)'
  <2>1. trim \in Nat
    BY KVOpsAssumption DEF Sizes
  <2>2. /\ placed'[t] \in Seq(Placed) /\ Len(placed'[t]) = n + 1
        /\ \A i \in 1 .. n : placed'[t][i] = placed[t][i]
        /\ placed'[t][n + 1] = [lba |-> s, rec |-> NewRecord(r), trim |-> trim]
    <3>1. placed = [u \in Threads |-> placed[u]] /\ clock \in Nat
      OBVIOUS
    <3> QED
      BY ONLY <1>4, <1>5, <2>1, <3>1, t \in Threads, PlacedNext
  <2>3. NewRecord(r).key = r.key
    BY DEF NewRecord
  <2>4. Places(t)' = 1 .. (n + 1)
    BY <1>4, <2>2 DEF Places
  <2>5. \A i \in Places(t)' : i \in Places(t) \/ i = n + 1
    BY <1>4, <2>4
  <2>6. /\ \A i \in Places(t) : i \in Places(t)' /\ placed'[t][i] = placed[t][i]
        /\ placed'[t][n + 1].lba = s /\ placed'[t][n + 1].rec.key = r.key
        /\ placed'[t][n + 1].trim = trim
    BY <1>4, <2>2, <2>3, <2>4
  <2> HIDE DEF n
  <2> DEFINE Full(k, x) ==
               \/ media'[x] # NoRec /\ media'[x].key # k
               \/ \E j \in Places(t)' : placed'[t][j].lba = x /\ placed'[t][j].rec.key # k
  <2>7. \A k, x : Blocked(t, k, x) => Full(k, x)
    BY <1>1, <2>6 DEF Blocked
  <2> DEFINE Fine(a, k, x) ==
               /\ x \in Sizes \cup {0}
               /\ IF media'[a] = NoRec THEN a \in safe' ELSE media'[a].key = k
               /\ \A j \in Places(t)' : placed'[t][j].lba = a => placed'[t][j].rec.key = k
               /\ \E y \in 1 .. MaxCollision :
                    /\ a = Probe[k][y]
                    /\ \A m \in 1 .. MaxCollision : m < y => Full(k, Probe[k][m])
  <2> HIDE DEF Full
  <2>8. Fine(s, r.key, trim)
    BY <1>1, <1>5, <2>5, <2>6, <2>7
  <2>9. ASSUME NEW i \in Places(t)
        PROVE  Fine(placed[t][i].lba, placed[t][i].rec.key, placed[t][i].trim)
    <3> DEFINE q == placed[t][i]
    <3>1. /\ q.trim \in Sizes \cup {0}
          /\ IF media[q.lba] = NoRec THEN q.lba \in safe ELSE media[q.lba].key = q.rec.key
          /\ \A j \in Places(t) : placed[t][j].lba = q.lba => placed[t][j].rec.key = q.rec.key
      BY <1>2 DEF Given
    <3>2. PICK y \in 1 .. MaxCollision :
            /\ q.lba = Probe[q.rec.key][y]
            /\ \A m \in 1 .. MaxCollision : m < y => Blocked(t, q.rec.key, Probe[q.rec.key][m])
      BY <1>2 DEF Given
    <3>3. s = q.lba => q.rec.key = r.key
      BY <1>5
    <3>4. \A j \in Places(t)' : placed'[t][j].lba = q.lba => placed'[t][j].rec.key = q.rec.key
      BY <2>5, <2>6, <3>1, <3>3
    <3>5. \A m \in 1 .. MaxCollision : m < y => Full(q.rec.key, Probe[q.rec.key][m])
      BY <2>7, <3>2
    <3> QED
      BY <1>1, <3>1, <3>2, <3>4, <3>5
  <2> HIDE DEF Fine
  <2>10. \A i \in Places(t)' : Fine(placed'[t][i].lba, placed'[t][i].rec.key, placed'[t][i].trim)
    BY <2>5, <2>6, <2>8, <2>9
  <2> QED
    BY <2>10 DEF Given, Fine, Full, Blocked
<1>6. CASE BatchNext(t)
  <2> DEFINE r == iovs[t][n + 1]
             p == FirstProbe(t, r.key)
             s == Probe[r.key][p]
  <2>1. /\ pc[t] = "batch_next" /\ n + 1 <= Len(iovs[t])
        /\ req' = [req EXCEPT ![t] = r] /\ itr' = [itr EXCEPT ![t] = p]
        /\ lba' = [lba EXCEPT ![t] = s]
        /\ \/ Done(t, "failed") /\ UNCHANGED placed
           \/ PlaceKey(t, r, s, 0) /\ UNCHANGED <<pc, ret>> /\ IsDuplicate(t, r.key, s)
           \/ Goto(t, "gen_range") /\ UNCHANGED <<placed, ret>>
    BY <1>6 DEF BatchNext
  <2>2. n + 1 \in 1 .. Len(iovs[t]) /\ iovs[t] \in Batches
    BY <1>1, <1>2, <1>4, <2>1, EntryOf, BatchIsSeq
  <2>3. r \in Requests /\ r.op = "put" /\ r.key \in Keys
    BY <2>2, BatchIsSeq
  <2>4. /\ p \in 1 .. MaxCollision
        /\ \A m \in 1 .. MaxCollision : m < p => Blocked(t, r.key, Probe[r.key][m])
    BY <2>3, FirstProbeOf DEF Blocked
  <2>5. s \in Slots
    BY <2>3, <2>4, ProbeIsSlot
  <2> HIDE DEF r, p
  <2>6. CASE Done(t, "failed") /\ UNCHANGED placed
    <3>1. pc'[t] = "finish" /\ ret'[t] = "failed"
      BY <2>6
    <3> QED
      BY <1>3, <3>1 DEF Running, Outcome, GenPcs
  <2>7. CASE PlaceKey(t, r, s, 0) /\ UNCHANGED <<pc, ret>> /\ IsDuplicate(t, r.key, s)
    <3>1. PICK i \in Places(t) : placed[t][i].lba = s /\ placed[t][i].rec.key = r.key
      BY <2>7 DEF IsDuplicate
    <3>2. /\ IF media[s] = NoRec THEN s \in safe ELSE media[s].key = r.key
          /\ \A j \in Places(t) : placed[t][j].lba = s => placed[t][j].rec.key = r.key
      BY <1>2, <3>1 DEF Given
    <3>3. 0 \in Sizes \cup {0}
      OBVIOUS
    <3>4. Given(t)'
      BY ONLY <1>5, <2>3, <2>4, <2>5, <2>7, <3>2, <3>3
    <3> QED
      BY <1>3, <2>1, <2>7, <3>4 DEF Running, Outcome, GenPcs
  <2>8. CASE Goto(t, "gen_range") /\ UNCHANGED <<placed, ret>>
    <3>1. pc'[t] = "gen_range" /\ req'[t] = r /\ itr'[t] = p /\ lba'[t] = s
      BY <2>1, <2>8
    <3>2. \A k, x : Blocked(t, k, x) => Blocked(t, k, x)'
      BY <1>1, <2>8 DEF Blocked, Places
    <3>3. Searching(t)'
      BY <2>4, <3>1, <3>2 DEF Searching, Slot
    <3>4. Given(t)'
      <4>1. placed' = placed
        BY <2>8
      <4> QED
        BY ONLY <1>1, <1>2, <3>2, <4>1 DEF Given, Places
    <3> QED
      BY <1>3, <3>1, <3>3, <3>4 DEF Running, Outcome, GenPcs
  <2> QED
    BY <2>1, <2>6, <2>7, <2>8
<1>7. CASE BatchPlace(t)
  <2>1. pc[t] = "put_write" /\ PlaceKey(t, req[t], lba[t], trim_len[t]) /\ pc'[t] = "batch_next"
    BY <1>7 DEF BatchPlace
  <2>2. /\ req[t] \in Requests /\ req[t].op = "put" /\ lba[t] \in Slots
        /\ trim_len[t] \in Sizes \cup {0} /\ itr[t] \in 1 .. MaxCollision
    BY <2>1 DEF Located, GenPcs, Sized
  <2>3. /\ lba[t] = Probe[req[t].key][itr[t]]
        /\ \A m \in 1 .. MaxCollision :
             m < itr[t] => Blocked(t, req[t].key, Probe[req[t].key][m])
        /\ IF media[lba[t]] = NoRec THEN lba[t] \in safe ELSE media[lba[t]].key = req[t].key
        /\ \A j \in Places(t) : placed[t][j].lba = lba[t] => placed[t][j].rec.key = req[t].key
    <3>1. Searching(t)
      BY <1>1, <2>1 DEF Running, GenPcs
    <3> QED
      BY <1>2, <2>1, <3>1 DEF Searching, Slot, Given
  <2>4. Given(t)'
    BY ONLY <1>5, <2>1, <2>2, <2>3
  <2> QED
    BY <1>3, <2>1, <2>4 DEF Running, Outcome, GenPcs
<1> QED
  BY <1>6, <1>7

\* A batch is written.
LEMMA WriteRuns ==
    ASSUME BInv, NEW t \in Threads, Running(t), ret[t] # NoResult => pc[t] = "finish",
           BatchWrite(t) \/ BatchRewrite(t) \/ BatchError(t)
    PROVE  Running(t)'
<1> USE DEF BInv, IInvAt, Typed, Goto, Done
<1>1. /\ pc[t] \in {"batch_next", "batch_rewrite"} /\ iovs[t] # <<>> /\ pc[t] # "finish"
      /\ UNCHANGED <<iovs, placed, before, safe>>
  BY DEF BatchWrite, BatchRewrite, BatchError, AllPlaced, Batching, BatchPcs
<1>2. Given(t) /\ Outcome(t)
  BY <1>1 DEF Running
<1>3. /\ \A k : Indices(t, k)' = Indices(t, k)
      /\ \A k \in Keys : Indices(t, k) = {} => Lookup(k) = before[t][k]
  BY <1>1, <1>2 DEF Outcome, Indices
<1>4. CASE BatchError(t)
  <2>1. pc'[t] = "finish" /\ ret'[t] = "failed" /\ media' = media
    BY <1>4 DEF BatchError
  <2>2. AtOnce(t)' => AtOnce(t)
    BY <1>1 DEF AtOnce
  <2>3. \A k \in Keys : AtOnce(t) => Lookup(k) = before[t][k]
    BY <1>1, <1>2 DEF Outcome
  <2>4. \A k \in Keys : Lookup(k)' = Lookup(k)
    BY <2>1, SameLookup
  <2>5. \A k \in Keys : AtOnce(t)' => Lookup(k)' = before'[t][k]
    BY <1>1, <2>2, <2>3, <2>4
  <2> QED
    BY <2>1, <2>5 DEF Running, Outcome, GenPcs
<1>5. CASE (BatchWrite(t) \/ BatchRewrite(t)) /\ pc'[t] = "finish"
  <2>1. ret'[t] = "ok" /\ media' = AllWritten(t) /\ Len(placed[t]) = Len(iovs[t])
    BY <1>2, <1>5 DEF BatchWrite, BatchRewrite, AllPlaced, Outcome
  <2>2. \A k \in Keys : Indices(t, k) = {} => Lookup(k)' = before[t][k]
    <3>1. ASSUME NEW k \in Keys, Indices(t, k) = {} PROVE Lookup(k)' = Lookup(k)
      BY <1>1, <1>2, <2>1, <3>1, OtherKeys
    <3> QED
      BY <1>3, <3>1
  <2>3. \A k \in Keys : Indices(t, k) # {} => Lookup(k)' = iovs[t][Max(Indices(t, k))].val
    BY <1>1, <1>2, <2>1, KeysWritten
  <2>4. \A k \in Keys : Lookup(k)' = IF Indices(t, k)' = {} THEN before'[t][k]
                                     ELSE iovs'[t][Max(Indices(t, k)')].val
    BY <1>1, <1>3, <2>2, <2>3
  <2> QED
    BY <1>5, <2>1, <2>4 DEF Running, Outcome, GenPcs
<1>6. CASE BatchWrite(t) /\ pc'[t] # "finish"
  <2>1. ~AtOnce(t) /\ pc'[t] = "batch_rewrite" /\ Len(placed[t]) = Len(iovs[t])
        /\ (media' = AllWritten(t) \/ media' = AllTrimmed(t))
    BY <1>1, <1>2, <1>6, SecondRun, BatchMedia DEF BatchWrite, AllPlaced
  <2>2. \A k \in Keys : Indices(t, k) = {} => Lookup(k)' = before[t][k]
    <3>1. ASSUME NEW k \in Keys, Indices(t, k) = {} PROVE Lookup(k)' = Lookup(k)
      BY <1>1, <1>2, <2>1, <3>1, OtherKeys
    <3> QED
      BY <1>3, <3>1
  <2>3. Given(t)'
    BY <1>1, <1>2, <2>1, StaysGiven
  <2>4. ~AtOnce(t)'
    BY <1>1, <2>1 DEF AtOnce
  <2>5. \A k \in Keys : Indices(t, k)' = {} => Lookup(k)' = before'[t][k]
    BY <1>1, <1>3, <2>2
  <2>6. Len(placed'[t]) = Len(iovs'[t])
    BY <1>1, <2>1
  <2> QED
    BY <2>1, <2>3, <2>4, <2>5, <2>6 DEF Running, Outcome, GenPcs
<1> QED
  BY <1>4, <1>5, <1>6 DEF BatchRewrite

\* A batch begins, or ends.
LEMMA EdgeRuns ==
    ASSUME BInv, NEW t \in Threads, Running(t),
           \/ \E b \in Batches : BatchCall(t, b)
           \/ BatchRelease(t) \/ BatchFinish(t)
    PROVE  Running(t)'
<1> USE DEF BInv, BTyped, IInvAt, Typed, Goto, local
<1>1. CASE \E b \in Batches : BatchCall(t, b)
  <2>1. /\ pc[t] = "idle" /\ pc'[t] = "batch_next" /\ media' = media /\ placed' = placed
        /\ before' = [before EXCEPT ![t] = Store]
    BY <1>1 DEF BatchCall
  <2>2. placed'[t] = <<>>
    BY <2>1 DEF Batching
  <2>3. Given(t)'
    BY <2>2 DEF Given, Places
  <2>4. \A k \in Keys : Lookup(k)' = Lookup(k)
    BY <2>1, SameLookup
  <2>5. \A k \in Keys : before'[t][k] = Lookup(k)
    BY <2>1 DEF Store
  <2> QED
    BY <2>1, <2>3, <2>4, <2>5 DEF Running, Outcome, GenPcs
<1>2. CASE BatchRelease(t)
  <2>1. /\ pc[t] = "finish" /\ iovs[t] # <<>>
        /\ media' = media /\ pc' = pc /\ ret' = ret /\ iovs' = iovs /\ before' = before
    BY <1>2 DEF BatchRelease, InBatch
  <2>2. \A k \in Keys : Lookup(k)' = Lookup(k)
    BY <2>1, SameLookup
  <2>3. /\ \A k : Indices(t, k)' = Indices(t, k)
        /\ AtOnce(t)' => AtOnce(t)
    BY <2>1 DEF Indices, AtOnce
  <2>4. Outcome(t)
    BY <2>1 DEF Running
  <2>5. Outcome(t)'
    BY <2>1, <2>2, <2>3, <2>4 DEF Outcome, GenPcs
  <2> QED
    BY <2>1, <2>5 DEF Running, GenPcs
<1>3. CASE BatchFinish(t)
  <2>1. iovs'[t] = <<>>
    BY <1>3 DEF BatchFinish
  <2> QED
    BY <2>1 DEF Running
<1> QED
  BY <1>1, <1>2, <1>3

LEMMA InitSolo == BInit => SoloInv
<1> SUFFICES ASSUME BInit PROVE SoloInv
  OBVIOUS
<1>1. BInv
  BY InitBInv
<1>2. Sized
  BY DEF BInit, HInit, Init, Opened, Sized
<1>3. \A t \in Threads : Waits(t) /\ ret[t] = NoResult /\ Running(t)
  BY DEF BInit, HInit, Init, Opened, Waits, Running
<1> QED
  BY <1>1, <1>2, <1>3 DEF SoloInv

LEMMA SoloInductive ==
    ASSUME \A t, u \in Threads : t = u, SoloInv, [BNext]_bvars
    PROVE  SoloInv'
<1>1. BInv'
  BY BInductive DEF SoloInv
<1>2. CASE (Tick \/ UNCHANGED vars) /\ UNCHANGED <<iovs, placed, before>>
  <2>1. UNCHANGED <<media, safe, pc, lba, itr, req, wait, trim_len, ret, iovs, placed, before>>
    BY <1>2 DEF Tick, vars, local
  <2>2. Sized'
    BY <2>1 DEF SoloInv, Sized
  <2>3. ASSUME NEW t \in Threads PROVE Running(t)'
    <3>1. Running(t)
      BY DEF SoloInv
    <3>2. \A k \in Keys : Lookup(k)' = Lookup(k)
      BY <2>1, SameLookup
    <3>3. \A k, s : Blocked(t, k, s)' <=> Blocked(t, k, s)
      BY <2>1 DEF Blocked, Places
    <3>4. Given(t) => Given(t)'
      BY ONLY <2>1, <3>3 DEF Given, Places
    <3>5. Searching(t) => Searching(t)'
      BY ONLY <2>1, <3>3 DEF Searching, Places, Slot
    <3>6. (AtOnce(t)' <=> AtOnce(t)) /\ \A k : Indices(t, k)' = Indices(t, k)
      BY <2>1 DEF AtOnce, Indices
    <3>7. Outcome(t) => Outcome(t)'
      BY ONLY <2>1, <3>2, <3>6 DEF Outcome
    <3> QED
      BY ONLY <2>1, <3>1, <3>4, <3>5, <3>7 DEF Running
  <2>4. \A t \in Threads : Waits(t)' /\ (ret'[t] # NoResult => pc'[t] = "finish")
    BY <2>1 DEF SoloInv, Waits
  <2> QED
    BY <1>1, <2>2, <2>3, <2>4 DEF SoloInv
<1>3. ASSUME NEW t \in Threads,
             \/ BatchStep(t) \/ SingleStep(t)
             \/ \E b \in Batches : BatchCall(t, b)
             \/ \E r \in Requests : Call(t, r) /\ UNCHANGED <<iovs, placed, before>>
      PROVE  SoloInv'
  <2>1. BInv /\ Sized /\ Waits(t) /\ (ret[t] # NoResult => pc[t] = "finish") /\ Running(t)
    BY DEF SoloInv
  <2>2. Sized'
    BY <1>3, <2>1, StepSized, BatchSized DEF SingleStep
  <2>3. Waits(t)'
    BY <1>3, <2>1, WaitsForEver
  <2>4. ret'[t] # NoResult => pc'[t] = "finish"
    BY <1>3, <2>1, ResultIsLast
  <2>5. Running(t)'
    <3>1. CASE BatchStep(t) \/ \E b \in Batches : BatchCall(t, b)
      BY <2>1, <3>1, PlaceRuns, WriteRuns, EdgeRuns DEF BatchStep
    <3>2. CASE SingleStep(t) /\ iovs[t] # <<>>
      BY <2>1, <3>2, SearchRuns
    <3>3. CASE SingleStep(t) /\ iovs[t] = <<>>
      BY <3>3 DEF SingleStep, Running
    <3>4. CASE \E r \in Requests : Call(t, r) /\ UNCHANGED <<iovs, placed, before>>
      <4>1. iovs'[t] = <<>>
        BY <2>1, <3>4 DEF Call, Begin, BInv, Batching
      <4> QED
        BY <4>1 DEF Running
    <3> QED
      BY <1>3, <3>1, <3>2, <3>3, <3>4
  <2>6. \A u \in Threads : u = t
    OBVIOUS
  <2> QED
    BY <1>1, <2>2, <2>3, <2>4, <2>5, <2>6 DEF SoloInv
<1> QED
  BY <1>2, <1>3, BatchKinds

\* A batch that answers success has given each of its keys the last value it has for it,
\* and has touched no other, if calls and batches follow each other.
THEOREM BatchIsStoredHolds ==
    ASSUME \A t, u \in Threads : t = u
    PROVE  BSpec => []BatchIsStored
<1>1. SoloInv => BatchIsStored
  <2> SUFFICES ASSUME SoloInv, NEW t \in Threads, Ended(t, {"ok"}), NEW k \in Keys
               PROVE  LET given == {i \in DOMAIN iovs[t] : iovs[t][i].key = k} IN
                      Lookup(k) = IF given = {} THEN before[t][k] ELSE iovs[t][Max(given)].val
    BY DEF BatchIsStored
  <2>1. iovs[t] # <<>> /\ ret[t] = "ok" /\ pc[t] = "finish"
    BY MarkersAssumption DEF Ended, InBatch, SoloInv
  <2>2. Outcome(t)
    BY <2>1 DEF SoloInv, Running
  <2>3. Lookup(k) = IF Indices(t, k) = {} THEN before[t][k] ELSE iovs[t][Max(Indices(t, k))].val
    BY <2>1, <2>2 DEF Outcome
  <2> QED
    BY <2>3 DEF Indices
<1>2. SoloInv /\ [BNext]_bvars => SoloInv'
  BY SoloInductive
<1> QED
  BY InitSolo, <1>1, <1>2, PTL DEF BSpec

\* A batch that answers anything else has changed nothing, if it needed no trims or
\* there were vectors for each key to be trimmed once and written twice.
THEOREM BatchAllOrNothingHolds ==
    ASSUME \A t, u \in Threads : t = u
    PROVE  BSpec => []BatchAllOrNothing
<1>1. SoloInv => BatchAllOrNothing
  <2> SUFFICES ASSUME SoloInv, NEW t \in Threads, Ended(t, {"failed", "exists"}), AtOnce(t),
                      NEW k \in Keys
               PROVE  Lookup(k) = before[t][k]
    BY DEF BatchAllOrNothing, AtOnce
  <2>1. iovs[t] # <<>> /\ ret[t] \in {"failed", "exists"} /\ pc[t] = "finish"
    BY MarkersAssumption DEF Ended, InBatch, SoloInv
  <2>2. Outcome(t)
    BY <2>1 DEF SoloInv, Running
  <2> QED
    BY <2>1, <2>2 DEF Outcome
<1>2. SoloInv /\ [BNext]_bvars => SoloInv'
  BY SoloInductive
<1> QED
  BY InitSolo, <1>1, <1>2, PTL DEF BSpec
=============================================================================
