-------------------------------- MODULE KVBatch --------------------------------
(***************************************************************************)
(* KVOps with kv_batch_put (src/kv_store_mgr.cpp) of a store without a     *)
(* cache.                                                                  *)
(*                                                                         *)
(* The keys of a batch are given their LBAs one after the other, each by   *)
(* kv_gen_lba as in a put; then everything is written, and the LBAs are    *)
(* deleted from the safe list.  The flag insert_lba (held) is one for the  *)
(* whole batch: kv_gen_lba takes it for a statement about its own key.     *)
(*                                                                         *)
(* A write takes one I/O vector, and so does a trim.                       *)
(***************************************************************************)
EXTENDS KVHistory

CONSTANTS
    MaxBatch  \* max_batch_size

VARIABLES
    iovs,    \* kv_iov: the puts of the batch that t executes, or none
    placed,  \* those with an LBA, in order: lba_list and the I/O vectors
    before   \* what Lookup gave when the batch was called

bvars == <<hvars, iovs, placed, before>>

-----------------------------------------------------------------------------
Puts == {r \in Requests : r.op = "put"}
Batches == UNION {[1..n -> Puts] : n \in 1..MaxBatch}

ASSUME BatchAssumption == MaxBatch \in Nat \ {0} /\ MaxCollision > 1

Placed == [lba : Slots, rec : Record, trim : Nat]
BatchPcs == {"batch_next", "batch_write", "batch_rewrite"}

\* Types of KVOps, and of the vectors of kv_batch_put.
BTypeOK ==
    /\ iovs \in [Threads -> Batches \cup {<<>>}]
    /\ \A t \in Threads :
        /\ placed[t] \in Seq(Placed) /\ Len(placed[t]) <= Len(iovs[t])
        /\ pc[t] \in Pcs \cup BatchPcs
        /\ itr[t] \in 1..MaxCollision
        /\ lba[t] \in Slots

BInit ==
    /\ HInit
    /\ iovs = [t \in Threads |-> <<>>]
    /\ placed = [t \in Threads |-> <<>>]
    /\ before = [t \in Threads |-> [k \in Keys |-> NoRec]]

-----------------------------------------------------------------------------
InBatch(t) == iovs[t] # <<>>

BatchCall(t, b) ==
    /\ pc[t] = "idle"
    /\ iovs' = [iovs EXCEPT ![t] = b]
    /\ before' = [before EXCEPT ![t] = Store]
    /\ req' = [req EXCEPT ![t] = b[1]]
    /\ lba' = [lba EXCEPT ![t] = Probe[b[1].key][1]]
    /\ Goto(t, "batch_next")
    /\ UNCHANGED <<media, clock, expq, safe, itr, held, wait, trim_len, iov_len, ret, placed>>

-----------------------------------------------------------------------------
(***************************************************************************)
(* The first part of kv_gen_lba: slots that earlier keys of the batch have *)
(* are passed over, unless it is the same key.                             *)
(***************************************************************************)
Places(t) == DOMAIN placed[t]

\* Mutant: whoever has the slot is taken for the same key.
Taken(t, k, s) == \E i \in Places(t) : placed[t][i].lba = s

IsDuplicate(t, k, s) == \E i \in Places(t) : placed[t][i].lba = s /\ placed[t][i].rec.key = k

\* The probe at which the search begins; the last one is not considered.
FirstProbe(t, k) ==
    LET free == {n \in 1..(MaxCollision - 1) :
                    LET s == Probe[k][n] IN
                    (\A i \in Places(t) : placed[t][i].lba # s) \/ IsDuplicate(t, k, s)}
    IN IF free = {} THEN MaxCollision ELSE Min(free)

\* The key is given the LBA s; kv_process_for_trim and kv_process_for_write
\* fill its vectors.
PlaceKey(t, r, s, trim) ==
    placed' = [placed EXCEPT ![t] = Append(@, [lba |-> s, rec |-> NewRecord(r), trim |-> trim])]

\* The next key of the batch.
BatchNext(t) ==
    LET i == Len(placed[t]) + 1
        r == iovs[t][i]
        n == FirstProbe(t, r.key)
        s == Probe[r.key][n]
    IN
    /\ pc[t] = "batch_next"
    /\ i <= Len(iovs[t])
    /\ req' = [req EXCEPT ![t] = r]
    /\ itr' = [itr EXCEPT ![t] = n]
    /\ lba' = [lba EXCEPT ![t] = s]
    /\ trim_len' = [trim_len EXCEPT ![t] = 0]
    /\ \/ /\ i > MaxIovs \/ n = MaxCollision
          /\ Done(t, "failed")
          /\ UNCHANGED placed
       \/ /\ i <= MaxIovs /\ n < MaxCollision
          /\ IsDuplicate(t, r.key, s)
          /\ PlaceKey(t, r, s, 0)
          /\ UNCHANGED <<pc, ret>>
       \/ /\ i <= MaxIovs /\ n < MaxCollision
          /\ ~IsDuplicate(t, r.key, s)
          /\ Goto(t, "gen_range")
          /\ UNCHANGED <<placed, ret>>
    /\ UNCHANGED <<media, clock, expq, safe, held, wait, iov_len, iovs, before>>

\* kv_gen_lba returns with an LBA.
BatchPlace(t) ==
    /\ pc[t] = "put_write"
    /\ InBatch(t)
    /\ PlaceKey(t, req[t], lba[t], trim_len[t])
    /\ Goto(t, "batch_next")
    /\ UNCHANGED <<media, clock, expq, safe, local, iovs, before>>

-----------------------------------------------------------------------------
(***************************************************************************)
(* All keys have their LBAs: trims and writes go to the device at once if  *)
(* there are vectors enough, and else one after the other.  Once they went *)
(* at once the writes may be sent again, as the count of trims, which is   *)
(* now that of all vectors, is compared a second time.                     *)
(***************************************************************************)
AllPlaced(t) == pc[t] = "batch_next" /\ Len(placed[t]) = Len(iovs[t])

Trims(t) == {i \in Places(t) : placed[t][i].trim > placed[t][i].rec.secs}

\* Mutant: the last vector is thought to be missing.
FitsBut(t, trims) == Len(placed[t]) + trims < MaxIovs

Fits(t, trims) == Len(placed[t]) + trims <= MaxIovs

\* Vectors are executed in order.
AllWritten(t) ==
    [s \in Slots |->
        LET here == {i \in Places(t) : placed[t][i].lba = s} IN
        IF here = {} THEN media[s] ELSE placed[t][Max(here)].rec]

AllTrimmed(t) ==
    [s \in Slots |->
        IF media[s] # NoRec /\ \E i \in Trims(t) : placed[t][i].lba = s
        THEN [media[s] EXCEPT !.val = Torn] ELSE media[s]]

BatchWrite(t) ==
    LET trims == Cardinality(Trims(t))
        all == Len(placed[t]) + trims
    IN
    /\ AllPlaced(t)
    /\ \/ /\ trims = 0
          /\ media' = AllWritten(t)
          /\ Done(t, "ok")
       \/ /\ trims > 0 /\ Fits(t, trims)
          /\ media' = AllWritten(t)
          /\ IF Fits(t, all) THEN Done(t, "ok") ELSE Goto(t, "batch_rewrite") /\ UNCHANGED ret
       \/ /\ trims > 0 /\ ~Fits(t, trims)
          /\ media' = AllTrimmed(t)
          /\ Goto(t, "batch_rewrite")
          /\ UNCHANGED ret
    /\ UNCHANGED <<clock, expq, safe, req, itr, lba, held, wait, trim_len, iov_len, iovs, placed, before>>

BatchRewrite(t) ==
    /\ pc[t] = "batch_rewrite"
    /\ media' = AllWritten(t)
    /\ Done(t, "ok")
    /\ UNCHANGED <<clock, expq, safe, req, itr, lba, held, wait, trim_len, iov_len, iovs, placed, before>>

BatchError(t) ==
    /\ "put_write" \in Failing
    /\ AllPlaced(t) \/ pc[t] = "batch_rewrite"
    /\ Done(t, "failed")
    /\ UNCHANGED <<media, clock, expq, safe, req, itr, lba, held, wait, trim_len, iov_len,
                   iovs, placed, before>>

(***************************************************************************)
(* The end: the LBAs of lba_list are deleted from the safe list one by     *)
(* one, whoever inserted them, provided that insert_lba is set.            *)
(***************************************************************************)
Release(t) == held[t] /\ placed[t] # <<>>

BatchRelease(t) ==
    LET s == Min({placed[t][i].lba : i \in Places(t)}) IN
    /\ pc[t] = "finish" /\ InBatch(t)
    /\ Release(t)
    /\ safe' = safe \ {s}
    /\ placed' = [placed EXCEPT ![t] = SelectSeq(@, LAMBDA p : p.lba # s)]
    /\ UNCHANGED <<media, clock, expq, pc, local, iovs, before>>

BatchFinish(t) ==
    /\ pc[t] = "finish" /\ InBatch(t)
    /\ ~Release(t)
    /\ held' = [held EXCEPT ![t] = FALSE]
    /\ trim_len' = [trim_len EXCEPT ![t] = 0]
    /\ req' = [req EXCEPT ![t] = NoRequest]
    /\ ret' = [ret EXCEPT ![t] = NoResult]
    /\ iovs' = [iovs EXCEPT ![t] = <<>>]
    /\ placed' = [placed EXCEPT ![t] = <<>>]
    /\ Goto(t, "idle")
    /\ UNCHANGED <<media, clock, expq, safe, itr, lba, wait, iov_len, before>>

-----------------------------------------------------------------------------
\* What a batch shares with a put, and the calls for one key.
SingleStep(t) ==
    /\ InBatch(t) => pc[t] \notin {"put_write", "finish"}
    /\ Step(t)
    /\ UNCHANGED <<iovs, placed, before>>

Counted ==
    /\ calls' = [t \in Threads |->
         IF req[t] = NoRequest /\ req'[t] # NoRequest THEN calls[t] + 1 ELSE calls[t]]
    /\ \A t \in Threads : calls'[t] <= MaxOps
    /\ UNCHANGED seen

BatchStep(t) ==
    \/ BatchNext(t) \/ BatchPlace(t)
    \/ BatchWrite(t) \/ BatchRewrite(t) \/ BatchError(t)
    \/ BatchRelease(t) \/ BatchFinish(t)

BStep(t) == (BatchStep(t) \/ SingleStep(t)) /\ UNCHANGED <<seen, calls>>

BNext ==
    \/ \E t \in Threads :
        \/ BStep(t)
        \/ \E b \in Batches : BatchCall(t, b) /\ Counted
        \/ \E r \in Requests : Call(t, r) /\ Counted /\ UNCHANGED <<iovs, placed, before>>
    \/ Tick /\ UNCHANGED <<seen, calls, iovs, placed, before>>

BSpec == BInit /\ [][BNext]_bvars

\* A thread that is inside a call is scheduled.
FairBSpec == BSpec /\ \A t \in Threads : WF_bvars(BStep(t))

-----------------------------------------------------------------------------
Ended(t, results) == InBatch(t) /\ Alone(t) /\ ret[t] \in results

\* "puts key/value pairs in one batch operation" (nvm_kv.h): when a batch that had
\* no company answers success, each of its keys has the value it was last given
\* in it, and no other key has changed.
BatchIsStored ==
    \A t \in Threads : Ended(t, {"ok"}) =>
        \A k \in Keys :
            LET given == {i \in DOMAIN iovs[t] : iovs[t][i].key = k} IN
            Lookup(k) = IF given = {} THEN before[t][k] ELSE iovs[t][Max(given)].val

\* When it answers anything else nothing has changed, provided that it needed no
\* trims or there were vectors for each key to be trimmed once and written twice.
BatchAllOrNothing ==
    \A t \in Threads :
        /\ Ended(t, {"failed", "exists"})
        /\ \/ 3 * Len(iovs[t]) <= MaxIovs
           \/ \A i \in DOMAIN iovs[t] : \A v \in Values : Sectors[v] <= Sectors[iovs[t][i].val]
        => \A k \in Keys : Lookup(k) = before[t][k]
=============================================================================
