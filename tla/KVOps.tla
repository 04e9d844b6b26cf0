-------------------------------- MODULE KVOps --------------------------------
(***************************************************************************)
(* kv_put, kv_get, kv_exists and kv_delete of NVM_KV_Store_Mgr             *)
(* (src/kv_store_mgr.cpp), executed by concurrent threads on one pool of a *)
(* store opened without a cache (cache_size = 0, get_cache() = NULL).      *)
(*                                                                         *)
(* The media is an open-addressing hash table: a key may live at any of    *)
(* MaxCollision slots, Probe[k][1] being its hash and Probe[k][i + 1] the  *)
(* i-th resolve_coll.  A slot is the run of sectors that one record can    *)
(* occupy, so "range exists from the slot on" is "the slot is mapped".     *)
(* Reading a slot that is not mapped gives zeros, which match no key.      *)
(*                                                                         *)
(* One step of a thread is one access to shared state: a range-exists, a   *)
(* read, an atomic write or trim of the device, one call of the safe LBA   *)
(* list (module LbaLocks) or one update of the expiry queue; the rest of   *)
(* the code works on the stack and on a private buffer.                    *)
(***************************************************************************)
EXTENDS Naturals, Sequences

CONSTANTS
    Threads,       \* threads that call the API
    Keys,          \* keys of the pool
    Values,        \* values written to them
    Slots,         \* LBAs at which a record can start
    MaxCollision,  \* M_MAX_COLLISION: slots probed for a key
    Probe,         \* Probe[k]: the slots of k in probing order
    Sectors,       \* Sectors[v]: sectors that value_len occupies, rounded up
    Inline,        \* values that fit in the header's sector with the key
    ValueLen,      \* sectors of the buffer that a caller of kv_get brings
    Ops,           \* operations the callers use
    Replace,       \* values of the replace flag they use
    Exact,         \* values of the read_exact flag they use
    Expiries,      \* expiry arguments they use, 0 meaning never
    ExpiryOn,      \* get_expiry() # KV_DISABLE_EXPIRY
    MaxClock,      \* bound on time(NULL)
    MaxIovs,       \* nvm_max_num_iovs: LBAs in a block of the expiry queue
    MaxQueue,      \* bound on the LBAs queued for expiry
    Failing,       \* steps whose device operation may fail
    Torn,          \* content of a value that is no longer what was written
    NoRec,         \* content of a slot that is not mapped
    NoRequest,     \* the thread is not executing a call
    NoResult       \* the call has no result yet

AllOps == {"put", "get", "exists", "delete"}

\* Steps that use the device.
DevicePcs == {"get_range", "read_media", "gen_range", "gen_read", "put_write",
              "del_read", "del_reread", "del_trim"}

ASSUME KVOpsAssumption ==
    /\ Slots # {}
    /\ MaxCollision \in Nat \ {0}
    /\ Probe \in [Keys -> [1..MaxCollision -> Slots]]
    /\ Sectors \in [Values -> Nat]
    /\ Inline \subseteq Values
    /\ ValueLen \in Nat \ {0} /\ \A v \in Values : Sectors[v] <= ValueLen
    /\ Ops \subseteq AllOps
    /\ Replace \subseteq BOOLEAN
    /\ Exact \subseteq BOOLEAN
    /\ Expiries \subseteq Nat
    /\ ExpiryOn \in BOOLEAN
    /\ MaxClock \in Nat
    /\ MaxIovs \in Nat \ {0}
    /\ MaxQueue \in Nat
    /\ Failing \subseteq DevicePcs
    /\ Torn \notin Values

VARIABLES
    media,     \* media[s]: the record at slot s, or NoRec
    clock,     \* time(NULL)
    expq,      \* LBAs handed to the asynchronous expiry, in order
    safe,      \* the safe LBA list
    pc,        \* where each thread is
    req,       \* the call it executes
    itr,       \* hash_itr: the probe it is at
    lba,       \* key_hash_val of kv_put, key_hash of kv_delete_sync
    held,      \* insert_lba: the thread believes it has lba in the safe list
    wait,      \* the insertion in progress met its LBA in the list
    trim_len,  \* sectors of the longer value about to be replaced, else 0
    iov_len,   \* sectors of a value that a kv_get will read; 0 if num_iovs is 1
    ret        \* result of the call

local == <<req, itr, lba, held, wait, trim_len, iov_len, ret>>
vars == <<media, clock, expq, safe, pc, req, itr, lba, held, wait, trim_len, iov_len, ret>>

-----------------------------------------------------------------------------
\* The header of a record and the content its value sectors hold.
Record == [key : Keys, val : Values \cup {Torn}, secs : Nat, expiry : Nat]

Requests ==
    [op : Ops \cap {"put"}, key : Keys, val : Values, replace : Replace,
     expiry : Expiries]
    \cup
    [op : Ops \cap {"get"}, key : Keys, exact : Exact]
    \cup
    [op : Ops \ {"put", "get"}, key : Keys]

ASSUME NoneAreNot == NoRec \notin Record /\ NoRequest \notin Requests

ReadPcs == {"get_range", "read_media", "expire"}
GenPcs == {"gen_range", "gen_insert", "gen_read", "gen_drop", "put_write"}
DeletePcs == {"del_read", "del_insert", "del_reread", "del_trim"}
Pcs == {"idle", "finish"} \cup ReadPcs \cup GenPcs \cup DeletePcs

Results == Values \cup {Torn, NoResult, "ok", "exists", "notfound", "failed"}

TypeOK ==
    /\ media \in [Slots -> Record \cup {NoRec}]
    /\ clock \in Nat
    /\ expq \in Seq(Slots)
    /\ safe \in SUBSET Slots
    /\ pc \in [Threads -> Pcs]
    /\ req \in [Threads -> Requests \cup {NoRequest}]
    /\ itr \in [Threads -> 1..MaxCollision]
    /\ lba \in [Threads -> Slots]
    /\ held \in [Threads -> BOOLEAN]
    /\ wait \in [Threads -> BOOLEAN]
    /\ trim_len \in [Threads -> Nat]
    /\ iov_len \in [Threads -> Nat]
    /\ ret \in [Threads -> Results]

\* A store that has just been opened: nothing is queued, locked or called.
Opened ==
    /\ clock = 1
    /\ expq = <<>>
    /\ safe = {}
    /\ pc = [t \in Threads |-> "idle"]
    /\ req = [t \in Threads |-> NoRequest]
    /\ itr = [t \in Threads |-> 1]
    /\ lba = [t \in Threads |-> CHOOSE s \in Slots : TRUE]
    /\ held = [t \in Threads |-> FALSE]
    /\ wait = [t \in Threads |-> FALSE]
    /\ trim_len = [t \in Threads |-> 0]
    /\ iov_len = [t \in Threads |-> ValueLen]
    /\ ret = [t \in Threads |-> NoResult]

\* A new store.
Init == media = [s \in Slots |-> NoRec] /\ Opened

-----------------------------------------------------------------------------
Goto(t, to) == pc' = [pc EXCEPT ![t] = to]

\* The caller's result is decided; what is left is the clean-up.
Done(t, x) == Goto(t, "finish") /\ ret' = [ret EXCEPT ![t] = x]

\* The slot a thread is probing for its key, and what a read of it compares.
Slot(t) == Probe[req[t].key][itr[t]]
Matches(s, k) == media[s] # NoRec /\ media[s].key = k

\* A kv_get with read_exact asks before each read how much is mapped there.
Measured(r) == r.op = "get" /\ r.exact

\* kv_expire
Expired(r) == ExpiryOn /\ r.expiry # 0 /\ clock > r.expiry

\* kv_process_for_write: the expiry of a record is absolute.
NewRecord(r) ==
    [key |-> r.key, val |-> r.val, secs |-> Sectors[r.val],
     expiry |-> IF r.expiry = 0 THEN 0 ELSE r.expiry + clock]

(***************************************************************************)
(* The batch that kv_put submits.  A longer old value is trimmed beyond    *)
(* the new one: the trim vector comes first, but the count given to        *)
(* nvm_writev is that of the write vectors, so the last of these is left   *)
(* out.  It is the only one for a value inline with its header, and the    *)
(* (end of the) value otherwise.                                           *)
(***************************************************************************)
Written(old, r, trim) ==
    IF trim <= Sectors[r.val] THEN NewRecord(r)
    ELSE IF r.val \notin Inline THEN [NewRecord(r) EXCEPT !.val = Torn]
    ELSE IF old = NoRec THEN NoRec
    ELSE [old EXCEPT !.val = Torn]

(***************************************************************************)
(* Starting a call.                                                        *)
(***************************************************************************)
Begin(t, r, first) ==
    /\ pc[t] = "idle"
    /\ req' = [req EXCEPT ![t] = r]
    /\ itr' = [itr EXCEPT ![t] = 1]
    /\ lba' = [lba EXCEPT ![t] = first]
    /\ Goto(t, IF r.op = "put" THEN "gen_range"
               ELSE IF r.op = "delete" THEN "del_read"
               ELSE IF Measured(r) THEN "get_range" ELSE "read_media")
    /\ UNCHANGED <<media, clock, expq, safe, held, wait, trim_len, iov_len, ret>>

\* Mutant: the LBA of the previous call is not replaced by the key's hash.
CallStale(t, r) == Begin(t, r, lba[t])

Call(t, r) == Begin(t, r, Probe[r.key][1])

(***************************************************************************)
(* insert_lba_to_safe_list, wherever it is called from.                    *)
(***************************************************************************)
Contend(t) ==
    /\ pc[t] \in {"gen_insert", "del_insert"}
    /\ lba[t] \in safe
    /\ ~wait[t]
    /\ wait' = [wait EXCEPT ![t] = TRUE]
    /\ UNCHANGED <<media, clock, expq, safe, pc, req, itr, lba, held, trim_len, iov_len, ret>>

Insert(t, from, unwaited, waited) ==
    /\ pc[t] = from
    /\ lba[t] \notin safe
    /\ safe' = safe \cup {lba[t]}
    /\ held' = [held EXCEPT ![t] = TRUE]
    /\ wait' = [wait EXCEPT ![t] = FALSE]
    /\ Goto(t, IF wait[t] THEN waited ELSE unwaited)
    /\ UNCHANGED <<media, clock, expq, req, itr, lba, trim_len, iov_len, ret>>

(***************************************************************************)
(* kv_put and kv_gen_lba                                                   *)
(***************************************************************************)
\* Is the slot mapped?  A free slot is locked without being read.
GenRange(t) ==
    /\ pc[t] = "gen_range"
    /\ Goto(t, IF media[lba[t]] = NoRec THEN "gen_insert" ELSE "gen_read")
    /\ UNCHANGED <<media, clock, expq, safe, local>>

\* Mutant: whoever had to wait probes on instead of reading.
GenInsertProbeOn(t) == Insert(t, "gen_insert", "put_write", "gen_drop")

\* Whoever did not have to wait goes on to write; whoever did reads (again).
GenInsert(t) == Insert(t, "gen_insert", "put_write", "gen_read")

\* Mutant: a record is replaced without taking its LBA.
WriteAtOnce(t) == "put_write"

\* A record is replaced under its LBA.
LockFirst(t) == IF held[t] THEN "put_write" ELSE "gen_insert"

\* The slot holds the key: an expired record may be overwritten, and so may
\* any record if replace is set.  The excess of the old value counts only if
\* the slot need not be read again.
GenReadMatch(t) ==
    /\ pc[t] = "gen_read"
    /\ Matches(lba[t], req[t].key)
    /\ LET old == media[lba[t]] IN
        \/ /\ Expired(old) \/ req[t].replace
           /\ trim_len' = [trim_len EXCEPT ![t] =
                IF ~Expired(old) /\ old.secs > Sectors[req[t].val]
                THEN old.secs ELSE 0]
           /\ Goto(t, LockFirst(t))
           /\ UNCHANGED ret
        \/ /\ ~Expired(old) /\ ~req[t].replace
           /\ Done(t, "exists")
           /\ UNCHANGED trim_len
    /\ UNCHANGED <<media, clock, expq, safe, req, itr, lba, held, wait, iov_len>>

\* On to the next slot of the key, or out of slots.
NextProbe(t) ==
    \/ /\ itr[t] < MaxCollision
       /\ itr' = [itr EXCEPT ![t] = @ + 1]
       /\ lba' = [lba EXCEPT ![t] = Probe[req[t].key][itr[t] + 1]]
       /\ Goto(t, "gen_range")
       /\ UNCHANGED ret
    \/ /\ itr[t] = MaxCollision
       /\ Done(t, "failed")
       /\ UNCHANGED <<itr, lba>>

GenReadMismatch(t) ==
    /\ pc[t] = "gen_read"
    /\ ~Matches(lba[t], req[t].key)
    /\ \/ held[t] /\ Goto(t, "gen_drop") /\ UNCHANGED <<itr, lba, ret>>
       \/ ~held[t] /\ NextProbe(t)
    /\ trim_len' = [trim_len EXCEPT ![t] = 0]
    /\ UNCHANGED <<media, clock, expq, safe, req, held, wait, iov_len>>

\* The locked slot turned out to hold something else.
GenDrop(t) ==
    /\ pc[t] = "gen_drop"
    /\ safe' = safe \ {lba[t]}
    /\ held' = [held EXCEPT ![t] = FALSE]
    /\ NextProbe(t)
    /\ UNCHANGED <<media, clock, expq, req, wait, trim_len, iov_len>>

PutWrite(t) ==
    /\ pc[t] = "put_write"
    /\ media' = [media EXCEPT ![lba[t]] = Written(@, req[t], trim_len[t])]
    /\ Done(t, "ok")
    /\ UNCHANGED <<clock, expq, safe, req, itr, lba, held, wait, trim_len, iov_len>>

(***************************************************************************)
(* kv_get and kv_exists: probe until the key is found.                     *)
(***************************************************************************)
\* One more probe, or the key was not found.
Rehash(t, notFound) ==
    \/ /\ itr[t] < MaxCollision
       /\ itr' = [itr EXCEPT ![t] = @ + 1]
       /\ pc' = IF Measured(req[t]) THEN [pc EXCEPT ![t] = "get_range"] ELSE pc
       /\ UNCHANGED ret
    \/ /\ itr[t] = MaxCollision
       /\ Done(t, notFound)
       /\ UNCHANGED itr

\* Sectors that a value occupies after that of its header.
Extent(v) == IF v \in Inline THEN 0 ELSE Sectors[v]

\* What a range-exists finds mapped after the header of r: the value, and what
\* may be left of a longer one that it replaced.
Extents(r) ==
    {Extent(v) : v \in {w \in Values : r.val \in Values => Extent(r.val) <= Extent(w)}}

\* What is read of a value, n sectors being mapped.  Neither num_iovs nor iov_len
\* is set back for the next probe.
Shortened(len, n) == IF len = 0 THEN 0 ELSE IF n < ValueLen THEN n ELSE len

GetRange(t) ==
    /\ pc[t] = "get_range"
    /\ \/ /\ media[Slot(t)] = NoRec
          /\ Rehash(t, "notfound")
          /\ UNCHANGED iov_len
       \/ /\ media[Slot(t)] # NoRec
          /\ \E n \in Extents(media[Slot(t)]) :
               iov_len' = [iov_len EXCEPT ![t] = Shortened(@, n)]
          /\ Goto(t, "read_media")
          /\ UNCHANGED <<itr, ret>>
    /\ UNCHANGED <<media, clock, expq, safe, req, lba, held, wait, trim_len>>

\* What the caller gets of the value of r.
Content(t, r) ==
    IF Measured(req[t]) /\ r.val \notin Inline /\ iov_len[t] < r.secs THEN Torn ELSE r.val

ReadMatch(t) ==
    /\ pc[t] = "read_media"
    /\ Matches(Slot(t), req[t].key)
    /\ LET r == media[Slot(t)] IN
        IF Expired(r)
        THEN /\ lba' = [lba EXCEPT ![t] = Slot(t)]
             /\ Goto(t, "expire")
             /\ UNCHANGED ret
        ELSE /\ Done(t, IF req[t].op = "get" THEN Content(t, r) ELSE "exists")
             /\ UNCHANGED lba
    /\ UNCHANGED <<media, clock, expq, safe, req, itr, held, wait, trim_len, iov_len>>

\* Mutant: the key is declared missing at the first slot that does not hold it.
ProbeOnce(t, from, notFound) ==
    /\ pc[t] = from
    /\ ~Matches(Slot(t), req[t].key)
    /\ Done(t, notFound)
    /\ UNCHANGED <<media, clock, expq, safe, req, itr, lba, held, wait, trim_len, iov_len>>

ProbeOn(t, from, notFound) ==
    /\ pc[t] = from
    /\ ~Matches(Slot(t), req[t].key)
    /\ Rehash(t, notFound)
    /\ UNCHANGED <<media, clock, expq, safe, req, lba, held, wait, trim_len, iov_len>>

ReadMismatch(t) == ProbeOn(t, "read_media", "notfound")

\* kv_exists keeps what nvm_readv returns in an unsigned read_bytes and does not
\* see that the read failed: it compares what its buffer still holds from an
\* earlier use, the header of its key or any other.
BlindRead(t) ==
    /\ pc[t] = "read_media" /\ pc[t] \in Failing
    /\ req[t].op = "exists"
    /\ media[Slot(t)] # NoRec
    /\ \/ /\ \/ /\ Done(t, "exists")
                /\ UNCHANGED lba
             \/ /\ ExpiryOn
                /\ lba' = [lba EXCEPT ![t] = Slot(t)]
                /\ Goto(t, "expire")
                /\ UNCHANGED ret
          /\ UNCHANGED itr
       \/ /\ Rehash(t, "notfound")
          /\ UNCHANGED lba
    /\ UNCHANGED <<media, clock, expq, safe, req, held, wait, trim_len, iov_len>>

\* The LBAs of the block that is still being filled.
BackBlock ==
    {expq[i] : i \in {j \in DOMAIN expq : j > (Len(expq) \div MaxIovs) * MaxIovs}}

\* update_expiry_queue, long after the read that found the record expired
Expire(t) ==
    /\ pc[t] = "expire"
    /\ \/ /\ lba[t] \in BackBlock
          /\ UNCHANGED expq
       \/ /\ lba[t] \notin BackBlock
          /\ Len(expq) < MaxQueue
          /\ expq' = Append(expq, lba[t])
    /\ Done(t, "notfound")
    /\ UNCHANGED <<media, clock, safe, req, itr, lba, held, wait, trim_len, iov_len>>

(***************************************************************************)
(* kv_delete_sync                                                          *)
(***************************************************************************)
\* kv_read_media found the key: key_hash is where.
DelFound(t, from, to) ==
    /\ pc[t] = from
    /\ Matches(Slot(t), req[t].key)
    /\ lba' = [lba EXCEPT ![t] = Slot(t)]
    /\ itr' = [itr EXCEPT ![t] = 1]
    /\ Goto(t, to)
    /\ UNCHANGED <<media, clock, expq, safe, req, held, wait, trim_len, iov_len, ret>>

DelRead(t) == DelFound(t, "del_read", "del_insert") \/ ProbeOn(t, "del_read", "ok")

DelInsert(t) == Insert(t, "del_insert", "del_trim", "del_reread")

\* After a wait the media is read again, and key_hash is taken from there.
DelReread(t) == DelFound(t, "del_reread", "del_trim") \/ ProbeOn(t, "del_reread", "ok")

\* Mutant: the range that follows is trimmed.
TrimNext(s) == media' = [media EXCEPT ![s + 1] = NoRec]

\* delete_range over the sectors a record can have
Trim(s) == media' = [media EXCEPT ![s] = NoRec]

DelTrim(t) ==
    /\ pc[t] = "del_trim"
    /\ Trim(lba[t])
    /\ Done(t, "ok")
    /\ UNCHANGED <<clock, expq, safe, req, itr, lba, held, wait, trim_len, iov_len>>

(***************************************************************************)
(* A device operation fails: the call is given up.                         *)
(***************************************************************************)
DeviceError(t) ==
    /\ pc[t] \in Failing
    /\ Done(t, "failed")
    /\ UNCHANGED <<media, clock, expq, safe, req, itr, lba, held, wait, trim_len, iov_len>>

(***************************************************************************)
(* Every call ends by deleting lba from the safe list, if it inserted one. *)
(***************************************************************************)
\* Mutant: the LBA stays in the list.
KeepLba(t) == safe' = safe

ReleaseLba(t) == safe' = IF held[t] THEN safe \ {lba[t]} ELSE safe

Finish(t) ==
    /\ pc[t] = "finish"
    /\ ReleaseLba(t)
    /\ held' = [held EXCEPT ![t] = FALSE]
    /\ trim_len' = [trim_len EXCEPT ![t] = 0]
    /\ iov_len' = [iov_len EXCEPT ![t] = ValueLen]
    /\ req' = [req EXCEPT ![t] = NoRequest]
    /\ ret' = [ret EXCEPT ![t] = NoResult]
    /\ Goto(t, "idle")
    /\ UNCHANGED <<media, clock, expq, itr, lba, wait>>

Tick ==
    /\ clock < MaxClock
    /\ clock' = clock + 1
    /\ UNCHANGED <<media, expq, safe, pc, local>>

-----------------------------------------------------------------------------
Step(t) ==
    \/ Contend(t)
    \/ GenRange(t) \/ GenInsert(t) \/ GenReadMatch(t) \/ GenReadMismatch(t)
    \/ GenDrop(t) \/ PutWrite(t)
    \/ GetRange(t) \/ ReadMatch(t) \/ ReadMismatch(t) \/ BlindRead(t) \/ Expire(t)
    \/ DelRead(t) \/ DelInsert(t) \/ DelReread(t) \/ DelTrim(t)
    \/ DeviceError(t)
    \/ Finish(t)

Next ==
    \/ \E t \in Threads : Step(t) \/ \E r \in Requests : Call(t, r)
    \/ Tick

Spec == Init /\ [][Next]_vars

-----------------------------------------------------------------------------
\* The slots at which a call for k looks.
ProbeSlots(k) == {Probe[k][i] : i \in 1..MaxCollision}

\* resolve_coll is a function of the key: a record is only ever stored where a
\* later call for its key looks, and a call only locks such a slot.
Placement ==
    /\ \A s \in Slots : media[s] # NoRec => s \in ProbeSlots(media[s].key)
    /\ \A t \in Threads : req[t] # NoRequest => lba[t] \in ProbeSlots(req[t].key)

\* A key is stored once: a put replaces the record of its key, or takes the first
\* free slot of the key when all slots before that one have other keys.
UniqueKey ==
    \A r, s \in Slots :
        r # s /\ media[r] # NoRec /\ media[s] # NoRec => media[r].key # media[s].key

\* Without deletes the safe list is what the calls believe it is: it holds
\* the LBA of every call that inserted one, once, and nothing else.
SafeListExact ==
    /\ safe = {lba[t] : t \in {u \in Threads : held[u]}}
    /\ \A t, u \in Threads : held[t] /\ held[u] /\ lba[t] = lba[u] => t = u

\* Only the holder of an LBA changes what is stored there.
WriteLocked ==
    [][\A s \in Slots :
         media'[s] # media[s] => \E t \in Threads : held[t] /\ lba[t] = s /\ s \in safe]_vars
=============================================================================
