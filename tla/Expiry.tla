-------------------------------- MODULE Expiry --------------------------------
(***************************************************************************)
(* KVOps with the threads that trim expired records behind the calls:      *)
(* those of NVM_KV_Async_Expiry (src/kv_async_expiry.cpp), which take full *)
(* blocks off the queue that the calls fill, and the one of                *)
(* NVM_KV_Expiry_Manager (src/kv_expiry_manager.cpp), which passes over    *)
(* the device, reads headers and collects LBAs.  All of them end up in     *)
(* batch_delete_sync: insert the LBAs of a batch into the safe list one    *)
(* after the other, trim them together, delete them from the list.         *)
(*                                                                         *)
(* The manager's pass yields to the pool deletion thread, which announces  *)
(* itself and then waits for the mutex that the two share (glb_mtx).       *)
(*                                                                         *)
(* With a global expiry the device gives the manager only                  *)
(* ranges that are old enough, and no header is read; expiry of a record   *)
(* is then its time of writing plus the global expiry.                     *)
(***************************************************************************)
EXTENDS KVOps, FiniteSets, Functions

CONSTANTS AsyncThreads,  \* threads of the asynchronous expiry
          Manager,       \* the thread of the expiry manager
          MaxRanges,     \* nvm_max_num_logical_iter_ranges
          Found,         \* records that the store may hold when it is opened
          ScanErrors,    \* whether device operations of the threads may fail
          ExpiryModes    \* "arbitrary" and "global": expiry_mode of the store

Workers == AsyncThreads \cup {Manager}

ASSUME ExpiryAssumption ==
    /\ Manager \notin AsyncThreads
    /\ Threads \cap Workers = {}
    /\ Slots \subseteq Nat /\ IsFiniteSet(Slots)
    /\ MaxRanges \in Nat \ {0}
    /\ Found \subseteq Record
    /\ ScanErrors \in BOOLEAN
    /\ ExpiryModes \subseteq {"arbitrary", "global"}

VARIABLES
    wpc,     \* where each of the threads is
    batch,   \* the LBAs it is to trim (of the manager: has collected so far)
    ix,      \* the entry of the batch that is next to be inserted or deleted
    iter,    \* the manager's iterator
    code,    \* ret_code of start_expiry: "ok" (also between passes),
             \* "expired" (1) or "failed"
    over,    \* the pass ends with the batch at hand
    glb,     \* who has glb_mtx
    dpc,     \* where the pool deletion thread is
    pool_del_status,
    expiry_mode,
    rewritten \* observer: LBAs written since somebody meant to trim them

manager == <<iter, code, over>>
deleter == <<dpc, pool_del_status>>
calling == <<clock, expq, pc, local>>
evars == <<vars, wpc, batch, ix, manager, glb, deleter, expiry_mode, rewritten>>

WorkerPcs == {"wait", "insert", "trim", "release", "ready", "scan", "check"}

\* Types of the threads' variables: no batch outgrows its array of vectors, and
\* the position of a thread in it is inside.
ETypeOK ==
    /\ TypeOK
    /\ wpc \in [Workers -> WorkerPcs]
    /\ \A w \in Workers :
         /\ batch[w] \in Seq(Slots) /\ Len(batch[w]) <= MaxIovs
         /\ ix[w] \in 1 .. MaxIovs
    /\ iter \in [start : Nat, pos : Nat, ranges : Seq(Slots)]
    /\ code \in {"ok", "expired", "failed"}
    /\ over \in BOOLEAN
    /\ glb \in {"free", "expiry", "pool_del"}
    /\ dpc \in {"wait", "lock", "work"}
    /\ pool_del_status \in BOOLEAN
    /\ expiry_mode \in ExpiryModes
    /\ rewritten \subseteq Slots

\* Every record is at the slot its key has; the store was closed orderly.
EInit ==
    /\ media \in [Slots -> Found \cup {NoRec}]
    /\ Opened
    /\ Placement
    /\ wpc = [w \in Workers |-> "wait"]
    /\ batch = [w \in Workers |-> <<>>]
    /\ ix = [w \in Workers |-> 1]
    /\ iter = [start |-> 0, pos |-> 1, ranges |-> <<>>]
    /\ code = "ok"
    /\ over = FALSE
    /\ glb = "free"
    /\ dpc = "wait"
    /\ pool_del_status = FALSE
    /\ expiry_mode \in ExpiryModes
    /\ rewritten = {}

\* get_iter_type() is KV_GLB_EXP_ITER: no header is read.
Global == expiry_mode = "global"

WGoto(w, to) == wpc' = [wpc EXCEPT ![w] = to]

(***************************************************************************)
(* batch_delete_sync                                                       *)
(***************************************************************************)
\* Mutant: the thread goes on without its LBA.
TakeNothing(w) == UNCHANGED safe

\* insert_lba_to_safe_list, which waits as long as the LBA is in the list.
TakeLba(w) ==
    /\ batch[w][ix[w]] \notin safe
    /\ safe' = safe \cup {batch[w][ix[w]]}

InsertLba(w) ==
    /\ wpc[w] = "insert"
    /\ TakeLba(w)
    /\ ix' = [ix EXCEPT ![w] = IF @ = Len(batch[w]) THEN 1 ELSE @ + 1]
    /\ IF ix[w] = Len(batch[w]) THEN WGoto(w, "trim") ELSE UNCHANGED wpc
    /\ UNCHANGED <<media, calling, batch, manager, glb, deleter>>

\* One operation trims them all, whatever they hold by now.  An error is
\* returned, after the LBAs are deleted from the list.
TrimBatch(w) ==
    /\ wpc[w] = "trim"
    /\ \/ /\ media' = [s \in Slots |-> IF s \in Range(batch[w]) THEN NoRec ELSE media[s]]
          /\ code' = IF w = Manager THEN "ok" ELSE code
       \/ /\ ScanErrors
          /\ code' = IF w = Manager THEN "failed" ELSE code
          /\ UNCHANGED media
    /\ WGoto(w, "release")
    /\ UNCHANGED <<calling, safe, batch, ix, iter, over, glb, deleter>>

\* delete_lba_from_safe_list
DropLba(w) == safe' = safe \ {batch[w][ix[w]]}

DeleteLba(w) ==
    /\ wpc[w] = "release"
    /\ DropLba(w)
    /\ ix[w] < Len(batch[w])
    /\ ix' = [ix EXCEPT ![w] = @ + 1]
    /\ UNCHANGED <<media, calling, wpc, batch, manager, glb, deleter>>

\* The last LBA is deleted and the thread is done with the batch.
DeleteLast(w, to) ==
    /\ wpc[w] = "release"
    /\ ix[w] = Len(batch[w])
    /\ DropLba(w)
    /\ ix' = [ix EXCEPT ![w] = 1]
    /\ batch' = [batch EXCEPT ![w] = <<>>]
    /\ WGoto(w, to)
    /\ UNCHANGED <<media, calling, glb, deleter>>

(***************************************************************************)
(* NVM_KV_Async_Expiry::start_thread: the block at the front of the queue  *)
(* is taken when it is full.                                               *)
(***************************************************************************)
PopBlock(w) ==
    /\ w \in AsyncThreads
    /\ wpc[w] = "wait"
    /\ Len(expq) >= MaxIovs
    /\ batch' = [batch EXCEPT ![w] = SubSeq(expq, 1, MaxIovs)]
    /\ expq' = SubSeq(expq, MaxIovs + 1, Len(expq))
    /\ WGoto(w, "insert")
    /\ UNCHANGED <<media, clock, safe, pc, local, ix, manager, glb, deleter>>

BlockDone(w) ==
    /\ w \in AsyncThreads
    /\ DeleteLast(w, "wait")
    /\ UNCHANGED manager

(***************************************************************************)
(* NVM_KV_Expiry_Manager                                                   *)
(***************************************************************************)
\* The timed wait ends, or the deletion thread wakes the manager.
Wake ==
    /\ wpc[Manager] = "wait"
    /\ glb = "free"
    /\ glb' = "expiry"
    /\ WGoto(Manager, "ready")
    /\ UNCHANGED <<media, calling, safe, batch, ix, manager, deleter>>

\* check_pool_del_status, before a pass and at each of its rounds
MayScan == ~pool_del_status

\* expire_keys depends on the use of the device: a pass may start, or not.
StartPass ==
    /\ wpc[Manager] = "ready"
    /\ MayScan
    /\ WGoto(Manager, "scan")
    /\ UNCHANGED <<media, calling, safe, batch, ix, manager, glb, deleter>>

WaitForTrigger ==
    /\ wpc[Manager] = "ready"
    /\ WGoto(Manager, "wait")
    /\ glb' = "free"
    /\ UNCHANGED <<media, calling, safe, batch, ix, manager, deleter>>

\* reset_iterator: the next ranges come from the start of the device, but
\* those that the iterator holds, and its position in them, remain.
Reset(i) == [i EXCEPT !.start = 0]

\* The loop of start_expiry is left: what is in the batch is trimmed if the
\* last ret_code was not an error (or 1, for an expired key).
EndPass(outcome, i) ==
    IF batch[Manager] # <<>> /\ outcome = "ok"
    THEN /\ WGoto(Manager, "insert")
         /\ over' = TRUE
         /\ iter' = i
         /\ UNCHANGED batch
    ELSE /\ WGoto(Manager, "ready")
         /\ batch' = [batch EXCEPT ![Manager] = <<>>]
         /\ iter' = Reset(i)
         /\ UNCHANGED over

\* A deletion is due.
YieldPass ==
    /\ wpc[Manager] = "scan"
    /\ ~MayScan
    /\ EndPass(code, iter)
    /\ code' = "ok"
    /\ UNCHANGED <<media, calling, safe, ix, glb, deleter>>

\* Mutant: one vector more than m_iovec has.
Overfull(b) == Len(b) > MaxIovs

Full(b) == Len(b) = MaxIovs

\* The LBA at which the iterator stands goes into the batch.
Collect(i) ==
    /\ batch' = [batch EXCEPT ![Manager] = Append(@, i.ranges[i.pos])]
    /\ WGoto(Manager, IF Full(batch'[Manager]) THEN "insert" ELSE "scan")

\* iterate: on in the ranges fetched last, or to the next ones on the device.
Ahead ==
    {s \in Slots : s >= iter.start /\ media[s] # NoRec
                   /\ (Global => Expired(media[s]))}

Rank(s, S) == Cardinality({r \in S : r < s})

NextRanges ==
    LET found == {s \in Ahead : Rank(s, Ahead) < MaxRanges} IN
    [start |-> 1 + CHOOSE s \in found : \A r \in found : r <= s,
     pos |-> 1,
     ranges |-> [j \in 1 .. Cardinality(found) |->
                    CHOOSE s \in found : Rank(s, found) = j - 1]]

InRanges == iter.pos < Len(iter.ranges)

Moved == IF InRanges THEN [iter EXCEPT !.pos = @ + 1] ELSE NextRanges

Scan ==
    /\ wpc[Manager] = "scan"
    /\ MayScan
    /\ InRanges \/ Ahead # {}
    /\ iter' = Moved
    /\ IF Global THEN Collect(Moved)
       ELSE WGoto(Manager, "check") /\ UNCHANGED batch
    /\ code' = "ok"
    /\ UNCHANGED <<media, calling, safe, ix, over, glb, deleter>>

\* OBJECT_NOT_FOUND is taken for success.
EndOfDevice ==
    /\ wpc[Manager] = "scan"
    /\ MayScan
    /\ ~InRanges
    /\ Ahead = {}
    /\ code' = "ok"
    /\ EndPass("ok", [iter EXCEPT !.pos = 1])
    /\ UNCHANGED <<media, calling, safe, ix, glb, deleter>>

ScanError ==
    /\ ScanErrors
    /\ wpc[Manager] \in {"scan", "check"}
    /\ wpc[Manager] = "scan" => MayScan /\ ~InRanges
    /\ code' = "ok"
    /\ EndPass("failed", IF wpc[Manager] = "scan" THEN [iter EXCEPT !.pos = 1] ELSE iter)
    /\ UNCHANGED <<media, calling, safe, ix, glb, deleter>>

\* Mutant: a record is taken for expired in the last second it lives.
expired_at_last(s) == media[s] # NoRec /\ media[s].expiry # 0 /\ clock >= media[s].expiry

\* is_valid_for_del: an LBA that is not mapped reads as zeros, no key.
is_valid_for_del(s) == media[s] # NoRec /\ Expired(media[s])

Check ==
    /\ wpc[Manager] = "check"
    /\ IF is_valid_for_del(iter.ranges[iter.pos])
       THEN Collect(iter) /\ code' = "expired"
       ELSE WGoto(Manager, "scan") /\ code' = "ok" /\ UNCHANGED batch
    /\ UNCHANGED <<media, calling, safe, ix, iter, over, glb, deleter>>

\* The pass goes on after a batch, unless it was the last one or failed.
BatchDone ==
    LET stop == over \/ code = "failed" IN
    /\ DeleteLast(Manager, IF stop THEN "ready" ELSE "scan")
    /\ over' = FALSE
    /\ code' = "ok"
    /\ iter' = IF stop THEN Reset(iter) ELSE iter

(***************************************************************************)
(* NVM_KV_Pool_Del_Manager::start_thread, as far as the manager sees it.   *)
(***************************************************************************)
Announce ==
    /\ dpc = "wait"
    /\ dpc' = "lock"
    /\ pool_del_status' = TRUE
    /\ UNCHANGED <<vars, wpc, batch, ix, manager, glb>>

LockGlb ==
    /\ dpc = "lock"
    /\ glb = "free"
    /\ glb' = "pool_del"
    /\ dpc' = "work"
    /\ UNCHANGED <<vars, wpc, batch, ix, manager, pool_del_status>>

DeletionDone ==
    /\ dpc = "work"
    /\ dpc' = "wait"
    /\ pool_del_status' = FALSE
    /\ glb' = "free"
    /\ UNCHANGED <<vars, wpc, batch, ix, manager>>

-----------------------------------------------------------------------------
(***************************************************************************)
(* The observer.                                                           *)
(***************************************************************************)
\* LBAs that somebody means to trim: a call that found its record expired, the
\* queue, a batch and, when no header is read any more, the ranges to which the
\* manager may yet come, be it in its next pass.
Claimed ==
    {lba[t] : t \in {u \in Threads : pc[u] = "expire"}}
    \cup Range(expq)
    \cup (UNION {Range(batch[w]) : w \in Workers})
    \cup (IF Global
          THEN {iter.ranges[j] : j \in 2 .. Len(iter.ranges)} ELSE {})

\* Claimed LBAs that were written, or that a blind read claimed.
ObserveWrites ==
    rewritten' = Claimed' \cap
        (rewritten
         \cup {s \in Claimed : media'[s] # NoRec /\ media'[s] # media[s]}
         \cup {s \in Slots : \E t \in Threads :
                 /\ pc[t] = "read_media" /\ pc'[t] = "expire"
                 /\ lba'[t] = s /\ ~Expired(media[s])})

-----------------------------------------------------------------------------
\* A step of the callers.
Calls(A) == A /\ UNCHANGED <<wpc, batch, ix, manager, glb, deleter>>

Background(w) ==
    InsertLba(w) \/ TrimBatch(w) \/ DeleteLba(w) \/ PopBlock(w) \/ BlockDone(w)

Pass == StartPass \/ YieldPass \/ Scan \/ EndOfDevice \/ ScanError \/ Check \/ BatchDone

DeletionThread == Announce \/ LockGlb \/ DeletionDone

ENext ==
    /\ \/ Calls(\E t \in Threads : Step(t) \/ \E r \in Requests : Call(t, r))
       \/ Calls(Tick)
       \/ \E w \in Workers : Background(w)
       \/ Wake \/ WaitForTrigger \/ Pass
       \/ DeletionThread
    /\ UNCHANGED expiry_mode
    /\ ObserveWrites

ESpec == EInit /\ [][ENext]_evars

-----------------------------------------------------------------------------
\* The LBAs that a thread has in the safe list.
Inserted(w) ==
    {batch[w][j] : j \in {i \in DOMAIN batch[w] :
        \/ wpc[w] = "insert" /\ i < ix[w]
        \/ wpc[w] = "trim"
        \/ wpc[w] = "release" /\ i >= ix[w]}}

\* What a call or a thread believes it has in the safe list is there, nobody
\* else believes to have it, and the list holds nothing more.
LbasExact ==
    LET holds == [x \in Threads \cup Workers |->
                    IF x \in Workers THEN Inserted(x)
                    ELSE IF held[x] THEN {lba[x]} ELSE {}]
    IN /\ safe = UNION Range(holds)
       /\ \A x, y \in DOMAIN holds : x # y => holds[x] \cap holds[y] = {}

\* A thread of the store, and no call, removes the record at s.
Discarded(s) == media[s] # NoRec /\ media'[s] = NoRec /\ pc' = pc

\* The threads remove no record but expired ones, except at an LBA that was
\* written, or blindly read, between the decision to trim it and the trim.
ExpiredOnly ==
    [][\A s \in Slots : Discarded(s) => Expired(media[s]) \/ s \in rewritten]_evars

\* What batch_delete_sync is meant for: no record that a caller could still
\* read is trimmed.
LiveKept ==
    [][\A s \in Slots : Discarded(s) => Expired(media[s])]_evars
=============================================================================
