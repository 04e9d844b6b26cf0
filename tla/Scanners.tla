------------------------------- MODULE Scanners -------------------------------
(***************************************************************************)
(* The threads of a store, from kv_open to kv_close: the expiry manager,   *)
(* the threads of the asynchronous expiry and the pool deletion thread,    *)
(* all of them NVM_KV_Scanners (src/kv_scanner.cpp).  What they find and   *)
(* trim is the matter of Expiry and Pools; here it is how they start, wait *)
(* and are woken, the mutexes and LBAs they take from each other, and how  *)
(* ~NVM_KV_Store cancels and joins them.                                   *)
(*                                                                         *)
(* A thread waits on a condition variable with its mutex released; what it *)
(* does between taking that mutex and releasing it is one step.  Only the  *)
(* mutex shared by manager and deletion thread (glb_mtx) is held for long. *)
(* Cancellation is deferred: a thread ends where it waits on a condition   *)
(* variable, that of the safe LBA list included, where it calls            *)
(* pthread_testcancel, where it reads from the device (preadv) and, as the *)
(* C library may make it one, where it reports an error (fprintf).         *)
(***************************************************************************)
EXTENDS Naturals, Sequences

CONSTANTS
    AsyncThreads,  \* threads of NVM_KV_Async_Expiry
    Manager,       \* the thread of NVM_KV_Expiry_Manager
    Deleter,       \* the thread of NVM_KV_Pool_Del_Manager
    Lbas,
    Batches,       \* sequences of LBAs that are trimmed together
    UserPools,
    MaxBlocks,     \* bound on the full blocks in the expiry queue
    MaxOpens,      \* bound on how often the store is opened
    Free           \* nobody has the mutex

Trimmers == AsyncThreads \cup {Manager}
Scanner == Trimmers \cup {Deleter}

ASSUME ScannersAssumption ==
    /\ Manager \notin AsyncThreads /\ Deleter \notin Trimmers /\ Free \notin Scanner
    /\ AsyncThreads # {}
    /\ Batches \subseteq Seq(Lbas) \ {<<>>}
    /\ MaxBlocks \in Nat /\ MaxOpens \in Nat

VARIABLES
    phase,      \* what kv_open or kv_close has come to
    opens,      \* how often the store was opened
    pc,         \* where each thread is
    cancelled,  \* pthread_cancel was called for these
    glb,        \* who has glb_mtx
    safe,       \* the safe LBA list
    broken,     \* its mutex was left locked
    call,       \* LBAs that calls have in it
    batch, ix,  \* what a thread is to trim, and the entry it is at
    last,       \* the manager's pass ends with this batch
    blocks,     \* full blocks in the expiry queue
    deleted,    \* pools marked for deletion
    taken,      \* m_pools_to_delete
    pool_del_status

store == <<phase, opens, cancelled>>
list == <<safe, broken, call>>
batches == <<batch, ix, last>>
requests == <<blocks, deleted>>
deletion == <<taken, pool_del_status>>
vars == <<store, pc, glb, list, batches, requests, deletion>>

Opening == {"manager", "async", "deleter", "set_up"}
Closing == {"end_manager", "end_async", "end_deleter"}

Pcs == {"gone", "start", "top", "decide", "wait", "waked", "pass", "insert",
        "trim", "release", "test", "look", "sleep", "announce", "lock", "work"}

\* Types of the variables.
TypeOK ==
    /\ phase \in {"closed", "up"} \cup Opening \cup Closing
    /\ opens \in 0 .. MaxOpens
    /\ pc \in [Scanner -> Pcs]
    /\ cancelled \subseteq Scanner
    /\ glb \in {Manager, Deleter, Free}
    /\ safe \subseteq Lbas /\ call \subseteq safe /\ broken \in BOOLEAN
    /\ batch \in [Trimmers -> Batches \cup {<<>>}]
    /\ \A w \in Trimmers : ix[w] \in 1 .. (Len(batch[w]) + 1)
    /\ last \in BOOLEAN
    /\ blocks \in 0 .. MaxBlocks
    /\ deleted \subseteq UserPools /\ taken \subseteq UserPools
    /\ pool_del_status \in BOOLEAN

Init ==
    /\ phase = "closed" /\ opens = 0
    /\ pc = [w \in Scanner |-> "gone"]
    /\ cancelled = {}
    /\ glb = Free
    /\ safe = {} /\ broken = FALSE /\ call = {}
    /\ batch = [w \in Trimmers |-> <<>>]
    /\ ix = [w \in Trimmers |-> 1]
    /\ last = FALSE
    /\ blocks = 0
    /\ deleted = {} /\ taken = {}
    /\ pool_del_status = FALSE

Goto(w, to) == pc' = [pc EXCEPT ![w] = to]

-----------------------------------------------------------------------------
(***************************************************************************)
(* kv_open: NVM_KV_Store::init_scanners.  The pools in deletion were read  *)
(* from the device; everything else is new.                                *)
(***************************************************************************)
Open ==
    /\ phase = "closed"
    /\ opens < MaxOpens
    /\ opens' = opens + 1
    /\ phase' = "manager"
    /\ cancelled' = {}
    /\ UNCHANGED <<pc, glb, list, batches, requests, deletion>>

\* pthread_create for the threads in S
Start(from, S, at, to) ==
    /\ phase = from
    /\ pc' = [w \in Scanner |-> IF w \in S THEN at ELSE pc[w]]
    /\ phase' = to
    /\ UNCHANGED <<opens, cancelled, glb, list, batches, requests, deletion>>

StartManager == Start("manager", {Manager}, "start", "async")
StartAsync == Start("async", AsyncThreads, "test", "deleter")
StartDeleter == Start("deleter", {Deleter}, "test", "set_up")

\* What NVM_KV_Pool_Del_Manager::initialize and NVM_KV_Store::initialize do when
\* the threads run already: iterator and bitmap of the deletion thread, cache.
SetUp ==
    /\ phase = "set_up"
    /\ phase' = "up"
    /\ UNCHANGED <<opens, cancelled, pc, glb, list, batches, requests, deletion>>

-----------------------------------------------------------------------------
(***************************************************************************)
(* The callers of the store.                                               *)
(***************************************************************************)
\* kv_open puts the store into m_kvMap when it is complete.
InUse == phase = "up"

\* Mutant: nobody is woken.
Sleepers(S) == pc

\* restart_scanner_if_asleep: whoever sleeps looks again.
Woken(S) == [w \in Scanner |-> IF w \in S /\ pc[w] = "sleep" THEN "look" ELSE pc[w]]

\* delete_pool, under the mutex of the deletion thread
DeletePool(p) ==
    /\ InUse
    /\ p \notin deleted
    /\ deleted' = deleted \cup {p}
    /\ pc' = Woken({Deleter})
    /\ UNCHANGED <<store, glb, list, batches, blocks, deletion>>

\* update_expiry_queue fills a block, under the mutex of the queue
FillBlock ==
    /\ InUse
    /\ blocks < MaxBlocks
    /\ blocks' = blocks + 1
    /\ pc' = Woken(AsyncThreads)
    /\ UNCHANGED <<store, glb, list, batches, deleted, deletion>>

\* A call inserts an LBA, and deletes it when it is done.
CallInsert(l) ==
    /\ InUse
    /\ ~broken /\ l \notin safe
    /\ call = {}
    /\ safe' = safe \cup {l}
    /\ call' = {l}
    /\ UNCHANGED <<store, pc, glb, broken, batches, requests, deletion>>

CallDelete(l) ==
    /\ ~broken
    /\ l \in call
    /\ safe' = safe \ {l}
    /\ call' = {}
    /\ UNCHANGED <<store, pc, glb, broken, batches, requests, deletion>>

-----------------------------------------------------------------------------
(***************************************************************************)
(* batch_delete_sync, by the threads that trim.                            *)
(***************************************************************************)
Begin(w, b) ==
    /\ batch' = [batch EXCEPT ![w] = b]
    /\ Goto(w, "insert")

InsertLba(w) ==
    LET l == batch[w][ix[w]] IN
    /\ pc[w] = "insert"
    /\ ~broken /\ l \notin safe
    /\ safe' = safe \cup {l}
    /\ ix' = [ix EXCEPT ![w] = IF @ = Len(batch[w]) THEN 1 ELSE @ + 1]
    /\ IF ix[w] = Len(batch[w]) THEN Goto(w, "trim") ELSE UNCHANGED pc
    /\ UNCHANGED <<store, glb, broken, call, batch, last, requests, deletion>>

Trim(w) ==
    /\ pc[w] = "trim"
    /\ Goto(w, "release")
    /\ UNCHANGED <<store, glb, list, batches, requests, deletion>>

\* Mutant: the last LBA stays in the list.
DropButLast(w) == IF ix[w] = Len(batch[w]) THEN safe ELSE safe \ {batch[w][ix[w]]}

Dropped(w) == safe \ {batch[w][ix[w]]}

\* After the last one an asynchronous thread goes back to the queue, and the
\* manager to its pass.
DeleteLba(w) ==
    LET done == ix[w] = Len(batch[w]) IN
    /\ pc[w] = "release"
    /\ ~broken
    /\ safe' = Dropped(w)
    /\ ix' = [ix EXCEPT ![w] = IF done THEN 1 ELSE @ + 1]
    /\ batch' = IF done THEN [batch EXCEPT ![w] = <<>>] ELSE batch
    /\ last' = (last /\ ~(done /\ w = Manager))
    /\ IF ~done THEN UNCHANGED pc
       ELSE Goto(w, IF w # Manager THEN "test" ELSE IF last THEN "top" ELSE "pass")
    /\ UNCHANGED <<store, glb, broken, call, requests, deletion>>

(***************************************************************************)
(* NVM_KV_Async_Expiry::start_thread                                       *)
(***************************************************************************)
\* pthread_testcancel lets a thread other than the manager go on: it looks for
\* work, as it does when it is woken.
Look(w) ==
    /\ pc[w] = "test" /\ w \notin cancelled
    /\ Goto(w, "look")
    /\ UNCHANGED <<store, glb, list, batches, requests, deletion>>

PopBlock(w) ==
    /\ w \in AsyncThreads
    /\ pc[w] = "look"
    /\ blocks > 0
    /\ blocks' = blocks - 1
    /\ \E b \in Batches : Begin(w, b)
    /\ UNCHANGED <<store, glb, list, ix, last, deleted, deletion>>

\* wait_for_trigger
Sleep(w) ==
    /\ pc[w] = "look"
    /\ IF w = Deleter THEN deleted = {} ELSE blocks = 0
    /\ Goto(w, "sleep")
    /\ UNCHANGED <<store, glb, list, batches, requests, deletion>>

(***************************************************************************)
(* NVM_KV_Expiry_Manager::start_thread, start_expiry, wait_for_trigger     *)
(***************************************************************************)
ManagerLock ==
    /\ pc[Manager] \in {"start", "waked"}
    /\ glb = Free
    /\ glb' = Manager
    /\ Goto(Manager, IF pc[Manager] = "start" THEN "top" ELSE "decide")
    /\ UNCHANGED <<store, list, batches, requests, deletion>>

\* pthread_testcancel lets it go on.
ManagerGoesOn ==
    /\ pc[Manager] = "top" /\ Manager \notin cancelled
    /\ Goto(Manager, "decide")
    /\ UNCHANGED <<store, glb, list, batches, requests, deletion>>

\* Mutant: whether a pool deletion is due does not matter.
NeverDue == FALSE

\* check_pool_del_status
DeletionDue == pool_del_status

\* expire_keys is a question of how full the device is.
StartPass ==
    /\ pc[Manager] = "decide"
    /\ ~DeletionDue
    /\ Goto(Manager, "pass")
    /\ UNCHANGED <<store, glb, list, batches, requests, deletion>>

WaitForTrigger ==
    /\ pc[Manager] = "decide"
    /\ Goto(Manager, "wait")
    /\ glb' = Free
    /\ UNCHANGED <<store, list, batches, requests, deletion>>

\* The time is up, or the deletion thread says it is done.  A thread that was
\* cancelled before does not return from its wait.
WakeManager ==
    /\ pc[Manager] = "wait" /\ Manager \notin cancelled
    /\ Goto(Manager, "waked")
    /\ UNCHANGED <<store, glb, list, batches, requests, deletion>>

\* A batch is full, and the pass goes on after it ...
PassBatch(b) ==
    /\ pc[Manager] = "pass"
    /\ ~DeletionDue
    /\ Begin(Manager, b)
    /\ UNCHANGED <<store, glb, list, ix, last, requests, deletion>>

\* ... or it is the rest at the end of the device, or before a deletion.
LastBatch(b) ==
    /\ pc[Manager] = "pass"
    /\ Begin(Manager, b)
    /\ last' = TRUE
    /\ UNCHANGED <<store, glb, list, ix, requests, deletion>>

PassEnds ==
    /\ pc[Manager] = "pass"
    /\ Goto(Manager, "top")
    /\ UNCHANGED <<store, glb, list, batches, requests, deletion>>

(***************************************************************************)
(* NVM_KV_Pool_Del_Manager::start_thread                                   *)
(***************************************************************************)
\* has_pools_to_delete and get_pool_deletion_bitmap, under its mutex
CopyBitmap ==
    /\ pc[Deleter] = "look"
    /\ deleted # {}
    /\ taken' = deleted
    /\ Goto(Deleter, "announce")
    /\ UNCHANGED <<store, glb, list, batches, requests, pool_del_status>>

Announce ==
    /\ pc[Deleter] = "announce"
    /\ pool_del_status' = TRUE
    /\ Goto(Deleter, "lock")
    /\ UNCHANGED <<store, glb, list, batches, requests, taken>>

DeleterLock ==
    /\ pc[Deleter] = "lock"
    /\ glb = Free
    /\ glb' = Deleter
    /\ Goto(Deleter, "work")
    /\ UNCHANGED <<store, list, batches, requests, deletion>>

\* The pools are cleared, or an error leaves them for another round.
WorkDone ==
    /\ pc[Deleter] = "work"
    /\ deleted' \in {deleted \ taken, deleted}
    /\ taken' = {}
    /\ pool_del_status' = FALSE
    /\ glb' = Free
    /\ pc' = [pc EXCEPT ![Deleter] = "test",
                        ![Manager] = IF @ = "wait" /\ Manager \notin cancelled
                                    THEN "waked" ELSE @]
    /\ UNCHANGED <<store, list, batches, blocks>>

-----------------------------------------------------------------------------
(***************************************************************************)
(* kv_close: ~NVM_KV_Store.                                                *)
(***************************************************************************)
\* No call is in progress.
Close ==
    /\ phase = "up"
    /\ call = {}
    /\ phase' = "end_manager"
    /\ UNCHANGED <<opens, cancelled, pc, glb, list, batches, requests, deletion>>

Group(ph) ==
    IF ph = "end_manager" THEN {Manager}
    ELSE IF ph = "end_async" THEN AsyncThreads ELSE {Deleter}

\* cleanup_threads: all are woken, then one after the other is cancelled and
\* joined.
CancelThread(w) ==
    /\ phase \in Closing
    /\ w \in Group(phase) \ cancelled
    /\ \A x \in Group(phase) \cap cancelled : pc[x] = "gone"
    /\ cancelled' = cancelled \cup {w}
    /\ pc' = IF Group(phase) \cap cancelled = {} THEN Woken(Group(phase)) ELSE pc
    /\ UNCHANGED <<phase, opens, glb, list, batches, requests, deletion>>

NextToEnd ==
    IF phase = "end_manager" THEN "end_async"
    ELSE IF phase = "end_async" THEN "end_deleter" ELSE "closed"

\* All threads of a kind are joined.  With the last one the store is gone, and
\* with it the queue and the safe list.
Joined ==
    /\ phase \in Closing
    /\ Group(phase) \subseteq cancelled
    /\ \A w \in Group(phase) : pc[w] = "gone"
    /\ phase' = NextToEnd
    /\ IF phase' = "closed"
       THEN /\ blocks' = 0 /\ safe' = {} /\ broken' = FALSE
            /\ glb' = Free /\ taken' = {} /\ pool_del_status' = FALSE
            /\ batch' = [w \in Trimmers |-> <<>>] /\ ix' = [w \in Trimmers |-> 1]
            /\ last' = FALSE
       ELSE UNCHANGED <<blocks, safe, broken, glb, taken, pool_del_status, batches>>
    /\ UNCHANGED <<opens, cancelled, pc, call, deleted>>

(***************************************************************************)
(* scanner_cancel_routine: the handlers of manager and deletion thread     *)
(* unlock glb_mtx, whether or not the thread has it.                       *)
(***************************************************************************)
\* Mutant: glb_mtx is not unlocked.
KeepGlb(w) == UNCHANGED glb

\* Mutant: the asynchronous threads unlock glb_mtx too.
UnlockAny(w) == glb' = Free

UnlockGlb(w) == glb' = IF w \in AsyncThreads THEN glb ELSE Free

\* At pthread_testcancel, in wait_for_trigger, or at the read of a header in the
\* middle of a pass or of a pool deletion; a wait on glb_mtx's condition variable
\* gets the mutex back first.
EndCancelled(w) ==
    /\ w \in cancelled
    /\ pc[w] \in {"test", "sleep", "top", "wait", "pass", "work"}
    /\ pc[w] = "wait" => glb = Free
    /\ UnlockGlb(w)
    /\ Goto(w, "gone")
    /\ UNCHANGED <<store, list, batches, requests, deletion>>

\* The trim failed, and reporting that is the end: its LBAs stay in the list.
EndTrimming(w) ==
    /\ w \in cancelled \cap Trimmers
    /\ pc[w] = "trim"
    /\ UnlockGlb(w)
    /\ Goto(w, "gone")
    /\ UNCHANGED <<store, list, batches, requests, deletion>>

\* In insert_entry, waiting for an LBA: the mutex of the list is taken back and
\* no handler unlocks it.
EndInserting(w) ==
    /\ w \in cancelled \cap Trimmers
    /\ pc[w] = "insert"
    /\ ~broken /\ batch[w][ix[w]] \in safe
    /\ broken' = TRUE
    /\ UnlockGlb(w)
    /\ Goto(w, "gone")
    /\ UNCHANGED <<store, safe, call, batches, requests, deletion>>

-----------------------------------------------------------------------------
Opens == Open \/ StartManager \/ StartAsync \/ StartDeleter \/ SetUp
Closes == Joined \/ \E w \in Scanner : CancelThread(w)

Callers ==
    \/ \E p \in UserPools : DeletePool(p)
    \/ FillBlock
    \/ \E l \in Lbas : CallInsert(l) \/ CallDelete(l)

Trims(w) == InsertLba(w) \/ Trim(w) \/ DeleteLba(w)
Ends(w) == EndCancelled(w) \/ EndTrimming(w) \/ EndInserting(w)

Async(w) == Trims(w) \/ Look(w) \/ PopBlock(w) \/ Sleep(w) \/ Ends(w)

Managing ==
    \/ ManagerLock \/ ManagerGoesOn \/ StartPass \/ WaitForTrigger \/ WakeManager
    \/ \E b \in Batches : PassBatch(b) \/ LastBatch(b)
    \/ PassEnds \/ Trims(Manager) \/ Ends(Manager)

Deleting ==
    \/ Look(Deleter) \/ CopyBitmap \/ Announce \/ DeleterLock \/ WorkDone
    \/ Sleep(Deleter) \/ Ends(Deleter)

Next ==
    \/ Opens \/ Close \/ Closes
    \/ Callers
    \/ (\E w \in AsyncThreads : Async(w)) \/ Managing \/ Deleting

Spec == Init /\ [][Next]_vars

(***************************************************************************)
(* Fairness.  Every thread runs.  One that waits for an LBA or for glb_mtx *)
(* is not overtaken for ever: an LBA is held for one operation of the      *)
(* device, and a deletion from the list wakes all who wait.  A pass ends,  *)
(* as the device does.  Nothing makes the store open or close, or a call   *)
(* be made.                                                                *)
(***************************************************************************)
FairSpec ==
    /\ Spec
    /\ WF_vars(Opens /\ phase # "closed") /\ WF_vars(Closes)
    /\ \A l \in Lbas : WF_vars(CallDelete(l))
    /\ \A w \in AsyncThreads : SF_vars(Async(w))
    /\ SF_vars(Managing) /\ SF_vars(PassEnds)
    /\ SF_vars(Deleting)

-----------------------------------------------------------------------------
\* glb_mtx is with the thread that is between taking and releasing it, whatever
\* the handlers unlock: a pass of the expiry manager and a pool deletion never
\* overlap ("not deleting same addresses", kv_expiry_manager.cpp).
GlbExact ==
    /\ glb = Manager <=> pc[Manager] \in {"top", "decide", "pass", "insert", "trim", "release"}
    /\ glb = Deleter <=> pc[Deleter] = "work"

\* No thread sleeps while there is work for it: a full block, or a pool to
\* delete, that was there when the store was opened or came since.
NoMissedWakeup ==
    phase \notin Closing =>
        /\ blocks > 0 => \E w \in AsyncThreads : pc[w] # "sleep"
        /\ deleted # {} => pc[Deleter] # "sleep"

\* What "does all necessary allocations and starts scanner" (kv_scanner.cpp) says:
\* the deletion thread does not go to work before its iterator, its bitmap and the
\* cache are there.  It does if the store is opened with pools in deletion.
SetUpFirst == ~(phase = "set_up" /\ pc[Deleter] \in {"announce", "lock", "work"})

\* Every batch gets its LBAs, as long as all batches are sorted and no thread was
\* cancelled while it waited for one.
BatchesEnd == \A w \in Trimmers : pc[w] = "insert" ~> pc[w] # "insert" \/ broken

\* A pool deletion that announced itself gets the mutex: the manager yields.
DeletionRuns == pc[Deleter] = "lock" ~> pc[Deleter] # "lock" \/ broken

\* kv_close joins all threads, unless one was cancelled waiting for an LBA.
CloseEnds == phase \in Closing ~> phase = "closed" \/ broken

\* What kv_close should do.
CloseAlwaysEnds == phase \in Closing ~> phase = "closed"
=============================================================================
