---------------------------- MODULE ScannersProofs ----------------------------
(***************************************************************************)
(* glb_mtx is with the thread that uses it and no wakeup is missed, for    *)
(* any number of threads, LBAs, batches and pools, and however often the   *)
(* store is opened and closed.                                             *)
(***************************************************************************)
EXTENDS Scanners, TLAPS

\* The types that the argument needs.
Types ==
    /\ phase \in {"closed", "up"} \cup Opening \cup Closing
    /\ pc \in [Scanner -> Pcs]
    /\ pc[Manager] \notin {"test", "look", "sleep", "work"}
    /\ cancelled \subseteq Scanner
    /\ glb \in {Manager, Deleter, Free}
    /\ blocks \in Nat

Gone(S) == \A w \in S : pc[w] = "gone"

\* Which threads there are, and which may be cancelled.  A handler unlocks glb_mtx
\* without having it only when nobody else can: the deletion thread is cancelled
\* when the manager is gone.
Order ==
    /\ phase \in {"closed", "manager"} => Gone(Scanner)
    /\ phase = "async" => Gone(AsyncThreads \cup {Deleter})
    /\ phase = "deleter" => Gone({Deleter})
    /\ phase \in {"end_async", "end_deleter"} => Gone({Manager})
    /\ phase = "end_deleter" => Gone(AsyncThreads)
    /\ phase \in Opening \cup {"up"} => cancelled = {}
    /\ phase = "end_manager" => cancelled \subseteq {Manager}
    /\ phase = "end_async" => cancelled \subseteq Trimmers

\* Each asynchronous thread is awake while there is a full block.
Awake ==
    phase \notin Closing =>
        /\ blocks > 0 => \A w \in AsyncThreads : pc[w] # "sleep"
        /\ deleted # {} => pc[Deleter] # "sleep"

Inv == Types /\ GlbExact /\ Order /\ Awake

Names == /\ Manager # Deleter /\ Manager # Free /\ Deleter # Free
         /\ Manager \notin AsyncThreads /\ Deleter \notin AsyncThreads
         /\ Manager \in Scanner /\ Deleter \in Scanner /\ AsyncThreads \subseteq Scanner
         /\ Scanner = AsyncThreads \cup {Manager, Deleter}
         /\ Trimmers = AsyncThreads \cup {Manager}

LEMMA Distinct == Names
BY ScannersAssumption DEF Names, Scanner, Trimmers

\* No thread runs before the store is opened.
LEMMA InitInv == Init => Inv
<1> USE Distinct DEF Names
<1> SUFFICES ASSUME Init PROVE Inv
  OBVIOUS
<1>1. Types
  BY DEF Init, Types, Pcs
<1>2. GlbExact
  BY DEF Init, GlbExact
<1>3. Order
  BY DEF Init, Order, Gone, Opening
<1>4. Awake
  BY DEF Init, Awake
<1> QED
  BY <1>1, <1>2, <1>3, <1>4 DEF Inv

\* Where a thread is before and after a step that concerns the mutex, by place.
Holding == {"top", "decide", "pass", "insert", "trim", "release"}

\* A step of a single thread that leaves the store and the requests alone, moves it to a
\* place where it does not sleep, and keeps to the mutex.
LEMMA ThreadStep ==
    ASSUME Inv, NEW w \in Scanner, NEW to \in Pcs, Goto(w, to),
           pc[w] # "gone", to # "sleep",
           UNCHANGED <<phase, cancelled, deleted>>,
           blocks' \in Nat, blocks' <= blocks,
           glb' \in {Manager, Deleter, Free},
           w \in AsyncThreads => glb' = glb,
           w = Manager => /\ to \notin {"test", "look", "sleep", "work"}
                          /\ glb' = Manager <=> to \in Holding
                          /\ glb' = Deleter <=> glb = Deleter,
           w = Deleter => /\ glb' = Deleter <=> to = "work"
                          /\ glb' = Manager <=> glb = Manager
    PROVE  Inv'
<1> USE Distinct DEF Names
<1>1. \A x \in Scanner : pc'[x] = IF x = w THEN to ELSE pc[x]
  BY DEF Goto, Inv, Types
<1>2. Types'
  BY DEF Goto, Inv, Types
<1>3. GlbExact'
  <2>1. CASE w = Manager
    BY <1>1, <2>1 DEF Inv, GlbExact, Holding
  <2>2. CASE w = Deleter
    BY <1>1, <2>2 DEF Inv, GlbExact, Holding
  <2>3. CASE w \in AsyncThreads
    BY <1>1, <2>3 DEF Inv, GlbExact
  <2> QED
    BY <2>1, <2>2, <2>3
<1>4. Order'
  BY <1>1 DEF Inv, Order, Gone
<1>5. Awake'
  BY <1>1 DEF Inv, Types, Awake
<1> QED
  BY <1>2, <1>3, <1>4, <1>5 DEF Inv

\* batch_delete_sync.
LEMMA TrimSteps ==
    ASSUME Inv, NEW w \in Trimmers, Trims(w) PROVE Inv'
<1> USE Distinct DEF Names
<1>0. w \in Scanner /\ w # Deleter
  OBVIOUS
<1>1. CASE InsertLba(w)
  <2>1. PICK to \in {"insert", "trim"} : Goto(w, to)
    BY <1>1 DEF InsertLba, Goto, Inv, Types
  <2>2. pc[w] = "insert" /\ UNCHANGED <<phase, cancelled, glb, blocks, deleted>>
    BY <1>1 DEF InsertLba, store, requests
  <2> QED
    BY <1>0, <2>1, <2>2, ThreadStep DEF Inv, Types, GlbExact, Holding, Pcs
<1>2. CASE Trim(w)
  <2>1. pc[w] = "trim" /\ Goto(w, "release") /\ UNCHANGED <<phase, cancelled, glb, blocks, deleted>>
    BY <1>2 DEF Trim, store, requests
  <2> QED
    BY <1>0, <2>1, ThreadStep DEF Inv, Types, GlbExact, Holding, Pcs
<1>3. CASE DeleteLba(w)
  <2>1. PICK to \in {"release", "test", "top", "pass"} :
            Goto(w, to) /\ (w = Manager => to # "test")
    BY <1>3 DEF DeleteLba, Goto, Inv, Types
  <2>2. pc[w] = "release" /\ UNCHANGED <<phase, cancelled, glb, blocks, deleted>>
    BY <1>3 DEF DeleteLba, store, requests
  <2> QED
    BY <1>0, <2>1, <2>2, ThreadStep DEF Inv, Types, GlbExact, Holding, Pcs
<1> QED
  BY <1>1, <1>2, <1>3 DEF Trims

\* The end of a cancelled thread: its handler unlocks glb_mtx, which nobody has
\* that is not the thread itself.
LEMMA EndSteps ==
    ASSUME Inv, NEW w \in Scanner, Ends(w) PROVE Inv'
<1> USE Distinct DEF Names
<1>1. /\ w \in cancelled /\ Goto(w, "gone") /\ pc[w] # "gone"
      /\ UNCHANGED <<phase, cancelled, blocks, deleted>>
      /\ UnlockGlb(w)
  BY DEF Ends, EndCancelled, EndTrimming, EndInserting, store, requests
<1>2. CASE w = Manager
  <2>1. glb # Deleter
    <3>1. CASE EndCancelled(w)
      BY <1>2, <3>1 DEF EndCancelled, Inv, Types, GlbExact
    <3>2. CASE EndInserting(w)
      BY <1>2, <3>2 DEF EndInserting, Inv, GlbExact
    <3>3. CASE EndTrimming(w)
      BY <1>2, <3>3 DEF EndTrimming, Inv, GlbExact
    <3> QED
      BY <3>1, <3>2, <3>3 DEF Ends
  <2>2. glb' = Free
    BY <1>1, <1>2 DEF UnlockGlb
  <2> QED
    BY <1>1, <1>2, <2>1, <2>2, ThreadStep DEF Inv, Types, Holding, Pcs
<1>3. CASE w = Deleter
  <2>1. phase \in {"closed", "end_deleter"}
    BY <1>1, <1>3 DEF Inv, Types, Order, Opening, Closing
  <2>2. glb # Manager
    BY <2>1 DEF Inv, Order, Gone, GlbExact
  <2>3. glb' = Free
    BY <1>1, <1>3 DEF UnlockGlb
  <2> QED
    BY <1>1, <1>3, <2>2, <2>3, ThreadStep DEF Inv, Types, Pcs
<1>4. CASE w \in AsyncThreads
  BY <1>1, <1>4, ThreadStep DEF UnlockGlb, Inv, Types, Pcs
<1> QED
  BY <1>2, <1>3, <1>4

\* A thread that finds no work falls asleep.
LEMMA SleepStep ==
    ASSUME Inv, NEW w \in AsyncThreads \cup {Deleter}, Sleep(w) PROVE Inv'
<1> USE Distinct DEF Names
<1>1. /\ pc[w] = "look" /\ Goto(w, "sleep")
      /\ UNCHANGED <<phase, cancelled, glb, blocks, deleted>>
      /\ IF w = Deleter THEN deleted = {} ELSE blocks = 0
  BY DEF Sleep, store, requests
<1>2. \A x \in Scanner : pc'[x] = IF x = w THEN "sleep" ELSE pc[x]
  BY <1>1 DEF Goto, Inv, Types
<1>3. Types'
  BY <1>1, <1>2 DEF Goto, Inv, Types, Pcs
<1>4. GlbExact'
  BY <1>1, <1>2 DEF Inv, GlbExact
<1>5. Order'
  BY <1>1, <1>2 DEF Inv, Order, Gone
<1>6. Awake'
  BY <1>1, <1>2 DEF Inv, Types, Awake
<1> QED
  BY <1>3, <1>4, <1>5, <1>6 DEF Inv

\* NVM_KV_Async_Expiry::start_thread.
LEMMA AsyncSteps ==
    ASSUME Inv, NEW w \in AsyncThreads, Async(w) PROVE Inv'
<1> USE Distinct DEF Names
<1>1. CASE Look(w)
  <2>1. pc[w] = "test" /\ Goto(w, "look") /\ UNCHANGED <<phase, cancelled, glb, blocks, deleted>>
    BY <1>1 DEF Look, store, requests
  <2> QED
    BY <2>1, ThreadStep DEF Inv, Types, Pcs
<1>2. CASE PopBlock(w)
  <2>1. /\ pc[w] = "look" /\ Goto(w, "insert")
        /\ UNCHANGED <<phase, cancelled, glb, deleted>>
        /\ blocks > 0 /\ blocks' = blocks - 1
    BY <1>2 DEF PopBlock, Begin, store
  <2>2. blocks' \in Nat /\ blocks' <= blocks
    BY <2>1 DEF Inv, Types
  <2> QED
    BY <2>1, <2>2, ThreadStep DEF Inv, Types, Pcs
<1> QED
  BY <1>1, <1>2, TrimSteps, SleepStep, EndSteps DEF Async

\* The expiry manager.
LEMMA ManagerSteps ==
    ASSUME Inv, Managing PROVE Inv'
<1> USE Distinct DEF Names
<1> DEFINE Kept == UNCHANGED <<phase, cancelled, blocks, deleted>>
<1>1. CASE ManagerLock
  <2>1. PICK to \in {"top", "decide"} :
            Goto(Manager, to) /\ pc[Manager] # "gone" /\ glb = Free /\ glb' = Manager /\ Kept
    BY <1>1 DEF ManagerLock, store, requests
  <2> QED
    BY <2>1, ThreadStep DEF Inv, Types, Holding, Pcs
<1>2. CASE WaitForTrigger
  <2>1. Goto(Manager, "wait") /\ pc[Manager] = "decide" /\ glb' = Free /\ Kept
    BY <1>2 DEF WaitForTrigger, store, requests
  <2>2. glb = Manager
    BY <2>1 DEF Inv, GlbExact
  <2> QED
    BY <2>1, <2>2, ThreadStep DEF Inv, Types, Holding, Pcs
<1>3. CASE WakeManager
  <2>1. Goto(Manager, "waked") /\ pc[Manager] = "wait" /\ glb' = glb /\ Kept
    BY <1>3 DEF WakeManager, store, requests
  <2>2. glb # Manager
    BY <2>1 DEF Inv, GlbExact
  <2> QED
    BY <2>1, <2>2, ThreadStep DEF Inv, Types, Holding, Pcs
<1>4. CASE \/ ManagerGoesOn \/ StartPass \/ PassEnds
           \/ \E b \in Batches : PassBatch(b) \/ LastBatch(b)
  <2>1. PICK to \in Holding :
            Goto(Manager, to) /\ pc[Manager] \in Holding /\ glb' = glb /\ Kept
    BY <1>4 DEF ManagerGoesOn, StartPass, PassEnds, PassBatch, LastBatch, Begin,
                Holding, store, requests
  <2>2. glb = Manager
    BY <2>1 DEF Inv, GlbExact, Holding
  <2> QED
    BY <2>1, <2>2, ThreadStep DEF Inv, Types, Holding, Pcs
<1> QED
  BY <1>1, <1>2, <1>3, <1>4, TrimSteps, EndSteps DEF Managing

\* The deletion thread.
LEMMA DeletionSteps ==
    ASSUME Inv, Deleting PROVE Inv'
<1> USE Distinct DEF Names
<1> DEFINE Kept == UNCHANGED <<phase, cancelled, blocks, deleted>>
<1>1. CASE Look(Deleter) \/ CopyBitmap \/ Announce
  <2>1. PICK to \in {"look", "announce", "lock"} :
            /\ Goto(Deleter, to) /\ glb' = glb /\ Kept
            /\ pc[Deleter] \in {"test", "look", "announce"}
    BY <1>1 DEF Look, CopyBitmap, Announce, store, requests
  <2>2. glb # Deleter
    BY <2>1 DEF Inv, GlbExact
  <2> QED
    BY <2>1, <2>2, ThreadStep DEF Inv, Types, Pcs
<1>2. CASE DeleterLock
  <2>1. Goto(Deleter, "work") /\ pc[Deleter] = "lock" /\ glb = Free /\ glb' = Deleter /\ Kept
    BY <1>2 DEF DeleterLock, store, requests
  <2> QED
    BY <2>1, ThreadStep DEF Inv, Types, Pcs
<1>3. CASE WorkDone
  <2>1. /\ pc[Deleter] = "work" /\ glb' = Free
        /\ deleted' \subseteq deleted
        /\ UNCHANGED <<phase, cancelled, blocks>>
    BY <1>3 DEF WorkDone, store
  <2>2. \A x \in Scanner :
            pc'[x] = IF x = Deleter THEN "test"
                     ELSE IF x = Manager /\ pc[x] = "wait" /\ Manager \notin cancelled
                          THEN "waked" ELSE pc[x]
    BY <1>3 DEF WorkDone, Inv, Types
  <2>3. glb = Deleter
    BY <2>1 DEF Inv, GlbExact
  <2>4. Types'
    <3>1. pc' \in [Scanner -> Pcs]
      BY <1>3 DEF WorkDone, Inv, Types, Pcs
    <3> QED
      BY <2>1, <2>2, <3>1 DEF Inv, Types
  <2>5. GlbExact'
    BY <2>1, <2>2, <2>3 DEF Inv, GlbExact
  <2>6. Order'
    BY <2>1, <2>2 DEF Inv, Order, Gone
  <2>7. Awake'
    BY <2>1, <2>2 DEF Inv, Types, Awake
  <2> QED
    BY <2>4, <2>5, <2>6, <2>7 DEF Inv
<1> QED
  BY <1>1, <1>2, <1>3, SleepStep, EndSteps DEF Deleting

\* A step that wakes some threads, or none, and keeps the store and the mutex.
LEMMA WakingStep ==
    ASSUME Inv, NEW S, pc' = Woken(S) \/ pc' = pc,
           UNCHANGED <<phase, cancelled, glb>>, blocks' \in Nat,
           Awake'
    PROVE  Inv'
<1> USE Distinct DEF Names
<1>1. \A x \in Scanner : pc'[x] = pc[x] \/ (pc[x] = "sleep" /\ pc'[x] = "look")
  BY DEF Woken
<1>2. pc' \in [Scanner -> Pcs]
  BY DEF Woken, Inv, Types, Pcs
<1>3. Types'
  BY <1>1, <1>2 DEF Inv, Types
<1>4. GlbExact'
  BY <1>1 DEF Inv, GlbExact
<1>5. Order'
  BY <1>1 DEF Inv, Order, Gone
<1> QED
  BY <1>3, <1>4, <1>5 DEF Inv

\* Whoever makes work wakes the threads that do it.
LEMMA CallerSteps ==
    ASSUME Inv, Callers PROVE Inv'
<1> USE Distinct DEF Names
<1>1. ASSUME NEW p \in UserPools, DeletePool(p) PROVE Inv'
  <2>1. /\ pc' = Woken({Deleter})
        /\ UNCHANGED <<phase, cancelled, glb, blocks>>
    BY <1>1 DEF DeletePool, store
  <2>2. Awake'
    BY <2>1 DEF Inv, Types, Awake, Woken
  <2> QED
    BY <2>1, <2>2, WakingStep DEF Inv, Types
<1>2. CASE FillBlock
  <2>1. /\ pc' = Woken(AsyncThreads)
        /\ UNCHANGED <<phase, cancelled, glb, deleted>>
        /\ blocks' = blocks + 1
    BY <1>2 DEF FillBlock, store
  <2>2. Awake'
    BY <2>1 DEF Inv, Types, Awake, Woken
  <2> QED
    BY <2>1, <2>2, WakingStep DEF Inv, Types
<1>3. ASSUME NEW l \in Lbas, CallInsert(l) \/ CallDelete(l) PROVE Inv'
  <2>1. UNCHANGED <<phase, cancelled, pc, glb, blocks, deleted>>
    BY <1>3 DEF CallInsert, CallDelete, store, requests
  <2> QED
    BY <2>1 DEF Inv, Types, GlbExact, Order, Gone, Awake
<1> QED
  BY <1>1, <1>2, <1>3 DEF Callers

\* kv_open.
LEMMA OpenSteps ==
    ASSUME Inv, Opens PROVE Inv'
<1> USE Distinct DEF Names
<1>1. CASE Open
  <2>1. /\ phase = "closed" /\ phase' = "manager" /\ cancelled' = {}
        /\ UNCHANGED <<pc, glb, blocks, deleted>>
    BY <1>1 DEF Open, requests
  <2> QED
    BY <2>1 DEF Inv, Types, GlbExact, Order, Gone, Awake, Opening, Closing
<1>2. ASSUME NEW from \in {"manager", "async", "deleter"}, NEW S \in SUBSET Scanner,
             NEW at \in {"start", "test"}, NEW to \in {"async", "deleter", "set_up"},
             Start(from, S, at, to), at = "test" => Manager \notin S,
             Gone(S), to = "async" => Gone(AsyncThreads \cup {Deleter}) /\ S = {Manager},
             to = "deleter" => Gone({Deleter}) /\ Deleter \notin S
      PROVE  Inv'
  <2>1. /\ phase = from /\ phase' = to
        /\ pc' = [x \in Scanner |-> IF x \in S THEN at ELSE pc[x]]
        /\ UNCHANGED <<cancelled, glb, blocks, deleted>>
    BY <1>2 DEF Start, requests
  <2>2. Types'
    BY <1>2, <2>1 DEF Inv, Types, Opening, Pcs
  <2>3. GlbExact'
    BY <1>2, <2>1 DEF Inv, GlbExact, Gone
  <2>4. Order'
    BY <1>2, <2>1 DEF Inv, Order, Gone, Opening
  <2>5. Awake'
    BY <2>1 DEF Inv, Awake, Closing
  <2> QED
    BY <2>2, <2>3, <2>4, <2>5 DEF Inv
<1>3. CASE StartManager
  <2>1. Gone(Scanner)
    BY <1>3 DEF StartManager, Start, Inv, Order
  <2>2. Gone({Manager}) /\ Gone(AsyncThreads \cup {Deleter})
    BY <2>1 DEF Gone
  <2>3. Start("manager", {Manager}, "start", "async")
    BY <1>3 DEF StartManager
  <2> QED
    BY <1>2, <2>2, <2>3
<1>4. CASE StartAsync
  BY <1>2, <1>4 DEF StartAsync, Start, Inv, Order, Gone
<1>5. CASE StartDeleter
  BY <1>2, <1>5 DEF StartDeleter, Start, Inv, Order, Gone
<1>6. CASE SetUp
  <2>1. /\ phase = "set_up" /\ phase' = "up"
        /\ UNCHANGED <<cancelled, pc, glb, blocks, deleted>>
    BY <1>6 DEF SetUp, requests
  <2> QED
    BY <2>1 DEF Inv, Types, GlbExact, Order, Gone, Awake, Opening, Closing
<1> QED
  BY <1>1, <1>3, <1>4, <1>5, <1>6 DEF Opens

\* kv_close.
LEMMA CloseSteps ==
    ASSUME Inv, Close \/ Closes PROVE Inv'
<1> USE Distinct DEF Names
<1>1. CASE Close
  <2>1. /\ phase = "up" /\ phase' = "end_manager"
        /\ UNCHANGED <<cancelled, pc, glb, blocks, deleted>>
    BY <1>1 DEF Close, requests
  <2> QED
    BY <2>1 DEF Inv, Types, GlbExact, Order, Gone, Awake, Opening, Closing
<1>2. ASSUME NEW w \in Scanner, CancelThread(w) PROVE Inv'
  <2>1. /\ phase \in Closing /\ w \in Group(phase)
        /\ cancelled' = cancelled \cup {w}
        /\ UNCHANGED <<phase, glb, blocks, deleted>>
    BY <1>2 DEF CancelThread, requests
  <2>2. \A x \in Scanner : pc'[x] = pc[x] \/ (pc[x] = "sleep" /\ pc'[x] = "look")
    BY <1>2 DEF CancelThread, Woken
  <2>3. pc' \in [Scanner -> Pcs]
    BY <1>2 DEF CancelThread, Woken, Inv, Types, Pcs
  <2>4. Types'
    BY <2>1, <2>2, <2>3 DEF Inv, Types
  <2>5. GlbExact'
    BY <2>1, <2>2 DEF Inv, GlbExact
  <2>6. Order'
    BY <2>1, <2>2 DEF Inv, Order, Gone, Group, Closing, Opening
  <2>7. Awake'
    BY <2>1 DEF Awake
  <2> QED
    BY <2>4, <2>5, <2>6, <2>7 DEF Inv
<1>3. CASE Joined
  <2>1. /\ phase \in Closing /\ phase' = NextToEnd /\ Gone(Group(phase))
        /\ UNCHANGED <<cancelled, pc, deleted>>
    BY <1>3 DEF Joined, Gone
  <2>2. CASE phase \in {"end_manager", "end_async"}
    <3>1. /\ phase' = IF phase = "end_manager" THEN "end_async" ELSE "end_deleter"
          /\ UNCHANGED <<glb, blocks>>
      BY <1>3, <2>2 DEF Joined, NextToEnd
    <3> QED
      BY <2>1, <2>2, <3>1
      DEF Inv, Types, GlbExact, Order, Gone, Awake, Opening, Closing, Group
  <2>3. CASE phase = "end_deleter"
    <3>1. phase' = "closed" /\ glb' = Free /\ blocks' = 0
      BY <1>3, <2>3 DEF Joined, NextToEnd
    <3>2. Gone(Scanner)
      BY <2>1, <2>3 DEF Inv, Order, Gone, Group
    <3> QED
      BY <2>1, <2>3, <3>1, <3>2
      DEF Inv, Types, GlbExact, Order, Gone, Awake, Opening, Closing
  <2> QED
    BY <2>1, <2>2, <2>3 DEF Closing
<1> QED
  BY <1>1, <1>2, <1>3 DEF Closes

\* The invariant is inductive.
LEMMA NextInv == Inv /\ [Next]_vars => Inv'
<1> SUFFICES ASSUME Inv, [Next]_vars PROVE Inv'
  OBVIOUS
<1>1. CASE Next
  BY <1>1, OpenSteps, CloseSteps, CallerSteps, AsyncSteps, ManagerSteps, DeletionSteps
  DEF Next
<1>2. CASE UNCHANGED vars
  BY <1>2 DEF vars, store, requests, Inv, Types, GlbExact, Order, Gone, Awake
<1> QED
  BY <1>1, <1>2

\* Every reachable state satisfies the invariant.
LEMMA Invariance == Spec => []Inv
<1>1. Init => Inv
  BY InitInv
<1>2. Inv /\ [Next]_vars => Inv'
  BY NextInv
<1> QED
  BY <1>1, <1>2, PTL DEF Spec

\* start_expiry and start_pool_delete are never between lock and unlock of glb_mtx
\* together, and no cleanup handler takes it from its owner, however the store is
\* opened and closed.
THEOREM GlbExactHolds == Spec => []GlbExact
<1>1. Inv => GlbExact
  BY DEF Inv
<1> QED
  BY <1>1, Invariance, PTL

\* While a block is full no thread of the asynchronous expiry sleeps, and while a
\* pool is in deletion the deletion thread does not.
THEOREM NoMissedWakeupHolds == Spec => []NoMissedWakeup
<1>1. Inv => NoMissedWakeup
  BY ScannersAssumption DEF Inv, Awake, NoMissedWakeup
<1> QED
  BY <1>1, Invariance, PTL
=============================================================================
