----------------------------- MODULE BufferPool ------------------------------
(***************************************************************************)
(* NVM_KV_Buffer_Pool (util/kv_buffer_pool.cpp): a stack of buffers        *)
(* guarded by a mutex.  get_buf waits on a condition variable while the    *)
(* stack is empty, and replaces the buffer it would hand out by a larger   *)
(* one if that is too small; release_buf pushes a buffer and signals if    *)
(* the stack was empty.                                                    *)
(*                                                                         *)
(* Both functions hold the mutex from beginning to end, but for the wait:  *)
(* each stretch under the mutex is one step.  A buffer is an address and   *)
(* the size that goes with it in m_buffer_sizes, a vector pushed and       *)
(* popped together with m_buffers.  heap is what posix_memalign and free   *)
(* have made of the addresses.                                             *)
(*                                                                         *)
(* The callers are the operations of the store: each takes a buffer, works *)
(* and releases it; kv_batch_put takes one for each of its vectors before  *)
(* it releases all (MaxHeld).                                              *)
(***************************************************************************)
EXTENDS Naturals, Sequences, FiniteSets

CONSTANTS Threads,     \* the threads that use the pool
          NumBuffers,  \* buffers the pool is initialized with
          NumAddrs,    \* addresses the heap has
          Sizes,       \* sizes the callers ask for
          BufferLimit, \* size of the buffers the pool is initialized with
          MaxHeld      \* buffers a caller may hold at the same time

ASSUME BufferPoolAssumption ==
    /\ NumBuffers \in Nat \ {0}
    /\ NumAddrs \in Nat
    /\ NumBuffers <= NumAddrs
    /\ Sizes \subseteq Nat \ {0}
    /\ BufferLimit \in Nat \ {0}
    /\ MaxHeld \in Nat

VARIABLES
    m_buffers, \* the stack: the last buffer is handed out first
    heap,      \* size of the memory allocated at an address, 0 if none is
    sleeping,  \* threads blocked in pthread_cond_wait
    pc,        \* whether a thread is in get_buf
    want,      \* the size it asks for
    held       \* the buffers a thread got and did not release

vars == <<m_buffers, heap, sleeping, pc, want, held>>

Addrs == 1 .. NumAddrs
Buffers == [addr : Addrs, size : Nat]

TypeOK ==
    /\ m_buffers \in Seq(Buffers)
    /\ heap \in [Addrs -> Nat]
    /\ sleeping \in SUBSET {t \in Threads : pc[t] = "get_buf"}
    /\ pc \in [Threads -> {"idle", "get_buf"}]
    /\ want \in [Threads -> Sizes]
    /\ held \in [Threads -> SUBSET Buffers]

\* What initialize leaves.
Init ==
    /\ m_buffers = [i \in 1 .. NumBuffers |-> [addr |-> i, size |-> BufferLimit]]
    /\ heap = [a \in Addrs |-> IF a <= NumBuffers THEN BufferLimit ELSE 0]
    /\ sleeping = {}
    /\ pc = [t \in Threads |-> "idle"]
    /\ want \in [Threads -> Sizes]
    /\ held = [t \in Threads |-> {}]

Back == m_buffers[Len(m_buffers)]

PopBack == m_buffers' = SubSeq(m_buffers, 1, Len(m_buffers) - 1)

(***************************************************************************)
(* get_buf                                                                 *)
(***************************************************************************)
CallGetBuf(t, size) ==
    /\ pc[t] = "idle"
    /\ Cardinality(held[t]) < MaxHeld
    /\ pc' = [pc EXCEPT ![t] = "get_buf"]
    /\ want' = [want EXCEPT ![t] = size]
    /\ UNCHANGED <<m_buffers, heap, sleeping, held>>

\* The thread is in get_buf and not asleep: it has the mutex, or can take it.
InGetBuf(t) == pc[t] = "get_buf" /\ t \notin sleeping

Wait(t) ==
    /\ InGetBuf(t)
    /\ m_buffers = <<>>
    /\ sleeping' = sleeping \cup {t}
    /\ UNCHANGED <<m_buffers, heap, pc, want, held>>

\* get_buf returns buffer b to t.
Return(t, b) ==
    /\ pc' = [pc EXCEPT ![t] = "idle"]
    /\ held' = [held EXCEPT ![t] = @ \cup {b}]
    /\ UNCHANGED <<sleeping, want>>

\* Mutant: the buffer stays on the stack.
GetKept(t) ==
    /\ InGetBuf(t)
    /\ m_buffers # <<>>
    /\ Back.size >= want[t]
    /\ UNCHANGED <<m_buffers, heap>>
    /\ Return(t, Back)

GetBuf(t) ==
    /\ InGetBuf(t)
    /\ m_buffers # <<>>
    /\ Back.size >= want[t]
    /\ PopBack
    /\ UNCHANGED heap
    /\ Return(t, Back)

\* Mutant: the smaller buffer is not freed.
KeepSmaller(t, a) ==
    /\ InGetBuf(t)
    /\ m_buffers # <<>>
    /\ Back.size < want[t]
    /\ heap[a] = 0
    /\ heap' = [heap EXCEPT ![a] = want[t]]
    /\ PopBack
    /\ Return(t, [addr |-> a, size |-> want[t]])

\* The buffer at hand is too small: a larger one is allocated, at any address
\* that is free, and takes its place.
GetLarger(t, a) ==
    /\ InGetBuf(t)
    /\ m_buffers # <<>>
    /\ Back.size < want[t]
    /\ heap[a] = 0
    /\ heap' = [heap EXCEPT ![Back.addr] = 0, ![a] = want[t]]
    /\ PopBack
    /\ Return(t, [addr |-> a, size |-> want[t]])

\* The allocation fails: get_buf returns NULL and leaves the stack as it was.
OutOfMemory(t) ==
    /\ InGetBuf(t)
    /\ m_buffers # <<>>
    /\ Back.size < want[t]
    /\ pc' = [pc EXCEPT ![t] = "idle"]
    /\ UNCHANGED <<m_buffers, heap, sleeping, want, held>>

\* pthread_cond_wait may return without a signal.
SpuriousWakeup(t) ==
    /\ t \in sleeping
    /\ sleeping' = sleeping \ {t}
    /\ UNCHANGED <<m_buffers, heap, pc, want, held>>

(***************************************************************************)
(* release_buf                                                             *)
(***************************************************************************)
\* Mutant: whether the stack is empty is tested after the push, when it is not.
SignalNobody == UNCHANGED sleeping

\* One sleeper, if there is any, is woken when the stack was empty.
Signal ==
    IF m_buffers = <<>> /\ sleeping # {}
    THEN \E w \in sleeping : sleeping' = sleeping \ {w}
    ELSE UNCHANGED sleeping

ReleaseBuf(t, b) ==
    /\ pc[t] = "idle"
    /\ b \in held[t]
    /\ m_buffers' = Append(m_buffers, b)
    /\ held' = [held EXCEPT ![t] = @ \ {b}]
    /\ Signal
    /\ UNCHANGED <<heap, pc, want>>

Next ==
    \E t \in Threads :
        \/ \E size \in Sizes : CallGetBuf(t, size)
        \/ Wait(t)
        \/ GetBuf(t)
        \/ \E a \in Addrs : GetLarger(t, a)
        \/ OutOfMemory(t)
        \/ SpuriousWakeup(t)
        \/ \E b \in held[t] : ReleaseBuf(t, b)

Spec == Init /\ [][Next]_vars

(***************************************************************************)
(* Fairness: a thread in get_buf that is awake takes its next step, and a  *)
(* caller releases what it holds, as every operation of the store does at  *)
(* its end.  Nobody has to call, and no wakeup is spurious of necessity.   *)
(***************************************************************************)
Advance(t) ==
    \/ Wait(t)
    \/ GetBuf(t)
    \/ \E a \in Addrs : GetLarger(t, a)
    \/ OutOfMemory(t)

FairSpec ==
    /\ Spec
    /\ \A t \in Threads :
           /\ WF_vars(Advance(t))
           /\ WF_vars(\E b \in held[t] : ReleaseBuf(t, b))

(***************************************************************************)
(* Properties                                                              *)
(***************************************************************************)
\* A buffer has one user: an address is on the stack once, or with one caller
\* (get_buf pops what it returns; release_buf is called once for each get_buf).
OneUser ==
    /\ \A i, j \in DOMAIN m_buffers : m_buffers[i].addr = m_buffers[j].addr => i = j
    /\ \A t \in Threads : \A b \in held[t] :
           \A i \in DOMAIN m_buffers : m_buffers[i].addr # b.addr
    /\ \A t, u \in Threads : \A b \in held[t], c \in held[u] :
           b.addr = c.addr => t = u /\ b = c

\* The buffers on the stack and with callers.
Known ==
    {m_buffers[i] : i \in DOMAIN m_buffers} \cup UNION {held[t] : t \in Threads}

\* The memory of a buffer is allocated and has the size the pool and the
\* callers take it to have, and no other memory is allocated: get_buf frees
\* what it replaces, and the two vectors stay in step.
MemoryExact ==
    /\ \A b \in Known : b.size > 0 /\ heap[b.addr] = b.size
    /\ \A a \in Addrs : heap[a] > 0 => \E b \in Known : b.addr = a

\* A thread that waits in get_buf is woken, as long as no two wait at the same
\* time: the signal of the release that ends the emptiness of the stack is
\* enough for one.  (It is not for two: a second release does not signal.)
WaiterWakes ==
    [](Cardinality(sleeping) <= 1) =>
        \A t \in Threads : t \in sleeping ~> t \notin sleeping
=============================================================================
