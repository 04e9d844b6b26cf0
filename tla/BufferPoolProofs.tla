-------------------------- MODULE BufferPoolProofs ---------------------------
(***************************************************************************)
(* A buffer of the pool has one user, and the memory behind it is the one  *)
(* the pool takes it to be, for any number of threads, buffers and sizes.  *)
(***************************************************************************)
EXTENDS BufferPool, TLAPS

\* Neither invariant is inductive alone: a larger buffer is new because the
\* address it comes at belongs to no known buffer, and freeing the smaller one
\* takes no other buffer's memory because nobody else has it.
Inv == TypeOK /\ OneUser /\ MemoryExact

\* The initialized pool satisfies the invariant.
LEMMA InitInv == Init => Inv
<1> SUFFICES ASSUME Init PROVE Inv
  OBVIOUS
<1> USE BufferPoolAssumption DEF Init, Addrs, Buffers
<1>1. /\ Len(m_buffers) = NumBuffers
      /\ DOMAIN m_buffers = 1 .. NumBuffers
      /\ \A i \in 1 .. NumBuffers : m_buffers[i] = [addr |-> i, size |-> BufferLimit]
  OBVIOUS
<1>2. m_buffers \in Seq(Buffers)
  OBVIOUS
<1>3. TypeOK
  BY <1>2 DEF TypeOK
<1>4. OneUser
  BY <1>1 DEF OneUser
<1>5. \A b \in Known : b.size > 0 /\ heap[b.addr] = b.size
  BY <1>1 DEF Known
<1>6. ASSUME NEW a \in Addrs, heap[a] > 0 PROVE \E b \in Known : b.addr = a
  <2>1. a \in 1 .. NumBuffers
    BY <1>6
  <2> QED
    BY <1>1, <2>1 DEF Known
<1> QED
  BY <1>3, <1>4, <1>5, <1>6 DEF Inv, MemoryExact

\* What get_buf leaves of the stack, and what was on its top.
LEMMA Popped ==
    ASSUME TypeOK, m_buffers # <<>>, PopBack
    PROVE  /\ Len(m_buffers) \in Nat \ {0}
           /\ DOMAIN m_buffers = 1 .. Len(m_buffers)
           /\ Back \in Buffers
           /\ m_buffers' \in Seq(Buffers)
           /\ DOMAIN m_buffers' = 1 .. Len(m_buffers) - 1
           /\ \A i \in 1 .. Len(m_buffers) - 1 : m_buffers'[i] = m_buffers[i]
  BY DEF TypeOK, PopBack, Back

\* The state of the pool is unchanged by a step that moves no buffer.
LEMMA SameBuffers ==
    ASSUME Inv, UNCHANGED <<m_buffers, heap, held>>
    PROVE  OneUser' /\ MemoryExact'
  BY DEF Inv, OneUser, MemoryExact, Known

\* get_buf returns the buffer on top of the stack.
LEMMA GetBufStep ==
    ASSUME Inv, NEW t \in Threads, GetBuf(t) PROVE Inv'
<1> DEFINE n == Len(m_buffers)
           b == Back
<1>1. /\ n \in Nat \ {0}
      /\ DOMAIN m_buffers = 1 .. n
      /\ b \in Buffers /\ b = m_buffers[n]
      /\ m_buffers' \in Seq(Buffers)
      /\ DOMAIN m_buffers' = 1 .. n - 1
      /\ \A i \in 1 .. n - 1 : m_buffers'[i] = m_buffers[i]
  BY Popped DEF Inv, GetBuf, Back
<1>2. \A u \in Threads : held'[u] = IF u = t THEN held[t] \cup {b} ELSE held[u]
  BY DEF Inv, TypeOK, GetBuf, Return
<1>3. UNCHANGED heap
  BY DEF GetBuf
<1>4. TypeOK'
  BY <1>1 DEF Inv, TypeOK, GetBuf, InGetBuf, Return
<1>5. Known' = Known
  BY <1>1, <1>2 DEF Known
<1>6. MemoryExact'
  BY <1>3, <1>5 DEF Inv, MemoryExact
<1>7. OneUser'
  <2>1. \A i \in 1 .. n - 1 : m_buffers[i].addr # b.addr
    BY <1>1 DEF Inv, OneUser
  <2>2. \A u \in Threads : \A c \in held[u] : c.addr # b.addr
    BY <1>1 DEF Inv, OneUser
  <2>3. \A i, j \in DOMAIN m_buffers' : m_buffers'[i].addr = m_buffers'[j].addr => i = j
    BY <1>1 DEF Inv, OneUser
  <2>4. \A u \in Threads : \A c \in held'[u] :
            \A i \in DOMAIN m_buffers' : m_buffers'[i].addr # c.addr
    BY <1>1, <1>2, <2>1 DEF Inv, OneUser
  <2>5. \A u, v \in Threads : \A c \in held'[u], d \in held'[v] :
            c.addr = d.addr => u = v /\ c = d
    BY <1>2, <2>2 DEF Inv, OneUser
  <2> QED
    BY <2>3, <2>4, <2>5 DEF OneUser
<1> QED
  BY <1>4, <1>6, <1>7 DEF Inv

\* get_buf returns a new buffer and frees the one it replaces.
LEMMA GetLargerStep ==
    ASSUME Inv, NEW t \in Threads, NEW a \in Addrs, GetLarger(t, a) PROVE Inv'
<1> DEFINE n == Len(m_buffers)
           b == Back
           w == want[t]
           c == [addr |-> a, size |-> w]
<1>1. /\ n \in Nat \ {0}
      /\ DOMAIN m_buffers = 1 .. n
      /\ b \in Buffers /\ b = m_buffers[n]
      /\ m_buffers' \in Seq(Buffers)
      /\ DOMAIN m_buffers' = 1 .. n - 1
      /\ \A i \in 1 .. n - 1 : m_buffers'[i] = m_buffers[i]
  BY Popped DEF Inv, GetLarger, Back
<1>2. \A u \in Threads : held'[u] = IF u = t THEN held[t] \cup {c} ELSE held[u]
  BY DEF Inv, TypeOK, GetLarger, Return
<1>3. w \in Nat \ {0} /\ c \in Buffers /\ c.addr = a /\ c.size = w
  BY BufferPoolAssumption DEF Inv, TypeOK, Buffers
<1>4. heap[a] = 0 /\ b.addr \in Addrs /\ a # b.addr
  <2>1. b \in Known
    BY <1>1 DEF Known
  <2> QED
    BY <1>1, <2>1 DEF Inv, MemoryExact, GetLarger, Buffers
<1>5. \A x \in Addrs : heap'[x] = IF x = a THEN w ELSE IF x = b.addr THEN 0 ELSE heap[x]
  BY <1>4 DEF Inv, TypeOK, GetLarger
<1>6. TypeOK'
  <2>1. heap' \in [Addrs -> Nat]
    BY <1>3 DEF Inv, TypeOK, GetLarger
  <2>2. held' \in [Threads -> SUBSET Buffers]
    BY <1>3 DEF Inv, TypeOK, GetLarger, Return
  <2>3. pc' \in [Threads -> {"idle", "get_buf"}]
    BY DEF Inv, TypeOK, GetLarger, Return
  <2>4. sleeping' \in SUBSET {u \in Threads : pc'[u] = "get_buf"}
    BY DEF Inv, TypeOK, GetLarger, InGetBuf, Return
  <2>5. want' \in [Threads -> Sizes]
    BY DEF Inv, TypeOK, GetLarger, Return
  <2> QED
    BY <1>1, <2>1, <2>2, <2>3, <2>4, <2>5 DEF TypeOK
<1>7. \A x \in Known : x.addr # a
  BY <1>4 DEF Inv, MemoryExact
<1>8. \A i \in 1 .. n - 1 : m_buffers[i].addr # b.addr
  BY <1>1 DEF Inv, OneUser
<1>9. \A u \in Threads : \A d \in held[u] : d.addr # b.addr
  BY <1>1 DEF Inv, OneUser
<1>10. \A x \in Known' : x = c \/ (x \in Known /\ x.addr # b.addr)
  BY <1>1, <1>2, <1>8, <1>9 DEF Known
<1>11. \A x \in Known : x = b \/ x \in Known'
  BY <1>1, <1>2 DEF Known
<1>12. c \in Known'
  BY <1>2 DEF Known
<1>13. Known \subseteq Buffers
  BY DEF Known, Inv, TypeOK
<1>14. MemoryExact'
  <2>1. ASSUME NEW x \in Known' PROVE x.size > 0 /\ heap'[x.addr] = x.size
    <3>1. CASE x = c
      BY <1>3, <1>5, <3>1
    <3>2. CASE x \in Known /\ x.addr # b.addr
      <4>1. x.addr \in Addrs /\ x.addr # a
        BY <1>7, <1>13, <3>2 DEF Buffers
      <4>2. heap'[x.addr] = heap[x.addr]
        BY <1>5, <3>2, <4>1
      <4> QED
        BY <3>2, <4>2 DEF Inv, MemoryExact
    <3> QED
      BY <1>10, <3>1, <3>2
  <2>2. ASSUME NEW x \in Addrs, heap'[x] > 0 PROVE \E d \in Known' : d.addr = x
    <3>1. CASE x = a
      BY <1>3, <1>12, <3>1
    <3>2. CASE x # a
      <4>1. x # b.addr /\ heap[x] > 0
        BY <1>5, <2>2, <3>2
      <4>2. PICK d \in Known : d.addr = x
        BY <4>1 DEF Inv, MemoryExact
      <4> QED
        BY <1>11, <4>1, <4>2
    <3> QED
      BY <3>1, <3>2
  <2> QED
    BY <2>1, <2>2 DEF MemoryExact
<1>15. OneUser'
  <2>1. \A i, j \in DOMAIN m_buffers' : m_buffers'[i].addr = m_buffers'[j].addr => i = j
    BY <1>1 DEF Inv, OneUser
  <2>2. \A i \in 1 .. n - 1 : m_buffers[i].addr # a
    BY <1>1, <1>7 DEF Known
  <2>3. \A u \in Threads : \A d \in held[u] : d.addr # a
    BY <1>7 DEF Known
  <2>4. \A u \in Threads : \A d \in held'[u] :
            \A i \in DOMAIN m_buffers' : m_buffers'[i].addr # d.addr
    BY <1>1, <1>2, <1>3, <2>2 DEF Inv, OneUser
  <2>5. \A u, v \in Threads : \A d \in held'[u], e \in held'[v] :
            d.addr = e.addr => u = v /\ d = e
    BY <1>2, <1>3, <2>3 DEF Inv, OneUser
  <2> QED
    BY <2>1, <2>4, <2>5 DEF OneUser
<1> QED
  BY <1>6, <1>14, <1>15 DEF Inv

\* release_buf puts a buffer of the caller on the stack.
LEMMA ReleaseBufStep ==
    ASSUME Inv, NEW t \in Threads, NEW b \in held[t], ReleaseBuf(t, b) PROVE Inv'
<1> DEFINE n == Len(m_buffers)
<1>1. b \in Buffers /\ m_buffers \in Seq(Buffers)
  BY DEF Inv, TypeOK
<1>2. /\ n \in Nat
      /\ DOMAIN m_buffers = 1 .. n
      /\ m_buffers' \in Seq(Buffers)
      /\ DOMAIN m_buffers' = 1 .. n + 1
      /\ m_buffers'[n + 1] = b
      /\ \A i \in 1 .. n : m_buffers'[i] = m_buffers[i]
  BY <1>1 DEF ReleaseBuf
<1>3. \A u \in Threads : held'[u] = IF u = t THEN held[t] \ {b} ELSE held[u]
  BY DEF Inv, TypeOK, ReleaseBuf
<1>4. UNCHANGED <<heap, pc, want>>
  BY DEF ReleaseBuf
<1>5. TypeOK'
  <2>1. sleeping' \subseteq sleeping
    BY DEF ReleaseBuf, Signal
  <2>2. held' \in [Threads -> SUBSET Buffers]
    BY DEF Inv, TypeOK, ReleaseBuf
  <2> QED
    BY <1>2, <1>4, <2>1, <2>2 DEF Inv, TypeOK
<1>6. Known' = Known
  <2>1. Known' \subseteq Known
    BY <1>2, <1>3 DEF Known
  <2>2. Known \subseteq Known'
    BY <1>2, <1>3 DEF Known
  <2> QED
    BY <2>1, <2>2
<1>7. MemoryExact'
  BY <1>4, <1>6 DEF Inv, MemoryExact
<1>8. OneUser'
  <2>1. \A i \in 1 .. n : m_buffers[i].addr # b.addr
    BY <1>2 DEF Inv, OneUser
  <2>2. \A i, j \in DOMAIN m_buffers' : m_buffers'[i].addr = m_buffers'[j].addr => i = j
    BY <1>2, <2>1 DEF Inv, OneUser
  <2>3. \A u \in Threads : \A c \in held'[u] : c \in held[u] /\ c.addr # b.addr
    BY <1>3 DEF Inv, OneUser
  <2>4. \A u \in Threads : \A c \in held'[u] :
            \A i \in DOMAIN m_buffers' : m_buffers'[i].addr # c.addr
    BY <1>2, <2>3 DEF Inv, OneUser
  <2>5. \A u, v \in Threads : \A c \in held'[u], d \in held'[v] :
            c.addr = d.addr => u = v /\ c = d
    BY <2>3 DEF Inv, OneUser
  <2> QED
    BY <2>2, <2>4, <2>5 DEF OneUser
<1> QED
  BY <1>5, <1>7, <1>8 DEF Inv

\* Every step of the pool and of its callers preserves the invariant.
LEMMA NextInv == Inv /\ [Next]_vars => Inv'
<1> SUFFICES ASSUME Inv, [Next]_vars PROVE Inv'
  OBVIOUS
<1>1. ASSUME NEW t \in Threads, NEW size \in Sizes, CallGetBuf(t, size) PROVE Inv'
  <2>1. TypeOK'
    BY <1>1 DEF Inv, TypeOK, CallGetBuf
  <2>2. UNCHANGED <<m_buffers, heap, held>>
    BY <1>1 DEF CallGetBuf
  <2> QED
    BY <2>1, <2>2, SameBuffers DEF Inv
<1>2. ASSUME NEW t \in Threads, Wait(t) \/ OutOfMemory(t) \/ SpuriousWakeup(t) PROVE Inv'
  <2>1. TypeOK'
    BY <1>2 DEF Inv, TypeOK, Wait, OutOfMemory, SpuriousWakeup, InGetBuf
  <2>2. UNCHANGED <<m_buffers, heap, held>>
    BY <1>2 DEF Wait, OutOfMemory, SpuriousWakeup
  <2> QED
    BY <2>1, <2>2, SameBuffers DEF Inv
<1>3. ASSUME NEW t \in Threads, GetBuf(t) PROVE Inv'
  BY <1>3, GetBufStep
<1>4. ASSUME NEW t \in Threads, NEW a \in Addrs, GetLarger(t, a) PROVE Inv'
  BY <1>4, GetLargerStep
<1>5. ASSUME NEW t \in Threads, NEW b \in held[t], ReleaseBuf(t, b) PROVE Inv'
  BY <1>5, ReleaseBufStep
<1>6. CASE UNCHANGED vars
  <2>1. TypeOK'
    BY <1>6 DEF Inv, TypeOK, vars
  <2>2. UNCHANGED <<m_buffers, heap, held>>
    BY <1>6 DEF vars
  <2> QED
    BY <2>1, <2>2, SameBuffers DEF Inv
<1> QED
  BY <1>1, <1>2, <1>3, <1>4, <1>5, <1>6 DEF Next

\* The invariant holds of every state of the pool.
LEMMA Invariance == Spec => []Inv
  BY InitInv, NextInv, PTL DEF Spec

\* Types: the stack and the callers have buffers only, and every sleeper is
\* in get_buf.
THEOREM TypeCorrect == Spec => []TypeOK
<1>1. Inv => TypeOK
  BY DEF Inv
<1> QED
  BY <1>1, Invariance, PTL

\* get_buf never hands out a buffer that another caller has, and the stack
\* has none twice.
THEOREM OneUserHolds == Spec => []OneUser
<1>1. Inv => OneUser
  BY DEF Inv
<1> QED
  BY <1>1, Invariance, PTL

\* No buffer is leaked, freed while in use, or taken for another size when
\* get_buf replaces one by a larger.
THEOREM MemoryExactHolds == Spec => []MemoryExact
<1>1. Inv => MemoryExact
  BY DEF Inv
<1> QED
  BY <1>1, Invariance, PTL
=============================================================================
