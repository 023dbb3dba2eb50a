----------------------------- MODULE BufferPool ------------------------------
(***************************************************************************)
(* The provided-buffer pool of the io_uring backend (buf/pool.rs), as      *)
(* operators on a value                                                    *)
(*                                                                         *)
(*   [len |-> entries of the ring, ring |-> their buffer ids,              *)
(*    tail |-> the index userspace publishes, head |-> the kernel's,       *)
(*    bufs |-> slot table: TRUE for Some, FALSE while the buffer is leased, *)
(*    root |-> the pool is alive]                                          *)
(*                                                                         *)
(* Head and tail are words of PoolWord values (2^16) that wrap around; an  *)
(* index is their remainder by the length of the ring.                     *)
(***************************************************************************)
EXTENDS Naturals

CONSTANTS PoolWord,      \* values of the ring's indices
          MaxEntries     \* MAX_BUFFER_RING_ENTRIES

ASSUME PoolAssumption ==
  /\ PoolWord \in Nat /\ MaxEntries \in Nat \ {0} /\ MaxEntries < PoolWord
  /\ PoolWord \in {2 ^ k : k \in 0 .. PoolWord}
  /\ MaxEntries \in {2 ^ k : k \in 0 .. MaxEntries}

\* next_power_of_two, as the kernel requires of a ring.
NextPowerOfTwo(n) ==
  CHOOSE p \in 1 .. MaxEntries :
    /\ p \in {2 ^ k : k \in 0 .. MaxEntries} /\ p >= n
    /\ \A q \in {2 ^ k : k \in 0 .. MaxEntries} : q >= n => p <= q

\* BufferPoolRoot::new refuses more entries than the kernel takes; zero asks
\* for one.
CanCreatePool(requested) == requested <= MaxEntries

PoolLength(requested) == NextPowerOfTwo(IF requested = 0 THEN 1 ELSE requested)

\* BufRing::register adds every buffer and publishes them together.
NewPool(requested) ==
  LET n == PoolLength(requested) IN
  [len |-> n, ring |-> [i \in 0 .. n - 1 |-> i], tail |-> n % PoolWord, head |-> 0,
   bufs |-> [i \in 0 .. n - 1 |-> TRUE], root |-> TRUE]

NoPool == [len |-> 0, ring |-> <<>>, tail |-> 0, head |-> 0, bufs |-> <<>>, root |-> FALSE]

-----------------------------------------------------------------------------
\* The kernel selects the buffer at its head.
KernelCanSelect(p) == p.root /\ p.head # p.tail
KernelSelects(p) == p.ring[p.head % p.len]
AfterSelect(p) == [p EXCEPT !.head = (@ + 1) % PoolWord]

\* Shared::take
TakeBuf(p, bid) == [p EXCEPT !.bufs[bid] = FALSE]

\* BufRing::add_buffer at the tail, then commit(1).
ResetBuffer(p, bid) ==
  [p EXCEPT !.ring[p.tail % p.len] = bid, !.tail = (@ + 1) % PoolWord]

\* Shared::reset
ResetBuf(p, bid) == [ResetBuffer(p, bid) EXCEPT !.bufs[bid] = TRUE]

\* BufferPool::reset, used by recycle_selected: only a buffer that is not
\* leased goes back.
RecycleSelected(p, bid) == IF p.bufs[bid] THEN ResetBuf(TakeBuf(p, bid), bid) ELSE p

\* Buffers between head and tail: what the kernel may select next.
InRing(p) ==
  {i \in 0 .. PoolWord - 1 :
     IF p.head <= p.tail THEN p.head <= i /\ i < p.tail ELSE i >= p.head \/ i < p.tail}

\* Fault: leased buffers are freed too.
ReleasedAll(p, unregistered) == IF unregistered THEN DOMAIN p.bufs ELSE {}

\* BufferPoolRoot::release frees what is not leased once the ring is
\* unregistered; a ring that stays registered keeps all its memory.
Released(p, unregistered) ==
  IF unregistered THEN {b \in DOMAIN p.bufs : p.bufs[b]} ELSE {}
=============================================================================
