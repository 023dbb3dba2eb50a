----------------------------- MODULE MultiStream -----------------------------
(***************************************************************************)
(* Multishot streams on io_uring: MultiOp (driver/ops.rs) with multishot   *)
(* accept and receive (driver/ops/accept_multi.rs, recv_multi.rs,          *)
(* recv_from_multi.rs) over the io_uring backend and the provided-buffer   *)
(* pool, from the first poll to the teardown of the runtime.               *)
(*                                                                         *)
(* What a stream hands out are resources: an accepted descriptor or a      *)
(* lease of a pool buffer.  Each has to be given back exactly once, by the *)
(* application, by the stream's cleanup or by the pool's end.              *)
(***************************************************************************)
EXTENDS Uring, BufferPool, FiniteSets

CONSTANTS Streams,     \* streams of the run
          Kinds,       \* what the streams may be: "recv", "accept" or "none"
          Limit,       \* pending_completion_limit of an accept stream
          Fds,         \* descriptors the kernel can open
          PoolSize,    \* buffer_pool_size of the runtime
          MaxCq        \* bound on completions waiting to be dispatched

ASSUME StreamAssumption ==
  Kinds \subseteq [Streams -> {"recv", "accept", "none"}] /\ CanCreatePool(PoolSize)

VARIABLES be,        \* the io_uring backend
          pool,      \* its buffer pool, created on first use
          kind,      \* what each stream is
          stream,    \* the MultiOp streams
          held,      \* resources the application holds
          open,      \* open descriptors
          frees,     \* how often the memory of each buffer was freed
          deferred,  \* DeferredActions not yet run
          closing    \* open, failed, draining, closed

vars == <<be, pool, kind, stream, held, open, frees, deferred, closing>>

Buf(n) == [kind |-> "buf", n |-> n]
Fd(n) == [kind |-> "fd", n |-> n]
Buffers == 0 .. PoolLength(PoolSize) - 1

NewMulti(st, key) == [st |-> st, key |-> key, waiting |-> FALSE]

Init ==
  /\ be = UringInit
  /\ pool = NoPool
  /\ stream = [s \in Streams |-> NewMulti("none", 0)]
  /\ kind \in Kinds
  /\ held = {}
  /\ open = {}
  /\ frees = [b \in Buffers |-> 0]
  /\ deferred = <<>>
  /\ closing = "open"

-----------------------------------------------------------------------------
(* Giving resources back *)

\* MultishotCleanup::discard, for the resources a backend call released.
GiveBack(acc, r) ==
  IF r.kind = "fd" THEN [acc EXCEPT !.open = @ \ {r.n}]
  ELSE [acc EXCEPT !.pool = RecycleSelected(@, r.n)]

Discarded(ids) == FoldLeft(GiveBack, [pool |-> pool, open |-> open], ids)

\* The wakes of a dispatch mark the streams they are for.
Woken(streams, actions) ==
  FoldLeft(LAMBDA f, a : [f EXCEPT ![a.op].waiting = FALSE], streams, actions)

\* The effects a backend call has besides its own result.
Effects(r, streams, ran) ==
  /\ pool' = Discarded(r.disc).pool
  /\ open' = Discarded(r.disc).open
  /\ stream' = Woken(streams, ran)

-----------------------------------------------------------------------------
(* MultiOp *)

\* recv_multi and accept_multi: the operation is deferred to the first poll;
\* a receive creates the buffer pool.
NewStream(s) ==
  /\ closing = "open" /\ stream[s].st = "none" /\ kind[s] # "none"
  /\ stream' = [stream EXCEPT ![s].st = "pending"]
  /\ pool' = IF kind[s] = "recv" /\ ~pool.root THEN NewPool(PoolSize) ELSE pool
  /\ UNCHANGED <<be, held, open, frees, deferred, closing>>

\* MultiOpNext::poll of a stream not yet submitted: start_multi_op, then the
\* first poll_multi_op.
StartStream(s) ==
  /\ closing = "open" /\ stream[s].st = "pending"
  /\ \E r \in USubmit(be, MultiEntry(s, IF kind[s] = "accept" THEN Limit ELSE None)) :
       IF r.key = 0
       THEN be' = r.b /\ Effects(r, [stream EXCEPT ![s].st = "ended"], r.ran)
       ELSE /\ be' = UPollMulti(r.b, r.key, s).b
            /\ Effects(r, [stream EXCEPT ![s] = [st |-> "active", key |-> r.key,
                                                 waiting |-> TRUE]], r.ran)
  /\ UNCHANGED <<held, frees, deferred, closing>>

\* What complete_item makes of a completion: a resource for the application,
\* an error item that returns a selected buffer, or None at end of file.  When
\* it fails on the resource it has taken (set_async_flags, parse_item), it drops
\* it: PollStream followed by ReleaseItem.
Takes(item) == item.res = "ok"

\* MultiOpNext::poll of an active stream.
PollStream(s) ==
  /\ closing = "open" /\ stream[s].st = "active" /\ ~stream[s].waiting
  /\ LET r == UPollMulti(be, stream[s].key, s)
         ended == [stream EXCEPT ![s] = NewMulti("ended", 0)]
     IN CASE r.out = None ->
               /\ be' = r.b
               /\ stream' = [stream EXCEPT ![s].waiting = TRUE]
               /\ UNCHANGED <<pool, held, open>>
          [] r.out = EndOfStream ->
               /\ be' = r.b
               /\ stream' = ended
               /\ UNCHANGED <<pool, held, open>>
          [] r.out # None /\ r.out.res = "eof" ->
               /\ \E c \in URemoveMulti(r.b, stream[s].key) :
                    be' = c.b /\ Effects(c, ended, c.ran)
               /\ UNCHANGED held
          [] r.out # None /\ Takes(r.out) ->
               /\ be' = r.b
               /\ held' = held \cup {r.out.id}
               /\ pool' = IF r.out.id.kind = "buf" THEN TakeBuf(pool, r.out.id.n) ELSE pool
               /\ UNCHANGED <<stream, open>>
          [] OTHER ->
               /\ be' = r.b
               /\ Effects([disc |-> Discard(<<r.out>>)], stream, <<>>)
               /\ UNCHANGED held
  /\ UNCHANGED <<frees, deferred, closing>>

\* MultiOp::drop; nothing to do when the driver is gone.
DropStream(s) ==
  /\ stream[s].st \in {"pending", "active"}
  /\ LET ended == [stream EXCEPT ![s] = NewMulti("ended", 0)]
     IN IF stream[s].st = "active" /\ closing \in {"open", "failed"}
        THEN \E c \in URemoveMulti(be, stream[s].key) :
               be' = c.b /\ Effects(c, ended, c.ran)
        ELSE /\ closing \in {"open", "failed", "closed"}
             /\ stream' = ended /\ UNCHANGED <<be, pool, open>>
  /\ UNCHANGED <<held, frees, deferred, closing>>

\* The application drops an item: a socket is closed; a lease goes back to
\* the pool, or frees its memory when the pool is gone.
ReleaseItem(r) ==
  /\ r \in held /\ held' = held \ {r}
  /\ IF r.kind = "fd" THEN open' = open \ {r.n} /\ UNCHANGED <<pool, frees>>
     ELSE /\ pool' = IF pool.root THEN ResetBuf(pool, r.n) ELSE pool
          /\ frees' = IF pool.root THEN frees ELSE [frees EXCEPT ![r.n] = @ + 1]
          /\ UNCHANGED open
  /\ UNCHANGED <<be, stream, deferred, closing>>

-----------------------------------------------------------------------------
(* The kernel *)

Cqe(r, res, more, id) == [raw |-> r.raw, op |-> r.op, res |-> res, more |-> more, id |-> id]

Produces(r, cqe) ==
  be' = [be EXCEPT !.cq = Append(@, cqe), !.run = IF cqe.more THEN @ ELSE @ \ {r}]

FreeFds == Fds \ open

\* A successful completion of a multishot request, which may be its last.
KernelDelivers(r, more) ==
  /\ r \in be.run /\ r.multi /\ Len(be.cq) < MaxCq
  /\ \/ /\ kind[r.op] = "recv" /\ KernelCanSelect(pool)
        /\ pool' = AfterSelect(pool)
        /\ Produces(r, Cqe(r, "ok", more, Buf(KernelSelects(pool))))
        /\ UNCHANGED open
     \/ /\ kind[r.op] = "accept" /\ FreeFds # {}
        /\ LET n == CHOOSE x \in FreeFds : \A y \in FreeFds : x <= y IN
           open' = open \cup {n} /\ Produces(r, Cqe(r, "ok", more, Fd(n)))
        /\ UNCHANGED pool
  /\ UNCHANGED <<stream, held, frees, deferred, closing>>

\* Its end: an error (ENOBUFS, ECANCELED and the rest), with a buffer already
\* selected or not, or end of file.
KernelEnds(r) ==
  /\ r \in be.run /\ Len(be.cq) < MaxCq
  /\ \/ /\ Produces(r, Cqe(r, "err", FALSE, None))
        /\ UNCHANGED pool
     \/ /\ r.multi /\ kind[r.op] = "recv" /\ KernelCanSelect(pool)
        /\ pool' = AfterSelect(pool)
        /\ Produces(r, Cqe(r, "err", FALSE, Buf(KernelSelects(pool))))
     \/ /\ r.multi /\ kind[r.op] = "recv"
        /\ Produces(r, Cqe(r, "eof", FALSE, None))
        /\ UNCHANGED pool
  /\ UNCHANGED <<stream, held, open, frees, deferred, closing>>

-----------------------------------------------------------------------------
(* The driver *)

Enter ==
  /\ be.sq # <<>> /\ closing \in {"open", "draining"} /\ deferred = <<>>
  /\ be' = Flush(be)
  /\ UNCHANGED <<pool, stream, held, open, frees, deferred, closing>>

Turn ==
  /\ closing = "open" /\ deferred = <<>> /\ be.cq # <<>>
  /\ \E d \in Dispatch(be) :
       /\ be' = d.b
       /\ deferred' = d.defer
       /\ Effects(d, stream, <<>>)
       /\ closing' = IF d.ok THEN closing ELSE "failed"
  /\ UNCHANGED <<held, frees>>

RunDeferred ==
  /\ deferred # <<>>
  /\ stream' = Woken(stream, <<Head(deferred)>>)
  /\ deferred' = Tail(deferred)
  /\ UNCHANGED <<be, pool, held, open, frees, closing>>

\* Once drained, the pool is released; a backend whose drain fails is dropped
\* with it, and nothing of the pool's memory is freed.
ReleasePool(unregistered) ==
  /\ pool' = [pool EXCEPT !.root = FALSE]
  /\ frees' = [b \in Buffers |-> IF pool.root /\ b \in Released(pool, unregistered)
                                 THEN frees[b] + 1 ELSE frees[b]]

Abandoned(b) == [b EXCEPT !.run = {}, !.sq = <<>>, !.cq = <<>>, !.table = Clear(@)]

Fail(r) ==
  LET d == Discarded(r.disc) IN
  /\ be' = Abandoned(r.b)
  /\ closing' = "closed"
  /\ pool' = [d.pool EXCEPT !.root = FALSE] /\ open' = d.open
  /\ UNCHANGED <<stream, frees>>

Shutdown ==
  /\ closing \in {"open", "failed"} /\ deferred = <<>>
  /\ \E r \in UShutdown(be) :
       IF r.ok THEN /\ be' = r.b /\ closing' = "draining"
                    /\ Effects(r, stream, r.ran) /\ UNCHANGED frees
       ELSE Fail(r)
  /\ UNCHANGED <<held, deferred>>

Drain ==
  /\ closing = "draining"
  /\ \/ /\ DrainWaits(be) /\ be.cq # <<>>
        /\ \E d \in Dispatch(be) :
             IF d.ok THEN /\ be' = d.b /\ Effects(d, stream, d.defer)
                          /\ UNCHANGED <<frees, closing>>
             ELSE Fail(d)
     \/ /\ DrainWaits(be)
        /\ \E w \in SubmitError(be) : Fail([b |-> w.b, disc |-> <<>>])
     \/ /\ ~DrainWaits(be) /\ ~IsEmpty(be.table)
        /\ be' = [be EXCEPT !.table = Remove(@, FirstKey(@))]
        /\ UNCHANGED <<pool, stream, open, frees, closing>>
     \/ /\ ~DrainWaits(be) /\ IsEmpty(be.table)
        /\ \E unregistered \in BOOLEAN : ReleasePool(unregistered)
        /\ closing' = "closed"
        /\ UNCHANGED <<be, stream, open>>
  /\ UNCHANGED <<held, deferred>>

Finished == closing = "closed" /\ UNCHANGED vars

Next ==
  /\ UNCHANGED kind
  /\ \/ \E s \in Streams : NewStream(s) \/ StartStream(s) \/ PollStream(s) \/ DropStream(s)
     \/ \E r \in held : ReleaseItem(r)
     \/ \E r \in be.run : (\E more \in BOOLEAN : KernelDelivers(r, more)) \/ KernelEnds(r)
     \/ Enter \/ Turn \/ RunDeferred \/ Shutdown \/ Drain \/ Finished

Spec == Init /\ [][Next]_vars

-----------------------------------------------------------------------------
(* Properties *)

EntryOf(s) == Get(be.table, stream[s].key)

\* Where a resource is, outside the ring and the kernel: in completions not
\* yet dispatched, staged in a stream, or with the application.
Staged(r) ==
  Cardinality({i \in DOMAIN be.cq : be.cq[i].id = r})
  + FoldLeft(LAMBDA n, k : n + Cardinality({i \in DOMAIN Get(be.table, k).pending :
                                              Get(be.table, k).pending[i].id = r}),
             0, InSlotOrder(be.table, {k \in LiveKeys(be.table) : Get(be.table, k).multi}))
  + (IF r \in held THEN 1 ELSE 0)

InRingTimes(b) ==
  Cardinality({i \in InRing(pool) : pool.ring[i % pool.len] = b})

\* Every open descriptor and every buffer is in exactly one place: none is
\* leaked when streams are dropped, overflow, end or are torn down, and none is
\* given back twice or offered to the kernel while the application holds it.
\* Only a ring the kernel refused to serve is closed with completions unread.
ResourcesAccounted ==
  /\ \A n \in Fds : LET k == Staged(Fd(n)) IN
       IF n \in open THEN k = 1 \/ (k = 0 /\ closing = "closed" /\ be.failed) ELSE k = 0
  /\ pool.root => \A b \in Buffers :
       /\ InRingTimes(b) + Staged(Buf(b)) = 1
       /\ pool.bufs[b] = (Buf(b) \notin held)

\* The memory of a buffer is freed at most once, and neither while the ring is
\* alive nor while the application holds a lease on it: a lease that outlives
\* the runtime frees its own.
FreedOnce ==
  \A b \in Buffers :
    frees[b] <= 1 /\ (pool.root \/ Buf(b) \in held => frees[b] = 0)

\* A stream that waits has nothing to be polled for, or its wakeup is on the
\* way, unless a failed submission took the wakeups of its batch with it.
NoLostWake ==
  \A s \in Streams :
    closing = "open" /\ stream[s].st = "active" /\ stream[s].waiting /\ ~be.failed
    /\ (EntryOf(s).pending # <<>> \/ EntryOf(s).st = "Finished")
      => \E i \in DOMAIN deferred : deferred[i].op = s

\* A stream that is stopped, because it overflowed or was dropped, is stopped
\* in the kernel too: its request was asked to end or has ended.
StopReachesKernel ==
  ~be.failed => \A k \in LiveKeys(be.table) :
    Get(be.table, k).multi /\ Get(be.table, k).st \in {"Stopping", "Cancelled"} =>
      \/ \A r \in be.run : r.raw = k => r.cancel
      \/ \E i \in DOMAIN be.sq : be.sq[i].do = "cancel" /\ be.sq[i].raw = k
=============================================================================
