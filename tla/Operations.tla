----------------------------- MODULE Operations ------------------------------
(***************************************************************************)
(* The operations of the driver (driver/ops/): how each one is refused,    *)
(* started and completed on each backend, and what becomes of the things   *)
(* its payload carries: the caller's buffer, a descriptor the operation    *)
(* makes, a buffer the kernel selects from the pool.                       *)
(*                                                                         *)
(* An operation is a record of a small table: how it is started on each    *)
(* backend, the buffer it takes, what a refused submission does, and the   *)
(* steps of `complete`, in order.  Run interprets the steps, and the       *)
(* actions follow one call from submission to its end.                     *)
(***************************************************************************)
EXTENDS Naturals, Sequences
LOCAL INSTANCE SequencesExt

CONSTANTS Systems,      \* backends of the run
          Calls,        \* operations of the run
          Room          \* bytes the caller's buffer or a pool buffer holds

VARIABLE call

Systems3 == {"uring", "kqueue", "iocp"}
OnAll(x) == [s \in Systems3 |-> x]
Modes(u, k, i) == [uring |-> u, kqueue |-> k, iocp |-> i]

(***************************************************************************)
(* sqe         the kernel runs it from the submission queue                *)
(* ready       the system call is tried, and again when the handle is ready *)
(* connect     as ready, but readiness brings the result                   *)
(* job, value  a job of the blocking pool, returning a number or an object *)
(* overlapped  started at submission, ended by a packet                    *)
(* acceptex    overlapped, on a socket created at submission               *)
(***************************************************************************)
Readiness == Modes("sqe", "ready", "overlapped")
Offloaded == Modes("sqe", "job", "job")
Returning == Modes("sqe", "value", "value")

\* What happens when the submission is refused: the payload is dropped and the
\* caller gets an error, or it unwraps that error, or the buffer comes back.
Operation(mode, buffer, refused, complete) ==
  [mode |-> mode, buffer |-> buffer, makes |-> FALSE, refused |-> refused,
   complete |-> complete]

-----------------------------------------------------------------------------
(* The table *)

\* complete of Accept.  Claiming comes before anything that can fail.
\* Fault: the descriptor becomes a Socket only once the address is parsed.
AcceptUringLate == <<"result", "address", "claim", "attach", "flags">>

AcceptUring == <<"result", "claim", "attach", "flags", "address">>
AcceptKqueue == <<"result", "take", "attach", "flags", "address">>
AcceptIocp == <<"result", "context", "address", "take", "attach">>
AcceptOp ==
  [Operation(Modes("sqe", "ready", "acceptex"), "none", "error",
             [uring |-> AcceptUring, kqueue |-> AcceptKqueue, iocp |-> AcceptIocp])
     EXCEPT !.makes = TRUE]

OpenOp ==
  [Operation(Returning, "none", "error",
             [uring |-> <<"result", "claim", "attach">>, kqueue |-> <<"value", "attach">>,
              iocp |-> <<"value", "attach">>]) EXCEPT !.makes = TRUE]

ConnectIocp == <<"result", "context">>
ConnectOp == Operation(Modes("sqe", "connect", "overlapped"), "none", "error",
                       [uring |-> <<"result">>, kqueue |-> <<"result">>, iocp |-> ConnectIocp])

\* Reads: bytes_transferred checks the count before set_len.
ReadFinish == <<"fits", "setlen">>
ReadOp == Operation(Readiness, "read", "panic", OnAll(ReadFinish))
WriteOp == Operation(Readiness, "write", "panic", OnAll(<<"result">>))
ReadAtOp == Operation(Modes("sqe", "job", "overlapped"), "read", "panic", OnAll(<<"fits", "setlen">>))
WriteAtOp == Operation(Modes("sqe", "job", "overlapped"), "write", "panic", OnAll(<<"result">>))
ReadvOp == Operation(Modes("sqe", "job", "absent"), "read", "panic", OnAll(<<"fits", "setlen">>))
WritevOp == Operation(Modes("sqe", "job", "absent"), "write", "panic", OnAll(<<"result">>))

RecvOp == Operation(Readiness, "read", "return", OnAll(<<"fits", "setlen">>))
SendOp == Operation(Readiness, "write", "return", OnAll(<<"result">>))
SendToOp == Operation(Readiness, "write", "return", OnAll(<<"result">>))
SendMsgOp == Operation(Readiness, "write", "return", OnAll(<<"result">>))
RecvFromFinish == <<"fits", "address", "setlen">>
RecvFromOp == Operation(Readiness, "read", "return", OnAll(RecvFromFinish))
RecvMsgFinish == <<"fits", "address", "setlen">>
RecvMsgOp == Operation(Readiness, "read", "return", OnAll(RecvMsgFinish))

\* Receives into a buffer the kernel selects; io_uring only.
RecvManagedOp == Operation(Modes("sqe", "absent", "absent"), "pool", "error",
                           OnAll(<<"recycle", "eof", "selected", "lease", "setlen">>))
RecvFromManagedOp == Operation(Modes("sqe", "absent", "absent"), "pool", "error",
                               OnAll(<<"recycle", "selected", "lease", "clip", "address">>))

CreateDirOp == Operation(Offloaded, "none", "error", OnAll(<<"result">>))
HardLinkOp == Operation(Offloaded, "none", "error", OnAll(<<"result">>))
RenameOp == Operation(Offloaded, "none", "error", OnAll(<<"result">>))
SymlinkOp == Operation(Offloaded, "none", "error", OnAll(<<"result">>))
UnlinkOp == Operation(Offloaded, "none", "error", OnAll(<<"result">>))
SyncOp == Operation(Offloaded, "none", "error", OnAll(<<"result">>))
TruncateOp == Operation(Offloaded, "none", "error", OnAll(<<"result">>))
SetPermissionsOp == Operation(Modes("absent", "job", "job"), "none", "error", OnAll(<<"result">>))
StatOp == Operation(Returning, "none", "error",
                    [uring |-> <<"result">>, kqueue |-> <<"value">>, iocp |-> <<"value">>])
PathStatOp == Operation(Modes("sqe", "value", "absent"), "none", "error",
                        [uring |-> <<"result">>, kqueue |-> <<"value">>, iocp |-> <<"value">>])

Table ==
  [accept |-> AcceptOp, open |-> OpenOp, connect |-> ConnectOp, read |-> ReadOp,
   write |-> WriteOp, read_at |-> ReadAtOp, write_at |-> WriteAtOp, readv |-> ReadvOp,
   writev |-> WritevOp, recv |-> RecvOp, send |-> SendOp, send_to |-> SendToOp,
   sendmsg |-> SendMsgOp, recv_from |-> RecvFromOp, recvmsg |-> RecvMsgOp,
   recv_managed |-> RecvManagedOp, recv_from_managed |-> RecvFromManagedOp,
   create_dir |-> CreateDirOp, hardlink |-> HardLinkOp, rename |-> RenameOp,
   symlink |-> SymlinkOp, unlink |-> UnlinkOp, sync |-> SyncOp, truncate |-> TruncateOp,
   set_permissions |-> SetPermissionsOp, stat |-> StatOp, path_stat |-> PathStatOp]

Kind == Table[call.op]
Mode == Kind.mode[call.on]

CallInit ==
  \E o \in Calls, s \in Systems :
    /\ Table[o].mode[s] # "absent"
    /\ call = [op |-> o, on |-> s, phase |-> "call", awaited |-> TRUE, end |-> "none",
               buf |-> IF Table[o].buffer \in {"read", "write"} THEN "payload" ELSE "none",
               fd |-> "none", slot |-> "none", ok |-> FALSE, n |-> 0, wrote |-> 0, init |-> 0]

-----------------------------------------------------------------------------
(* complete, which consumes the payload and the completion *)

Failed(c) == [c EXCEPT !.end = "err"]
Claimed(c) == [c EXCEPT !.fd = "owned"]
MayFail(c) == {c, Failed(c)}

\* The outcomes of one step.
StepOutcomes(c, step) ==
  CASE step = "result" -> IF c.ok THEN {c} ELSE {Failed(c)}
    [] step = "fits" -> IF c.ok /\ c.n <= Room THEN {c} ELSE {Failed(c)}
    [] step = "value" -> IF ~c.ok THEN {Failed(c)}
                         ELSE IF c.fd = "boxed" THEN {Claimed(c)} ELSE {c}
    [] step \in {"claim", "take"} -> {Claimed(c)}
    [] step = "attach" -> IF c.on = "iocp" THEN MayFail(c) ELSE {c}
    [] step \in {"flags", "address", "context"} -> MayFail(c)
    [] step = "setlen" -> {[c EXCEPT !.init = c.n]}
    [] step = "clip" -> {[c EXCEPT !.init = IF c.n < Room THEN c.n ELSE Room]}
    [] step = "recycle" -> IF c.ok THEN {c}
                           ELSE {Failed([c EXCEPT !.slot = IF @ = "selected" THEN "free" ELSE @])}
    [] step = "eof" -> IF c.slot = "none" /\ c.n = 0 THEN {[c EXCEPT !.end = "ok"]} ELSE {c}
    [] step = "selected" -> IF c.slot = "none" THEN {Failed(c)} ELSE {c}
    [] step = "lease" -> {[c EXCEPT !.slot = "leased"], Failed([c EXCEPT !.slot = "closed"])}

Run(c, steps) ==
  LET After(cs, step) ==
        UNION {IF d.end = "none" THEN StepOutcomes(d, step) ELSE {d} : d \in cs}
      reached == FoldLeft(After, {c}, steps)
  IN {IF d.end = "none" THEN [d EXCEPT !.end = "ok"] ELSE d : d \in reached}

\* What is left when complete has returned: its result goes to the caller, or
\* is dropped with the payload if nobody awaits it.
Released(c) ==
  LET kept == c.awaited /\ c.end = "ok" IN
  [c EXCEPT !.phase = "ended",
            !.buf = IF @ # "payload" THEN @ ELSE IF c.awaited THEN "user" ELSE "dropped",
            !.fd = CASE @ = "owned" -> IF kept THEN "user" ELSE "closed"
                     [] @ \in {"payload", "boxed"} -> "closed"
                     [] @ = "raw" -> "leaked"
                     [] OTHER -> @,
            !.slot = CASE @ = "leased" -> IF kept THEN "user" ELSE "free"
                       [] @ = "selected" -> "leaked"
                       [] OTHER -> @]

Complete(c) == {Released(d) : d \in Run(c, Kind.complete[c.on])}

\* The payload is dropped without a completion; its Drop closes what it owns.
Discarded(c) == Released([c EXCEPT !.awaited = FALSE, !.end = "err"])

-----------------------------------------------------------------------------
(* What the system reports *)

\* A count can exceed the buffer for a truncated datagram (MSG_TRUNC); a
\* stream receive into a pool buffer reports what it copied.
Counts == IF Kind.buffer = "none" THEN {0}
          ELSE 0 .. (IF call.op = "recv_managed" THEN Room ELSE Room + 1)

Done(c) == [c EXCEPT !.phase = "done"]
Errors(c) ==
  {Done([c EXCEPT !.ok = FALSE])}
  \cup (IF Kind.buffer = "pool" THEN {Done([c EXCEPT !.ok = FALSE, !.slot = "selected"])} ELSE {})
Successes(c, fd) ==
  {Done([c EXCEPT !.ok = TRUE, !.n = n, !.wrote = IF n < Room THEN n ELSE Room,
                  !.fd = IF Kind.makes THEN fd ELSE @,
                  !.slot = IF Kind.buffer = "pool" /\ sel THEN "selected" ELSE @])
     : n \in Counts, sel \in BOOLEAN}
Reported(c, fd) == Errors(c) \cup Successes(c, fd)

-----------------------------------------------------------------------------
(* The life of a call *)

\* submit_op or try_submit_op fails: a bad argument, a cancelled scope, a full
\* table, a driver that is shutting down.
Refuse ==
  /\ call.phase = "call"
  /\ LET back == Kind.refused = "return" IN
     call' = [Discarded(call) EXCEPT
                !.awaited = TRUE,
                !.buf = IF call.buf = "payload" /\ back THEN "user" ELSE @,
                !.end = IF Kind.refused = "panic" THEN "panic" ELSE "err"]

\* The submission: io_uring queues the entry, IOCP starts an overlapped request
\* or fails it at once, and everything else waits for the first poll.
Submit ==
  /\ call.phase = "call"
  /\ call' \in CASE Mode = "sqe" -> {[call EXCEPT !.phase = "flying"]}
                 [] Mode = "overlapped" -> {[call EXCEPT !.phase = "flying"]} \cup Errors(call)
                 [] Mode = "acceptex" ->
                      LET made == [call EXCEPT !.fd = "payload"] IN
                      {[made EXCEPT !.phase = "flying"], Done(made), Done(call)}
                 [] OTHER -> {[call EXCEPT !.phase = "new"]}

\* The first poll, and each one after readiness: the system call is tried, or
\* the job offered to the blocking pool, which may refuse it.
Attempt ==
  /\ call.phase = "new"
  /\ call' \in {[call EXCEPT !.phase = "flying"]}
               \cup (IF Mode \in {"ready", "connect"} THEN Reported(call, "payload")
                     ELSE Errors(call))

\* The kernel, the pool or readiness brings the result.
Happens ==
  /\ call.phase = "flying"
  /\ call' \in CASE Mode = "ready" -> {[call EXCEPT !.phase = "new"]}
                 [] Mode = "value" -> Reported(call, "boxed")
                 [] Mode = "acceptex" -> Reported(call, "payload")
                 [] OTHER -> Reported(call, "raw")

\* cancel_op ends at once what neither the kernel nor the pool has.
Ours(c) == c.phase = "new" \/ (c.phase = "flying" /\ Mode \in {"ready", "connect"})

CancelCall ==
  /\ Ours(call)
  /\ call' = Done([call EXCEPT !.ok = FALSE])

\* poll_op of a completed operation.
PollDone ==
  /\ call.phase = "done" /\ call.awaited
  /\ call' \in Complete(call)

\* Op::drop: what is ours ends with it, a result that is there is cleaned up,
\* and anything else is detached.
DropCall ==
  /\ call.phase \in {"new", "flying", "done"} /\ call.awaited
  /\ call' \in IF Ours(call) THEN {Discarded(call)}
               ELSE IF call.phase = "done" THEN Complete([call EXCEPT !.awaited = FALSE])
               ELSE {[call EXCEPT !.awaited = FALSE]}

\* DeferredAction::Cleanup of a detached operation: complete, result dropped.
Cleanup ==
  /\ call.phase = "done" /\ ~call.awaited
  /\ call' \in Complete(call)

CallNext == Refuse \/ Submit \/ Attempt \/ Happens \/ CancelCall \/ PollDone \/ DropCall \/ Cleanup

-----------------------------------------------------------------------------
(* Properties *)

\* A descriptor made by accept or open, and a buffer selected by the kernel,
\* end with the caller of a successful call, closed, or back in the pool,
\* whichever step of complete fails and whenever the call is dropped; and
\* set_len never claims a byte the system did not write, also when it reports
\* more bytes than the buffer holds.
NothingLeaks ==
  call.phase = "ended" =>
    /\ call.fd \in {"none", "closed"} \cup (IF call.end = "ok" THEN {"user"} ELSE {})
    /\ call.slot \in {"none", "free", "closed"} \cup (IF call.end = "ok" THEN {"user"} ELSE {})
    /\ call.init <= call.wrote
=============================================================================
