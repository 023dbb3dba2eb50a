--------------------------------- MODULE Tls ---------------------------------
(***************************************************************************)
(* TLS streams (tls/engine.rs, tls/split.rs): a Rustls connection driven    *)
(* over a transport, whole (Engine: one operation at a time) or split into *)
(* halves whose operations interleave at their awaits.  Each direction has *)
(* a sticky state; an operation on the transport that is dropped, fails or *)
(* is cancelled leaves the wire in an unknown place and ends both.         *)
(*                                                                         *)
(* Bytes are units: what Rustls produces is numbered in order, what the    *)
(* peer sends is a position of its script.  Rustls itself is external.     *)
(***************************************************************************)
EXTENDS Naturals, Sequences

CONSTANTS PeerScripts,   \* what the peer may send, after which the transport ends
          OutCapacity,   \* units the output buffer holds (CIPHERTEXT_CAPACITY)
          MaxTlsCalls    \* bound: operations begun on each half

PeerUnits == {"hello", "data", "update", "close", "bad"}
ASSUME TlsAssumption == OutCapacity \in Nat \ {0} /\ PeerScripts \subseteq Seq(PeerUnits)

VARIABLES
  form,     \* the stream is an Engine, split, or no longer there
  sess,     \* Session: read_state and write_state
  rustls,   \* the Rustls connection
  adapter,  \* ciphertext read and not yet consumed, filled and not yet written
  op,       \* the future of each half; an Engine has one future at a time
  peer,     \* the peer's script, and how much of it the transport has handed over
  written,  \* units the transport accepted; FIN when its write side is shut
  delivered \* positions delivered to the reader; ended after Ok(0)

tlsVars == <<form, sess, rustls, adapter, op, peer, written, delivered>>

FIN == 0
Halves == {"r", "w"}
Failures == {"abandoned", "canceled", "io", "eof", "protocol"}
Awaits == {"t_read", "t_write", "t_flush", "t_shutdown"}

IdleOp(n) == [kind |-> "none", at |-> "idle", next |-> "none", processed |-> FALSE,
              saved |-> [read |-> "Open", write |-> "Open"], flying |-> <<>>, unit |-> 0,
              result |-> "none", calls |-> n]

\* A client has its hello ready; a server waits for one.
TlsInit ==
  /\ form = "engine"
  /\ sess = [read |-> "Open", write |-> "Open"]
  /\ \E hello \in {<<>>, <<1>>} :
       rustls = [plain |-> <<>>, queue |-> hello, made |-> Len(hello), update |-> FALSE,
                 handshaking |-> TRUE, closed |-> FALSE, eof |-> FALSE, broken |-> FALSE]
  /\ adapter = [input |-> <<>>, eof |-> FALSE, output |-> <<>>]
  /\ op = [h \in Halves |-> IF h = "r" THEN [IdleOp(0) EXCEPT !.kind = "handshake", !.at = "drain", !.next = "handshake"]
                            ELSE IdleOp(0)]
  /\ \E s \in PeerScripts : peer = [script |-> s, at |-> 0]
  /\ written = <<>>
  /\ delivered = [data |-> <<>>, ended |-> FALSE]

-----------------------------------------------------------------------------
(* Session *)

RecordReadFailure(s, f) == IF s.read \in Failures THEN s ELSE [s EXCEPT !.read = f]
RecordWriteFailure(s, f) ==
  IF s.write \in Failures \cup {"Closed"} THEN s ELSE [s EXCEPT !.write = f]

FailRead(s, f) == RecordReadFailure(s, f)
FailBoth(s, f) == RecordWriteFailure(RecordReadFailure(s, f), f)

FailProtocol(s) ==
  LET t == RecordReadFailure(s, "protocol") IN
  IF t.write \in Failures \cup {"Closed", "AlertPending"} THEN t
  ELSE [t EXCEPT !.write = "AlertPending"]

\* Fault: an abandoned operation ends only the direction that reads
AbandonReading(s) == RecordReadFailure(s, "abandoned")

\* begin_transport_io of an Engine, and AbandonGuard of a half.
Abandon(s) == FailBoth(s, "abandoned")

\* write_failure, and the failure it reports.
WriteFailed(s) == s.write \in Failures \cup {"AlertPending"}
WriteFailure(s) == IF s.write = "AlertPending" THEN "protocol" ELSE s.write

-----------------------------------------------------------------------------
(* Rustls *)

Queue(c) == [c EXCEPT !.queue = Append(@, c.made + 1), !.made = @ + 1]

\* One unit of the peer's script: nothing is processed past a close_notify or
\* an error, which queues an alert.
Packet(c, p) ==
  IF c.broken \/ c.closed THEN c
  ELSE CASE peer.script[p] = "hello" -> Queue([c EXCEPT !.handshaking = FALSE])
         [] peer.script[p] = "data" -> [c EXCEPT !.plain = Append(@, p)]
         [] peer.script[p] = "update" -> [c EXCEPT !.update = TRUE]
         [] peer.script[p] = "close" -> [c EXCEPT !.closed = TRUE]
         [] peer.script[p] = "bad" -> Queue([c EXCEPT !.broken = TRUE])
ProcessNewPackets(c, units) ==
  LET after[n \in 0 .. Len(units)] == IF n = 0 THEN c ELSE Packet(after[n - 1], units[n])
  IN after[Len(units)]

\* The writer is touched: a deferred KeyUpdate response becomes a record.
Touch(c) == IF c.update THEN Queue([c EXCEPT !.update = FALSE]) ELSE c

\* into_first_chunk
FirstChunk(c) ==
  IF c.plain # <<>> THEN "available"
  ELSE IF c.closed THEN "closed" ELSE IF c.eof THEN "eof" ELSE "would_block"

-----------------------------------------------------------------------------
(* Futures.  Code between two awaits is not interleaved with the other half. *)

Other(h) == CHOOSE g \in Halves : g # h
Runs(h, at) ==
  /\ op[h].at = at
  /\ op[Other(h)].at \in Awaits \cup {"idle"}

Goto(h, at) == op' = [op EXCEPT ![h].at = at]
GotoThen(h, at, next) == op' = [op EXCEPT ![h].at = at, ![h].next = next]
\* A handshake that fails drops the Engine with its future.
Returns(h, result) ==
  /\ op' = [op EXCEPT ![h] = [IdleOp(op[h].calls) EXCEPT !.kind = op[h].kind, !.unit = op[h].unit,
                                                         !.result = result]]
  /\ form' = IF op[h].kind = "handshake" /\ result # "ok" THEN "gone" ELSE form

\* An operation of the transport begins, and ends; what the Engine marked
\* abandoned meanwhile it restores.
BeginTransportIo(h, at, flying) ==
  /\ op' = [op EXCEPT ![h].at = at, ![h].saved = sess, ![h].flying = flying]
  /\ sess' = IF form = "engine" THEN Abandon(sess) ELSE sess
Finished(h) == IF form = "engine" THEN op[h].saved ELSE sess

\* drain_output is entered; a failed half sends nothing more.
EnterDrain(h, next) ==
  IF form = "split" /\ sess.write \in Failures THEN Returns(h, sess.write)
  ELSE /\ GotoThen(h, "drain", next)
       /\ UNCHANGED form

-----------------------------------------------------------------------------
(* drain_output, receive_tls *)

\* Nothing is left to write, or the Engine's write side is closed, or a half's
\* has failed.
NothingToWrite ==
  \/ adapter.output = <<>> /\ (rustls.queue = <<>> \/ (form = "split" /\ sess.write \in Failures))
  \/ form = "engine" /\ sess.write = "Closed"

\* fill_output, and the write it feeds.
DrainWrites(h) ==
  /\ Runs(h, "drain") /\ ~NothingToWrite
  /\ LET room == IF Len(rustls.queue) < OutCapacity THEN Len(rustls.queue) ELSE OutCapacity
         filled == IF adapter.output # <<>> THEN adapter.output ELSE SubSeq(rustls.queue, 1, room) IN
     /\ rustls' = IF adapter.output # <<>> THEN rustls
                  ELSE [rustls EXCEPT !.queue = SubSeq(@, room + 1, Len(@))]
     /\ adapter' = [adapter EXCEPT !.output = <<>>]
     /\ BeginTransportIo(h, "t_write", filled)
  /\ UNCHANGED <<form, peer, written, delivered>>

\* drain_output returns an error: a half reports the failure of the reader that
\* came first; a best-effort alert reports the protocol error.
DrainError(h, s, f) ==
  IF form = "split" /\ WriteFailed(s)
  THEN sess' = [s EXCEPT !.write = WriteFailure(s)] /\ Returns(h, WriteFailure(s))
  ELSE LET g == IF op[h].next = "alert" THEN "protocol" ELSE f IN
       sess' = FailBoth(s, g) /\ Returns(h, g)

\* The transport accepts part of the output, or fails having accepted some.
WriteDone(h) ==
  /\ Runs(h, "t_write")
  /\ \E n \in 0..Len(op[h].flying), result \in {"ok", "io", "canceled"} :
       /\ written' = written \o SubSeq(op[h].flying, 1, n)
       /\ IF result = "ok" /\ n > 0
          THEN /\ adapter' = [adapter EXCEPT !.output = SubSeq(op[h].flying, n + 1, Len(op[h].flying))]
               /\ sess' = Finished(h) /\ Goto(h, "drain") /\ UNCHANGED form
          ELSE /\ adapter' = [adapter EXCEPT !.output = op[h].flying]
               /\ DrainError(h, Finished(h), IF result = "ok" THEN "io" ELSE result)
  /\ UNCHANGED <<rustls, peer, delivered>>

\* receive_tls takes input it has, or waits for the transport.
Receive(h) ==
  /\ Runs(h, "receive")
  /\ IF adapter.input # <<>>
     THEN Goto(h, "process") /\ UNCHANGED sess
     ELSE BeginTransportIo(h, "t_read", <<>>)
  /\ UNCHANGED <<form, rustls, adapter, peer, written, delivered>>

Positions(n) == [i \in 1..n |-> peer.at + i]

ReadDone(h) ==
  /\ Runs(h, "t_read")
  /\ \/ \E n \in 0..(Len(peer.script) - peer.at) :
          /\ n = 0 => peer.at = Len(peer.script)
          /\ adapter' = [adapter EXCEPT !.input = Positions(n), !.eof = (n = 0)]
          /\ peer' = [peer EXCEPT !.at = @ + n]
          /\ sess' = Finished(h) /\ Goto(h, "process") /\ UNCHANGED form
     \/ \E f \in {"io", "canceled"} :
          /\ sess' = IF f = "canceled" THEN FailBoth(Finished(h), f) ELSE FailRead(Finished(h), f)
          /\ Returns(h, f)
          /\ UNCHANGED <<adapter, peer>>
  /\ UNCHANGED <<rustls, written, delivered>>

\* An error of Rustls's buffers; an Engine keeps its states.
ProcessError(h) ==
  /\ sess' = IF form = "split" THEN FailBoth(sess, "io") ELSE sess
  /\ Returns(h, "io")

\* read_tls takes some of the input, none after a close_notify; then
\* process_new_packets, and the empty write that materializes a KeyUpdate
\* response, which may fail.  An Engine sends what that made before it goes on;
\* a half leaves it to the write half.
Process(h) ==
  /\ Runs(h, "process")
  /\ \E n \in 0..Len(adapter.input) :
       /\ (n = 0) = (adapter.input = <<>> \/ rustls.closed)
       /\ LET fed == [rustls EXCEPT !.eof = @ \/ adapter.input = <<>>]
              now == ProcessNewPackets(fed, SubSeq(adapter.input, 1, n)) IN
          /\ adapter' = [adapter EXCEPT !.input = IF n = 0 THEN <<>> ELSE SubSeq(@, n + 1, Len(@))]
          /\ IF now.broken
             THEN /\ rustls' = now
                  /\ IF form = "split"
                     THEN sess' = FailProtocol(sess) /\ Returns(h, "protocol")
                     ELSE /\ GotoThen(h, "drain", "alert")
                          /\ UNCHANGED <<sess, form>>
             ELSE \/ /\ rustls' = Touch(now)
                     /\ op' = [op EXCEPT ![h].processed = TRUE,
                                         ![h].at = IF form = "split" THEN "plain" ELSE "drain",
                                         ![h].next = IF op[h].kind = "handshake" THEN "handshake" ELSE "plain"]
                     /\ UNCHANGED <<sess, form>>
                  \/ rustls' = now /\ ProcessError(h)
  /\ UNCHANGED <<peer, written, delivered>>

\* read_tls fails, and takes nothing.
ProcessFails(h) ==
  /\ Runs(h, "process")
  /\ ProcessError(h)
  /\ UNCHANGED <<rustls, adapter, peer, written, delivered>>

-----------------------------------------------------------------------------
(* read, and the wait for plaintext *)

MayCall(h) ==
  /\ form \in {"engine", "split"}
  /\ \A g \in Halves : op[g].at \in (IF form = "split" /\ g # h THEN {"idle"} \cup Awaits ELSE {"idle"})
  /\ op[h].kind # "dropped"
  /\ op[h].calls < MaxTlsCalls
Begun(h, kind) == [IdleOp(op[h].calls + 1) EXCEPT !.kind = kind, !.at = "call"]

CallRead ==
  /\ MayCall("r")
  /\ op' = [op EXCEPT !["r"] = [Begun("r", "read") EXCEPT !.at = "plain"]]
  /\ UNCHANGED <<form, sess, rustls, adapter, peer, written, delivered>>

\* Fault: the end of the transport is taken for the end of the stream
EndOfEof(chunk) == IF chunk \in {"closed", "eof"} THEN "PeerClosed" ELSE "Failed"

\* plaintext_state once there is nothing left to read
EndOf(chunk) == IF chunk = "closed" THEN "PeerClosed" ELSE "Failed"

\* plaintext_state, copy_plaintext into a buffer of one or two units, or the
\* next round of the wait.
Plaintext(h) ==
  /\ Runs(h, "plain")
  /\ LET chunk == FirstChunk(rustls) IN
     CASE sess.read \in Failures -> Returns(h, sess.read) /\ UNCHANGED <<sess, rustls, delivered>>
       [] sess.read = "PeerClosed" ->
            Returns(h, "end") /\ delivered' = [delivered EXCEPT !.ended = TRUE] /\ UNCHANGED <<sess, rustls>>
       [] sess.read = "Open" /\ chunk = "available" ->
            \E capacity \in {1, 2} :
              LET n == IF capacity < Len(rustls.plain) THEN capacity ELSE Len(rustls.plain)
                  left == [rustls EXCEPT !.plain = SubSeq(@, n + 1, Len(@))] IN
              /\ rustls' = left
              /\ delivered' = [delivered EXCEPT !.data = @ \o SubSeq(rustls.plain, 1, n)]
              /\ sess' = IF n < capacity /\ FirstChunk(left) = "closed"
                         THEN [sess EXCEPT !.read = "PeerClosed"] ELSE sess
              /\ Returns(h, "ok")
       [] sess.read = "Open" /\ chunk \in {"closed", "eof"} ->
            /\ IF EndOf(chunk) = "PeerClosed"
               THEN /\ sess' = [sess EXCEPT !.read = "PeerClosed"]
                    /\ delivered' = [delivered EXCEPT !.ended = TRUE]
                    /\ Returns(h, "end")
               ELSE sess' = FailRead(sess, "eof") /\ Returns(h, "eof") /\ UNCHANGED delivered
            /\ UNCHANGED rustls
       [] OTHER ->
            /\ IF form = "engine" /\ ~op[h].processed THEN GotoThen(h, "drain", "wait")
               ELSE Goto(h, "wait")
            /\ UNCHANGED <<form, sess, rustls, delivered>>
  /\ UNCHANGED <<adapter, peer, written>>

\* Nothing more will come from the transport, or a batch is received.
WaitForPlaintext(h) ==
  /\ Runs(h, "wait")
  /\ IF adapter.eof THEN sess' = FailRead(sess, "eof") /\ Returns(h, "eof")
     ELSE Goto(h, "receive") /\ UNCHANGED <<form, sess>>
  /\ UNCHANGED <<rustls, adapter, peer, written, delivered>>

-----------------------------------------------------------------------------
(* write, flush, shutdown *)

SendCloseNotify ==
  IF sess.write = "Open"
  THEN sess' = [sess EXCEPT !.write = "Closing"] /\ rustls' = Queue(rustls)
  ELSE UNCHANGED <<sess, rustls>>

\* The checks at entry.  An Engine refuses at once; a half drains first, which
\* sends a pending alert.
CallWriter(kind) ==
  /\ MayCall("w")
  /\ op' = [op EXCEPT !["w"] = Begun("w", kind)]
  /\ UNCHANGED <<form, sess, rustls, adapter, peer, written, delivered>>

EnterWriter ==
  LET kind == op["w"].kind IN
  /\ Runs("w", "call")
  /\ IF sess.write = "Closed"
     THEN Returns("w", IF kind = "write" THEN "broken_pipe" ELSE "ok") /\ UNCHANGED <<sess, rustls>>
     ELSE IF form = "engine" /\ WriteFailed(sess)
     THEN Returns("w", WriteFailure(sess)) /\ UNCHANGED <<sess, rustls>>
     ELSE IF form = "engine" /\ kind = "write" /\ sess.write = "Closing"
     THEN Returns("w", "broken_pipe") /\ UNCHANGED <<sess, rustls>>
     ELSE IF form = "engine" /\ kind = "shutdown"
     THEN SendCloseNotify /\ EnterDrain("w", "flush")
     ELSE EnterDrain("w", kind) /\ UNCHANGED <<sess, rustls>>
  /\ UNCHANGED <<adapter, peer, written, delivered>>

\* What follows a drain that left nothing to write.
AfterDrain(h) ==
  CASE op[h].next = "handshake" ->
         /\ IF ~rustls.handshaking THEN Returns(h, "ok")
            ELSE IF adapter.eof THEN Returns(h, "eof")
            ELSE Goto(h, "receive") /\ UNCHANGED form
         /\ UNCHANGED <<sess, rustls>>
    [] op[h].next = "alert" -> sess' = FailBoth(sess, "protocol") /\ Returns(h, "protocol") /\ UNCHANGED rustls
    [] op[h].next \in {"plain", "wait"} -> Goto(h, op[h].next) /\ UNCHANGED <<form, sess, rustls>>
    [] op[h].next = "write" ->
         IF sess.write = "Closing" THEN Returns(h, "broken_pipe") /\ UNCHANGED <<sess, rustls>>
         ELSE \/ /\ rustls' = Queue(Touch(rustls))
                 /\ op' = [op EXCEPT ![h].next = "written", ![h].unit = rustls'.made]
                 /\ UNCHANGED <<form, sess>>
              \/ sess' = FailBoth(sess, "io") /\ Returns(h, "io") /\ UNCHANGED rustls
    [] op[h].next = "written" -> Returns(h, "ok") /\ UNCHANGED <<sess, rustls>>
    [] op[h].next = "shutdown" -> SendCloseNotify /\ GotoThen(h, "drain", "flush") /\ UNCHANGED form
    [] op[h].next = "flush" -> BeginTransportIo(h, "t_flush", <<>>) /\ UNCHANGED <<form, rustls>>

\* A half that drained an alert, or whose reader failed meanwhile, has failed.
DrainEnds(h) ==
  /\ Runs(h, "drain") /\ NothingToWrite
  /\ IF form = "split" /\ WriteFailed(sess)
     THEN DrainError(h, sess, "none") /\ UNCHANGED rustls
     ELSE AfterDrain(h)
  /\ UNCHANGED <<adapter, peer, written, delivered>>

FlushDone ==
  /\ Runs("w", "t_flush")
  /\ \E result \in {"ok", "io", "canceled"} :
       IF result # "ok"
       THEN sess' = FailBoth(Finished("w"), result) /\ Returns("w", result)
       ELSE /\ sess' = Finished("w")
            /\ IF form = "split" /\ WriteFailed(sess) THEN Returns("w", WriteFailure(sess))
               ELSE IF op["w"].kind = "flush" THEN Returns("w", "ok")
               ELSE Goto("w", "shut") /\ UNCHANGED form
  /\ UNCHANGED <<rustls, adapter, peer, written, delivered>>

Shut ==
  /\ Runs("w", "shut")
  /\ BeginTransportIo("w", "t_shutdown", <<>>)
  /\ UNCHANGED <<form, rustls, adapter, peer, written, delivered>>

\* The state set at the end is not checked against what the reader did meanwhile.
ShutdownDone ==
  /\ Runs("w", "t_shutdown")
  /\ \/ /\ sess' = [Finished("w") EXCEPT !.write = "Closed"]
        /\ written' = Append(written, FIN)
        /\ Returns("w", "ok")
     \/ \E f \in {"io", "canceled"}, end \in {<<>>, <<FIN>>} :
        /\ sess' = FailBoth(Finished("w"), f)
        /\ written' = written \o end
        /\ Returns("w", f)
  /\ UNCHANGED <<rustls, adapter, peer, delivered>>

-----------------------------------------------------------------------------
(* Dropped futures, split, reunion *)

\* The transport's operation may still happen; its buffer is gone.
DropFuture(h) ==
  /\ Runs(h, op[h].at) /\ op[h].at \in Awaits
  /\ \E n \in 0..Len(op[h].flying), m \in 0..(Len(peer.script) - peer.at), end \in {<<>>, <<FIN>>} :
       /\ op[h].at # "t_shutdown" => end = <<>>
       /\ op[h].at # "t_read" => m = 0
       /\ written' = written \o SubSeq(op[h].flying, 1, n) \o end
       /\ peer' = [peer EXCEPT !.at = @ + m]
  /\ sess' = IF form = "split" THEN Abandon(sess) ELSE sess
  /\ Returns(h, "dropped")
  /\ UNCHANGED <<rustls, adapter, delivered>>

Quiet == \A h \in Halves : op[h].at = "idle"

SplitStream ==
  /\ form = "engine" /\ Quiet
  /\ form' = "split"
  /\ UNCHANGED <<sess, rustls, adapter, op, peer, written, delivered>>

\* The transport may refuse, which gives the halves back as they were.
ReuniteHalves ==
  /\ form = "split" /\ Quiet /\ \A h \in Halves : op[h].kind # "dropped"
  /\ form' = "engine"
  /\ UNCHANGED <<sess, rustls, adapter, op, peer, written, delivered>>

DropHalf(h) ==
  /\ form = "split" /\ op[h].at = "idle" /\ op[h].kind # "dropped"
  /\ op[Other(h)].at \in Awaits \cup {"idle"}
  /\ op' = [op EXCEPT ![h].kind = "dropped"]
  /\ UNCHANGED <<form, sess, rustls, adapter, peer, written, delivered>>

\* into_parts, which fails after a failure; either way the stream is gone.
IntoParts ==
  /\ form = "engine" /\ Quiet
  /\ form' = "gone"
  /\ UNCHANGED <<sess, rustls, adapter, op, peer, written, delivered>>

TlsNext ==
  \/ \E h \in Halves : \/ DrainWrites(h) \/ WriteDone(h) \/ DrainEnds(h) \/ DropFuture(h) \/ DropHalf(h)
                       \/ Receive(h) \/ ReadDone(h) \/ Process(h) \/ ProcessFails(h) \/ Plaintext(h) \/ WaitForPlaintext(h)
  \/ CallRead \/ (\E kind \in {"write", "flush", "shutdown"} : CallWriter(kind))
  \/ EnterWriter \/ FlushDone \/ Shut \/ ShutdownDone
  \/ SplitStream \/ ReuniteHalves \/ IntoParts

-----------------------------------------------------------------------------
(* Properties *)

\* What reaches the transport is what Rustls produced, in order and once, and
\* nothing follows the end of the write side, whichever future was dropped,
\* cancelled or failed and whatever the halves did since; a write that returned
\* Ok has all of its records there (tls.rs:24-25, tls/engine.rs:231-246,
\* tls/split.rs:31-37, 367-448).
WireFaithful ==
  /\ \A i \in DOMAIN written : written[i] = i \/ (written[i] = FIN /\ i = Len(written))
  /\ \A h \in Halves : op[h].kind = "write" /\ op[h].result = "ok" =>
                         \E i \in DOMAIN written : written[i] = op[h].unit

\* The reader gets what the peer sent, in order and without a gap, and is told
\* of the end only after a close_notify and all that came before it
\* (tls.rs:31-34, tls/engine.rs:104-153).
PlaintextFaithful ==
  LET got == delivered.data
      Sent(n) == {k \in 1 .. n : peer.script[k] = "data"} IN
  /\ \A i, j \in DOMAIN got : i < j => got[i] < got[j]
  /\ \A i \in DOMAIN got : /\ got[i] \in Sent(Len(peer.script))
                            /\ Sent(got[i]) \subseteq {got[j] : j \in DOMAIN got}
  /\ delivered.ended => \E c \in DOMAIN peer.script :
                           peer.script[c] = "close" /\ {got[j] : j \in DOMAIN got} = Sent(c - 1)
=============================================================================
