------------------------------ MODULE Buffered -------------------------------
(***************************************************************************)
(* BufReader and BufWriter (io/read/buf_reader.rs, io/write/buf_writer.rs): *)
(* a buffer between an application and a byte stream, in each direction.   *)
(* The buffer is moved into the inner operation and back when it ends, so  *)
(* a call that is dropped in between loses it.                             *)
(*                                                                         *)
(* The stream's bytes are numbered, so that every byte is told apart; Fill *)
(* is what a fresh buffer holds.                                           *)
(***************************************************************************)
EXTENDS Naturals, Sequences
LOCAL INSTANCE SequencesExt

CONSTANTS Size,        \* capacity of the internal buffers
          MaxBytes     \* bound on the bytes of a stream

Fill == 0

VARIABLES reader,      \* BufReader: [buf, pos, cap, call], source bytes read so far
          source,      \* bytes the inner reader has handed out
          received,    \* what the application has read
          writer,      \* BufWriter: [buf, written, call]
          written,     \* bytes the application has written
          sink         \* what the inner writer was given

bufferedVars == <<reader, source, received, writer, written, sink>>

Idle == [do |-> "none"]
Zeroes(n) == [i \in 1 .. n |-> Fill]
Numbers(from, n) == [i \in 1 .. n |-> from + i]
Smaller(a, b) == IF a < b THEN a ELSE b
\* The first bytes of buf are overwritten.
Overwrite(buf, at, bytes) ==
  [i \in DOMAIN buf |-> IF i > at /\ i <= at + Len(bytes) THEN bytes[i - at] ELSE buf[i]]

Init ==
  /\ reader = [buf |-> Zeroes(Size), pos |-> 0, cap |-> 0, call |-> Idle]
  /\ source = 0 /\ received = <<>>
  /\ writer = [buf |-> Zeroes(Size), written |-> 0, call |-> Idle]
  /\ written = 0 /\ sink = <<>>

-----------------------------------------------------------------------------
(* BufReader *)

\* fill_buf, when nothing has to be read: the whole buffer is returned.
FillBuf(r) == r.buf

\* The copy of read, and consume.
Copy(r, rem, room) ==
  LET amount == Smaller(Len(rem), room) IN
  /\ received' = received \o SubSeq(rem, 1, amount)
  /\ reader' = [r EXCEPT !.pos = Smaller(r.cap, r.pos + amount), !.call = Idle]

\* read: a large one goes to the inner reader, and an empty buffer is filled.
Read(room) ==
  /\ reader.call = Idle
  /\ IF reader.pos = reader.cap
     THEN /\ reader' = IF room >= Len(reader.buf)
                       THEN [reader EXCEPT !.pos = 0, !.cap = 0,
                                           !.call = [do |-> "direct", room |-> room]]
                       ELSE [reader EXCEPT !.call = [do |-> "fill", room |-> room]]
          /\ UNCHANGED received
     ELSE Copy(reader, FillBuf(reader), room)
  /\ UNCHANGED <<source, writer, written, sink>>

\* read_vectored bypasses the buffer.
ReadVectored(room) ==
  /\ reader.call = Idle
  /\ reader' = [reader EXCEPT !.pos = 0, !.cap = 0, !.call = [do |-> "direct", room |-> room]]
  /\ UNCHANGED <<source, received, writer, written, sink>>

\* The inner read ends with n bytes.
InnerRead(n) ==
  /\ source + n <= MaxBytes
  /\ \/ /\ reader.call.do = "direct" /\ n <= reader.call.room
        /\ received' = received \o Numbers(source, n)
        /\ reader' = [reader EXCEPT !.call = Idle]
     \/ /\ reader.call.do = "fill" /\ n <= Len(reader.buf)
        /\ LET filled == [reader EXCEPT !.buf = Overwrite(@, 0, Numbers(source, n)),
                                        !.pos = 0, !.cap = n]
           IN Copy(filled, SubSeq(filled.buf, 1, n), reader.call.room)
  /\ source' = source + n
  /\ UNCHANGED <<writer, written, sink>>

\* The application drops a read in flight, and with it the buffer it moved.
DropRead ==
  /\ reader.call # Idle
  /\ reader' = [reader EXCEPT !.call = Idle,
                              !.buf = IF reader.call.do = "fill" THEN <<>> ELSE @]
  /\ UNCHANGED <<source, received, writer, written, sink>>

-----------------------------------------------------------------------------
(* BufWriter *)

\* flush_buf hands the buffer to write_all, and discards it when that is done.
Flushed(w) == IF w.written = 0 THEN <<>> ELSE w.buf

Awaits(do, n) == writer.call = Idle /\ written + n <= MaxBytes
                 /\ writer' = [writer EXCEPT !.call = [do |-> do, n |-> n,
                       size |-> Len(writer.buf), vectored |-> FALSE]]

\* write: flush when the bytes do not fit, then copy, or pass a large write on.
Write(n) ==
  /\ Awaits(IF writer.written + n > Len(writer.buf) THEN "flush" ELSE "copy", n)
  /\ UNCHANGED <<reader, source, received, written, sink>>

\* write_vectored flushes, and passes the whole write on.
WriteVectored(n) ==
  /\ writer.call = Idle /\ written + n <= MaxBytes
  /\ writer' = [writer EXCEPT !.call = [do |-> "flush", n |-> n, size |-> 0,
                                        vectored |-> TRUE]]
  /\ UNCHANGED <<reader, source, received, written, sink>>

\* flush and shutdown.
Flush ==
  /\ Awaits("flush", 0)
  /\ UNCHANGED <<reader, source, received, written, sink>>

\* flush_buf's write_all ends well, and the call goes on.
FlushBuf ==
  /\ writer.call.do = "flush"
  /\ sink' = sink \o Flushed(writer)
  /\ writer' = [writer EXCEPT !.written = 0,
                              !.call = IF @.n = 0 THEN Idle ELSE [@ EXCEPT !.do = "copy"]]
  /\ UNCHANGED <<reader, source, received, written>>

\* A write that bypasses the buffer.
Through(c) == c.vectored \/ c.n > c.size

\* The rest of write: a large one goes to the inner writer, which takes k bytes.
CopyIn(k) ==
  /\ writer.call.do = "copy" /\ k <= writer.call.n
  /\ IF Through(writer.call)
     THEN /\ sink' = sink \o Numbers(written, k)
          /\ writer' = [writer EXCEPT !.call = Idle]
     ELSE /\ k = writer.call.n
          /\ writer' = [writer EXCEPT !.call = Idle, !.written = @ + k,
                                      !.buf = Overwrite(@, writer.written, Numbers(written, k))]
          /\ UNCHANGED sink
  /\ written' = written + k
  /\ UNCHANGED <<reader, source, received>>

\* The application drops a write in flight: a flush has moved the buffer away.
DropWrite ==
  /\ writer.call # Idle /\ (writer.call.do = "flush" \/ Through(writer.call))
  /\ writer' = [writer EXCEPT !.call = Idle,
                   !.buf = IF writer.call.do = "flush" /\ writer.written > 0 THEN <<>> ELSE @]
  /\ UNCHANGED <<reader, source, received, written, sink>>

\* The inner stream fails the operation in flight, a write_all after k bytes;
\* the buffer comes back.
InnerFails(k) ==
  /\ \/ /\ reader.call # Idle
        /\ reader' = [reader EXCEPT !.call = Idle] /\ UNCHANGED <<writer, sink>>
     \/ /\ writer.call.do = "flush" /\ k < Len(Flushed(writer))
        /\ sink' = sink \o SubSeq(writer.buf, 1, k)
        /\ writer' = [writer EXCEPT !.call = Idle] /\ UNCHANGED reader
     \/ /\ writer.call.do = "copy" /\ Through(writer.call)
        /\ writer' = [writer EXCEPT !.call = Idle] /\ UNCHANGED <<reader, sink>>
  /\ UNCHANGED <<source, received, written>>

Next ==
  \/ \E n \in 1 .. Size + 1 : Read(n) \/ ReadVectored(n) \/ Write(n) \/ WriteVectored(n)
  \/ \E n \in 0 .. Size + 1 : InnerRead(n) \/ CopyIn(n) \/ InnerFails(n)
  \/ DropRead \/ Flush \/ FlushBuf \/ DropWrite

Spec == Init /\ [][Next]_bufferedVars

-----------------------------------------------------------------------------
\* "BufReader performs large, infrequent reads and serves smaller reads from an
\* in-memory buffer": the application reads the bytes of the stream, each once
\* and in order; and the inner writer gets the bytes that were written.
BytesInOrder ==
  /\ \A i \in DOMAIN received : received[i] = i
  /\ \A i \in DOMAIN sink : sink[i] = i
=============================================================================
