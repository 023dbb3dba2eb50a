------------------------------- MODULE Framed --------------------------------
(***************************************************************************)
(* Framed transports (io/framed/): a FramedWrite sends items through a     *)
(* byte stream to a FramedRead.  Both keep the operation they have in      *)
(* flight, so that a dropped `send` or `next` pauses it and the next call  *)
(* takes it up again.  The stream may cut the bytes anywhere, fail, and    *)
(* end.                                                                    *)
(*                                                                         *)
(* A framing is [kind, lfl, be, delim, max]: the length of the length      *)
(* field and its byte order, the delimiter, the longest payload.  Bytes    *)
(* are numbers below ByteBase.  The codec passes payloads through.         *)
(***************************************************************************)
EXTENDS Naturals, Sequences, FiniteSets
LOCAL INSTANCE SequencesExt

CONSTANTS Framings,    \* the framings of the run
          Items,       \* payloads an application may send
          ByteBase,    \* values of a byte
          MaxItems,    \* bound on items offered
          MaxRebuilds  \* bound on readers rebuilt from their parts

VARIABLES framing,     \* the framing both ends use
          tx,          \* FramedWrite: [state, rest, res, call]
          wire,        \* the byte stream: [bytes, closed, failed]
          rx,          \* FramedRead: [state, fill, buf, start, next, decode, call]
          offered,        \* items encoded, in order
          got          \* items the reader returned

framedVars == <<framing, tx, wire, rx, offered, got>>

NeedMore == [found |-> "none"]
Malformed == [found |-> "error"]
Frame(prefix, payload, suffix) ==
  [found |-> "frame", prefix |-> prefix, payload |-> payload, suffix |-> suffix]
FrameLen(f) == f.prefix + f.payload + f.suffix
Min2(a, b) == IF a < b THEN a ELSE b
Minus(a, b) == IF a < b THEN 0 ELSE a - b        \* saturating_sub

-----------------------------------------------------------------------------
(* Framers *)

\* to_be_bytes and to_le_bytes, cut to the length field; and back.
LengthBytes(f, n) ==
  LET digit(i) == (n \div (ByteBase ^ i)) % ByteBase IN
  [i \in 1 .. f.lfl |-> IF f.be THEN digit(f.lfl - i) ELSE digit(i - 1)]
LengthOf(f, bytes) ==
  LET weight(i) == IF f.be THEN ByteBase ^ (f.lfl - i) ELSE ByteBase ^ (i - 1) IN
  FoldLeftDomain(LAMBDA n, i : n + bytes[i] * weight(i), 0, bytes)

\* Framer::enclose; a payload that does not fit is refused.
Enclose(f, p) ==
  CASE f.kind = "length" ->
         IF Len(p) > f.max \/ Len(p) > (ByteBase ^ f.lfl) - 1 THEN Malformed
         ELSE [found |-> "frame", bytes |-> LengthBytes(f, Len(p)) \o p]
    [] f.kind = "delim" -> [found |-> "frame", bytes |-> p \o f.delim]
    [] f.kind = "noop" -> [found |-> "frame", bytes |-> p]

ExtractLength(f, data) ==
  IF Len(data) < f.lfl THEN NeedMore
  ELSE LET n == LengthOf(f, SubSeq(data, 1, f.lfl)) IN
       IF n > f.max THEN Malformed
       ELSE IF Len(data) < f.lfl + n THEN NeedMore
       ELSE Frame(f.lfl, n, 0)

\* Where the next search starts: a delimiter may have begun at the end.
\* Fault: the search resumes behind what was read.
ResumePast(readTo, d) == readTo

ResumeAt(readTo, d) == Minus(readTo, d - 1)

\* extract_delimited: next is where the last search stopped.
ExtractDelimited(f, data, next) ==
  LET d == Len(f.delim)
      readTo == Min2(Len(data), f.max + d)
      from == Min2(next, readTo)
      at == {i \in from .. Minus(readTo, d) :
               i + d <= readTo /\ SubSeq(data, i + 1, i + d) = f.delim}
      overlaps == {o \in 1 .. d - 1 : o <= Len(data)
                     /\ SubSeq(data, Len(data) - o + 1, Len(data)) = SubSeq(f.delim, 1, o)}
      longest == CHOOSE o \in overlaps : \A q \in overlaps : q <= o
  IN IF data = <<>> THEN [frame |-> NeedMore, next |-> next]
     ELSE IF at # {}
     THEN [frame |-> Frame(0, CHOOSE i \in at : \A j \in at : i <= j, d), next |-> 0]
     ELSE IF Len(data) > f.max /\ (overlaps = {} \/ Len(data) - longest > f.max)
     THEN [frame |-> Malformed, next |-> 0]
     ELSE [frame |-> NeedMore, next |-> ResumeAt(readTo, d)]

ExtractNoop(f, data) ==
  IF data = <<>> THEN NeedMore ELSE Frame(0, Min2(Len(data), f.max), 0)

Extract(f, data, next) ==
  CASE f.kind = "length" -> [frame |-> ExtractLength(f, data), next |-> next]
    [] f.kind = "delim" -> ExtractDelimited(f, data, next)
    [] f.kind = "noop" -> [frame |-> ExtractNoop(f, data), next |-> next]

\* extract_eof: what is left is an error, the last line, or another chunk.
ExtractEof(f, data, next) ==
  LET x == Extract(f, data, next) IN
  IF x.frame # NeedMore THEN x
  ELSE CASE f.kind = "length" ->
              [x EXCEPT !.frame = IF data = <<>> THEN NeedMore ELSE Malformed]
         [] f.kind = "delim" ->
              [next |-> 0,
               frame |-> IF data = <<>> THEN NeedMore
                         ELSE IF Len(data) > f.max THEN Malformed
                         ELSE Frame(0, Len(data), 0)]
         [] f.kind = "noop" -> x

-----------------------------------------------------------------------------
(* FramedWrite *)

NoCall == [do |-> "none"]

FramedInit ==
  /\ framing \in Framings
  /\ tx = [state |-> "idle", rest |-> <<>>, res |-> "none", call |-> NoCall]
  /\ wire = [bytes |-> <<>>, closed |-> FALSE, cut |-> FALSE, garbled |-> FALSE]
  /\ rx = [state |-> "idle", fill |-> "none", bytes |-> <<>>, buf |-> <<>>, start |-> 0,
           next |-> 0, decode |-> "Framing", call |-> FALSE, rebuilds |-> 0]
  /\ offered = <<>> /\ got = <<>>

\* Sink::send, flush and close are called.
CallSink(do) ==
  /\ tx.call = NoCall /\ ~wire.closed
  /\ do.do = "send" => Len(offered) < MaxItems
  /\ tx' = [tx EXCEPT !.call = do]
  /\ UNCHANGED <<framing, wire, rx, offered, got>>

\* settle_write: the retained write ends first, and its error ends the call.
SettleWrite ==
  /\ tx.call # NoCall /\ tx.state = "writing" /\ tx.res # "none"
  /\ tx' = [tx EXCEPT !.state = "idle", !.res = "none",
                      !.call = IF tx.res = "err" \/ @.do = "written" THEN NoCall ELSE @]
  /\ UNCHANGED <<framing, wire, rx, offered, got>>

\* send_item: encode, enclose, start write_all.
SendItem ==
  /\ tx.call.do = "send" /\ tx.state = "idle"
  /\ LET e == Enclose(framing, tx.call.item) IN
     IF e = Malformed THEN tx' = [tx EXCEPT !.call = NoCall] /\ UNCHANGED <<wire, offered>>
     ELSE /\ tx' = [state |-> "writing", rest |-> e.bytes,
                    res |-> IF e.bytes = <<>> THEN "ok" ELSE "none",
                    call |-> [do |-> "written"]]
          /\ wire' = [wire EXCEPT !.garbled = @ \/ wire.cut]
          /\ offered' = Append(offered, tx.call.item)
  /\ UNCHANGED <<framing, rx, got>>

\* flush_write and close_write, once settled.  When the stream fails the flush or
\* the shutdown, the call ends as a dropped one does (DropSink).
FlushOrClose ==
  /\ tx.call.do \in {"flush", "close"} /\ tx.state = "idle"
  /\ wire' = [wire EXCEPT !.closed = @ \/ tx.call.do = "close"]
  /\ tx' = [tx EXCEPT !.call = NoCall]
  /\ UNCHANGED <<framing, rx, offered, got>>

\* The future of the call is dropped; the write stays.
DropSink ==
  /\ tx.call # NoCall
  /\ tx' = [tx EXCEPT !.call = NoCall]
  /\ UNCHANGED <<framing, wire, rx, offered, got>>

\* write_all: the stream takes some of the bytes, or fails.
WriteSome(n) ==
  /\ tx.state = "writing" /\ tx.res = "none" /\ ~wire.closed
  /\ wire' = [wire EXCEPT !.bytes = @ \o SubSeq(tx.rest, 1, n)]
  /\ tx' = [tx EXCEPT !.rest = SubSeq(@, n + 1, Len(@)),
                      !.res = IF n = Len(tx.rest) THEN "ok" ELSE "none"]
  /\ UNCHANGED <<framing, rx, offered, got>>

WriteFails ==
  /\ tx.state = "writing" /\ tx.res = "none" /\ ~wire.closed
  /\ wire' = [wire EXCEPT !.cut = TRUE]
  /\ tx' = [tx EXCEPT !.res = "err"]
  /\ UNCHANGED <<framing, rx, offered, got>>

\* The writer is dropped, with the write it retained.
DropWriter ==
  /\ tx.call = NoCall /\ ~wire.closed
  /\ wire' = [wire EXCEPT !.closed = TRUE, !.cut = @ \/ tx.rest # <<>>]
  /\ UNCHANGED <<framing, tx, rx, offered, got>>

-----------------------------------------------------------------------------
(* FramedRead *)

Pending == SubSeq(rx.buf, rx.start + 1, Len(rx.buf))

\* prepare_fill compacts when half of the buffer is consumed.
PrepareFill(r) ==
  IF r.start > 0 /\ r.start >= Len(r.buf) \div 2
  THEN [r EXCEPT !.buf = SubSeq(r.buf, r.start + 1, Len(r.buf)), !.start = 0]
  ELSE r

StartFill(r) == [PrepareFill(r) EXCEPT !.state = "reading", !.fill = "none"]

\* settle_read and finish_fill: the bytes read follow the pending ones.
Settled(r) ==
  [r EXCEPT !.state = "idle", !.fill = "none", !.buf = @ \o r.bytes, !.bytes = <<>>,
            !.start = Min2(@, Len(r.buf) + Len(r.bytes))]

\* decode_frame, for a frame that is there.
Decoded(r, x) ==
  LET f == x.frame
      at == r.start + f.prefix
  IN [item |-> SubSeq(r.buf, at + 1, at + f.payload),
      r |-> [r EXCEPT !.start = Min2(@ + FrameLen(f), Len(r.buf)), !.next = x.next,
                      !.call = FALSE]]

Return(r) == rx' = [r EXCEPT !.call = FALSE] /\ UNCHANGED got

NextItem ==
  /\ ~rx.call
  /\ rx' = [rx EXCEPT !.call = TRUE]
  /\ UNCHANGED <<framing, tx, wire, offered, got>>

\* next_item in DecodeState::Framing with bytes pending: an item, an error,
\* or another read.
TryDecode ==
  /\ rx.call /\ rx.state = "idle" /\ rx.decode = "Framing" /\ Pending # <<>>
  /\ LET x == Extract(framing, Pending, rx.next) IN
     CASE x.frame.found = "frame" ->
            rx' = Decoded(rx, x).r /\ got' = Append(got, Decoded(rx, x).item)
       [] x.frame.found = "error" -> Return([rx EXCEPT !.decode = "Errored", !.next = x.next])
       [] OTHER -> rx' = StartFill([rx EXCEPT !.next = x.next]) /\ UNCHANGED got
  /\ UNCHANGED <<framing, tx, wire, offered>>

\* next_item with nothing to decode: read, unless the reader has failed.
Fill ==
  /\ rx.call /\ rx.state = "idle"
  /\ \/ /\ rx.decode = "Paused" \/ (rx.decode = "Framing" /\ Pending = <<>>)
        /\ rx' = StartFill(rx) /\ UNCHANGED got
     \/ rx.decode = "Errored" /\ Return(rx)
  /\ UNCHANGED <<framing, tx, wire, offered>>

\* next_item in DecodeState::Pausing.
TryDecodeEof ==
  /\ rx.call /\ rx.state = "idle" /\ rx.decode = "Pausing"
  /\ LET x == Extract(framing, Pending, rx.next)
         y == ExtractEof(framing, Pending, x.next)
         z == IF Pending # <<>> /\ x.frame # NeedMore THEN x ELSE y
     IN CASE z.frame.found = "frame" ->
               rx' = Decoded(rx, z).r /\ got' = Append(got, Decoded(rx, z).item)
          [] z.frame.found = "error" -> Return([rx EXCEPT !.decode = "Errored", !.next = z.next])
          [] OTHER -> Return([rx EXCEPT !.decode = "Paused", !.next = z.next])
  /\ UNCHANGED <<framing, tx, wire, offered>>

\* fill_read: the read this call started, or one an earlier call left.
SettleRead ==
  /\ rx.call /\ rx.state = "reading" /\ rx.fill # "none"
  /\ LET r == Settled(rx) IN
     CASE rx.fill = "err" -> Return([r EXCEPT !.decode = "Errored"])
       [] rx.fill = "eof" /\ rx.decode = "Paused" -> Return(r)
       [] rx.fill = "eof" /\ rx.decode # "Paused" ->
            rx' = [r EXCEPT !.decode = "Pausing"] /\ UNCHANGED got
       [] OTHER -> rx' = [r EXCEPT !.decode = "Framing"] /\ UNCHANGED got
  /\ UNCHANGED <<framing, tx, wire, offered>>

DropNext ==
  /\ rx.call
  /\ rx' = [rx EXCEPT !.call = FALSE]
  /\ UNCHANGED <<framing, tx, wire, offered, got>>

\* The stream answers the read with bytes, its end or an error.
ReadArrives(n) ==
  /\ rx.state = "reading" /\ rx.fill = "none"
  /\ \/ /\ n > 0 /\ n <= Len(wire.bytes)
        /\ rx' = [rx EXCEPT !.fill = "bytes", !.bytes = SubSeq(wire.bytes, 1, n)]
        /\ wire' = [wire EXCEPT !.bytes = SubSeq(@, n + 1, Len(@))]
     \/ /\ n = 0 /\ wire.closed /\ wire.bytes = <<>>
        /\ rx' = [rx EXCEPT !.fill = "eof"] /\ UNCHANGED wire
     \/ /\ n = 0
        /\ rx' = [rx EXCEPT !.fill = "err"]
        /\ wire' = [wire EXCEPT !.cut = TRUE]
  /\ UNCHANGED <<framing, tx, offered, got>>

\* into_parts, which settles the read, and from_parts, which forgets the end
\* of the stream and errors; the framer keeps its position.
Rebuild ==
  /\ ~rx.call /\ rx.rebuilds < MaxRebuilds
  /\ rx.state = "reading" => rx.fill # "none"
  /\ rx' = [(IF rx.state = "reading" THEN Settled(rx) ELSE rx) EXCEPT
              !.decode = "Framing", !.rebuilds = @ + 1]
  /\ UNCHANGED <<framing, tx, wire, offered, got>>

FramedNext ==
  \/ \E p \in Items : CallSink([do |-> "send", item |-> p])
  \/ \E do \in {"flush", "close"} : CallSink([do |-> do])
  \/ SettleWrite \/ SendItem \/ FlushOrClose \/ DropSink \/ WriteFails \/ DropWriter
  \/ \E n \in 1 .. Len(tx.rest) : WriteSome(n)
  \/ NextItem \/ TryDecode \/ Fill \/ TryDecodeEof \/ SettleRead \/ DropNext \/ Rebuild
  \/ \E n \in 0 .. Len(wire.bytes) : ReadArrives(n)

-----------------------------------------------------------------------------
(* Properties *)

\* The reader returns the items that were offered, in order and unchanged, however
\* the stream cuts the bytes and however often next and send are dropped and
\* taken up again.  It fails only for a payload over its maximum or a stream
\* that broke, and returns None only after the last item.  A length-delimited
\* stream that ends inside a frame yields no part of it.
FramesExact ==
  LET exact == framing.kind # "noop"
      prefix == IF exact THEN IsPrefix(got, offered)
                ELSE IsPrefix(FlattenSeq(got), FlattenSeq(offered))
      all == IF exact THEN got = offered ELSE FlattenSeq(got) = FlattenSeq(offered)
      oversize == \E i \in DOMAIN offered : Len(offered[i]) > framing.max
  IN /\ ~wire.cut \/ (framing.kind = "length" /\ ~wire.garbled) => prefix
     /\ ~wire.cut => /\ rx.decode = "Errored" => oversize
                     /\ rx.decode = "Paused" => all
=============================================================================
