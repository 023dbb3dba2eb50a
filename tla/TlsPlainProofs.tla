--------------------------- MODULE TlsPlainProofs ---------------------------
(***************************************************************************)
(* The TLS stream delivers what the peer sent, for every script of the     *)
(* peer and any number of calls.                                           *)
(*                                                                         *)
(* PlainInv says that what was delivered and what Rustls holds is the data *)
(* of the first units of the script and that the rest is in the adapter,   *)
(* unless a dropped read lost it and with it the reader; and that the end  *)
(* is seen only once Rustls has nothing left to deliver.                   *)
(***************************************************************************)
EXTENDS TlsProofs

(* What the peer sent *)

\* s holds the positions of the data units among the first p of the script, in
\* order.
Ordered(script, s, p) ==
  /\ s \in Seq(Nat)
  /\ \A i, j \in 1 .. Len(s) : i < j => s[i] < s[j]
  /\ \A i \in 1 .. Len(s) : s[i] \in 1 .. p /\ script[s[i]] = "data"
  /\ \A k \in 1 .. p : script[k] = "data" => \E i \in 1 .. Len(s) : s[i] = k

\* Rustls c has decrypted what leads up to position p: got is all that came out
\* of it.  It looks at nothing past a close_notify or an error.
Progress(script, got, c, p) ==
  /\ c.closed => \E q \in 1 .. Len(script) : script[q] = "close" /\ Ordered(script, got, q)
  /\ c.broken /\ ~c.closed => \E q \in 0 .. Len(script) : Ordered(script, got, q)
  /\ ~c.broken /\ ~c.closed => Ordered(script, got, p)

\* The next unit of the script, taken.
LEMMA OrderedNext ==
  ASSUME NEW script, NEW s, NEW p \in Nat, Ordered(script, s, p)
  PROVE  IF script[p + 1] = "data" THEN Ordered(script, Append(s, p + 1), p + 1)
         ELSE Ordered(script, s, p + 1)
<1>0. s \in Seq(Nat) BY DEF Ordered
<1>1. CASE script[p + 1] # "data"
  <2>1. \A i \in 1 .. Len(s) : s[i] \in 1 .. p + 1 /\ script[s[i]] = "data" BY DEF Ordered
  <2>2. ASSUME NEW k \in 1 .. p + 1, script[k] = "data" PROVE \E i \in 1 .. Len(s) : s[i] = k
    <3>1. k \in 1 .. p BY <1>1, <2>2
    <3> QED BY <2>2, <3>1 DEF Ordered
  <2> QED BY <1>0, <1>1, <2>1, <2>2 DEF Ordered
<1>2. CASE script[p + 1] = "data"
  <2> DEFINE t == Append(s, p + 1)
  <2>1. /\ t \in Seq(Nat) /\ Len(t) = Len(s) + 1 /\ Len(s) \in Nat /\ t[Len(s) + 1] = p + 1
        /\ \A i \in 1 .. Len(s) : t[i] = s[i]
    BY <1>0
  <2> HIDE DEF t
  <2>2. \A i \in 1 .. Len(t) : i \in 1 .. Len(s) \/ i = Len(s) + 1 BY <2>1
  <2>3. \A i \in 1 .. Len(s) : s[i] \in 1 .. p /\ script[s[i]] = "data" BY DEF Ordered
  <2>4. \A i \in 1 .. Len(t) : t[i] \in 1 .. p + 1 /\ script[t[i]] = "data"
    BY <1>2, <2>1, <2>2, <2>3
  <2>5. ASSUME NEW i \in 1 .. Len(t), NEW j \in 1 .. Len(t), i < j PROVE t[i] < t[j]
    <3>1. i \in 1 .. Len(s) BY <2>1, <2>5
    <3>2. CASE j \in 1 .. Len(s) BY <2>1, <2>5, <3>1, <3>2 DEF Ordered
    <3>3. CASE j = Len(s) + 1
      <4>1. t[i] = s[i] /\ t[j] = p + 1 BY <2>1, <3>1, <3>3
      <4> QED BY <2>3, <3>1, <4>1
    <3> QED BY <2>2, <3>2, <3>3
  <2>6. ASSUME NEW k \in 1 .. p + 1, script[k] = "data" PROVE \E i \in 1 .. Len(t) : t[i] = k
    <3>1. CASE k = p + 1
      <4>1. Len(s) + 1 \in 1 .. Len(t) BY <2>1
      <4> QED BY <2>1, <3>1, <4>1
    <3>2. CASE k \in 1 .. p
      <4>1. PICK i \in 1 .. Len(s) : s[i] = k BY <2>6, <3>2 DEF Ordered
      <4>2. i \in 1 .. Len(t) /\ t[i] = k BY <2>1, <4>1
      <4> QED BY <4>2
    <3> QED BY <3>1, <3>2
  <2>7. Ordered(script, t, p + 1) BY <2>1, <2>4, <2>5, <2>6 DEF Ordered
  <2> QED BY <1>2, <2>7 DEF t
<1> QED BY <1>1, <1>2

\* What Queue leaves alone.
LEMMA QueuePlain ==
  ASSUME NEW c \in Conns
  PROVE  Queue(c).plain = c.plain /\ Queue(c).closed = c.closed /\ Queue(c).broken = c.broken
BY DEF Queue, Conns

\* Refreshing the traffic keys changes nothing of what was read.
LEMMA TouchPlain ==
  ASSUME NEW c \in Conns
  PROVE  Touch(c).plain = c.plain /\ Touch(c).closed = c.closed /\ Touch(c).broken = c.broken
<1> DEFINE d == [c EXCEPT !.update = FALSE]
<1>1. d \in Conns /\ d.plain = c.plain /\ d.closed = c.closed /\ d.broken = c.broken BY Zenon DEF Conns
<1>2. Touch(c) = Queue(d) \/ Touch(c) = c BY DEF Touch
<1> HIDE DEF d
<1> QED BY <1>1, <1>2, QueuePlain

\* Appending to the second of two sequences.
LEMMA AppendConcat ==
  ASSUME NEW d \in Seq(Nat), NEW s \in Seq(Nat), NEW x \in Nat
  PROVE  d \o Append(s, x) = Append(d \o s, x)
OBVIOUS

\* One unit from the peer adds its plaintext, or ends the stream.
LEMMA PacketProgress ==
  ASSUME NEW d \in Seq(Nat), NEW c \in Conns, NEW p \in Nat, p + 1 \in 1 .. Len(peer.script),
         peer.script[p + 1] \in PeerUnits, Progress(peer.script, d \o c.plain, c, p)
  PROVE  LET e == Packet(c, p + 1) IN Progress(peer.script, d \o e.plain, e, p + 1)
<1> DEFINE e == Packet(c, p + 1)
           script == peer.script
           got == d \o c.plain
<1> SUFFICES Progress(script, d \o e.plain, e, p + 1) OBVIOUS
<1>0. c.plain \in Seq(Nat) /\ c.closed \in BOOLEAN /\ c.broken \in BOOLEAN BY DEF Conns
<1>1. CASE c.broken \/ c.closed
  <2>1. e = c BY <1>1 DEF Packet
  <2> HIDE DEF e
  <2> QED BY <1>1, <2>1 DEF Progress
<1>2. CASE ~c.broken /\ ~c.closed
  <2>0. Ordered(script, got, p) BY <1>2 DEF Progress
  <2>1. CASE script[p + 1] = "data"
    <3>1. e = [c EXCEPT !.plain = Append(c.plain, p + 1)] BY <1>2, <2>1 DEF Packet
    <3>2. e.plain = Append(c.plain, p + 1) /\ e.closed = c.closed /\ e.broken = c.broken
      BY <3>1 DEF Conns
    <3>6. p + 1 \in Nat OBVIOUS
    <3>3. d \o Append(c.plain, p + 1) = Append(d \o c.plain, p + 1) BY <1>0, <3>6, AppendConcat
    <3>4. Ordered(script, Append(got, p + 1), p + 1) BY <2>0, <2>1, OrderedNext
    <3>5. Ordered(script, d \o e.plain, p + 1) BY Zenon, <3>2, <3>3, <3>4
    <3> HIDE DEF e
    <3> QED BY <1>2, <3>2, <3>5 DEF Progress
  <2>2. CASE script[p + 1] # "data"
    <3>1. Ordered(script, got, p + 1) BY <2>0, <2>2, OrderedNext
    <3>2. e.plain = c.plain /\ (e.closed => script[p + 1] = "close")
      <4>1. CASE script[p + 1] = "hello"
        <5> DEFINE g == [c EXCEPT !.handshaking = FALSE]
        <5>1. g \in Conns /\ g.plain = c.plain /\ g.closed = c.closed BY Zenon DEF Conns
        <5>2. e = Queue(g) BY <1>2, <4>1 DEF Packet
        <5> HIDE DEF g, e
        <5> QED BY <1>2, <5>1, <5>2, QueuePlain
      <4>2. CASE script[p + 1] = "update"
        <5>1. e = [c EXCEPT !.update = TRUE] BY <1>2, <4>2 DEF Packet
        <5> QED BY Zenon, <1>2, <5>1 DEF Conns
      <4>3. CASE script[p + 1] = "close"
        <5>1. e = [c EXCEPT !.closed = TRUE] BY <1>2, <4>3 DEF Packet
        <5> QED BY <4>3, <5>1 DEF Conns
      <4>4. CASE script[p + 1] = "bad"
        <5> DEFINE g == [c EXCEPT !.broken = TRUE]
        <5>1. g \in Conns /\ g.plain = c.plain /\ g.closed = c.closed BY Zenon DEF Conns
        <5>2. e = Queue(g) BY <1>2, <4>4 DEF Packet
        <5> HIDE DEF g, e
        <5> QED BY <1>2, <5>1, <5>2, QueuePlain
      <4> QED BY <2>2, <4>1, <4>2, <4>3, <4>4 DEF PeerUnits
    <3> HIDE DEF e
    <3>3. p + 1 \in 0 .. Len(script) OBVIOUS
    <3> QED BY <3>1, <3>2, <3>3 DEF Progress
  <2> QED BY <2>1, <2>2
<1> QED BY <1>1, <1>2

\* So do all the units of one call of process_new_packets, in order.
LEMMA PacketsProgress ==
  ASSUME NEW d \in Seq(Nat), NEW c, Numbered(c), NEW units \in Seq(Nat), NEW p \in Nat,
         peer.script \in Seq(PeerUnits), p + Len(units) <= Len(peer.script), Counts(units, p),
         Progress(peer.script, d \o c.plain, c, p)
  PROVE  LET e == ProcessNewPackets(c, units) IN
           Progress(peer.script, d \o e.plain, e, p + Len(units))
<1> PICK f : /\ f[0] = c /\ \A n \in 1 .. Len(units) : f[n] = Packet(f[n - 1], units[n])
             /\ ProcessNewPackets(c, units) = f[Len(units)]
  BY PacketByPacket
<1> DEFINE Good(n) == Numbered(f[n]) /\ Progress(peer.script, d \o f[n].plain, f[n], p + n)
           T == {n \in 0 .. Len(units) : ~Good(n)}
<1>0. 0 \notin T /\ Len(units) \in Nat
  <2>1. p + 0 = p OBVIOUS
  <2> QED BY <2>1
<1> HIDE DEF T, Good
<1>1. T = {}
  <2> SUFFICES ASSUME T # {} PROVE FALSE OBVIOUS
  <2>1. T \subseteq Nat BY <1>0 DEF T
  <2> PICK x \in T : \A y \in T : x <= y BY Zenon, <2>1, NatMin
  <2>2. x # 0 /\ x \in 1 .. Len(units) /\ x - 1 \in 0 .. Len(units) BY <1>0 DEF T
  <2>3. x - 1 \notin T BY <2>2
  <2>4. Good(x - 1) BY <2>2, <2>3 DEF T
  <2>5. units[x] = p + x /\ f[x] = Packet(f[x - 1], units[x]) BY <2>2 DEF Counts
  <2> DEFINE k == p + (x - 1)
  <2>6. k \in Nat /\ k + 1 = p + x /\ k + 1 \in 1 .. Len(peer.script) BY <1>0, <2>2
  <2> HIDE DEF k
  <2>7. peer.script[k + 1] \in PeerUnits BY <2>6
  <2>8. f[x - 1] \in Conns /\ Numbered(f[x - 1]) BY <2>4 DEF Numbered, Good
  <2>9. Progress(peer.script, d \o f[x - 1].plain, f[x - 1], k) BY <2>4 DEF k, Good
  <2>10. f[x] = Packet(f[x - 1], k + 1) BY <2>5, <2>6
  <2>11. Progress(peer.script, d \o f[x].plain, f[x], p + x)
    BY <2>6, <2>7, <2>8, <2>9, <2>10, PacketProgress
  <2>12. Numbered(f[x]) BY <2>6, <2>7, <2>8, <2>10, PacketGrows DEF Grown
  <2>13. Good(x) BY <2>11, <2>12 DEF Good
  <2> QED BY <2>13 DEF T
<1>2. Good(Len(units)) BY <1>0, <1>1 DEF T
<1> QED BY <1>2 DEF Good

-----------------------------------------------------------------------------
(* The read side: what came from the peer and where it is *)

\* The positions before this one have been taken by Rustls, or are gone.
Taken == peer.at - Len(adapter.input)
Came(p) == Progress(peer.script, delivered.data \o rustls.plain, rustls, p)

\* All that the transport handed over is with Rustls or about to be.
Live == Taken \in Nat /\ Counts(adapter.input, Taken) /\ Came(Taken)

\* A read of the transport was dropped: its input is lost, and so is the reader.
ReaderDead ==
  /\ sess.read \in Failures /\ op["r"].at \in {"idle", "plain"}
  /\ form = "engine" /\ op["w"].at \in Awaits => op["w"].saved.read \in Failures

\* The session knows of the close_notify.
EndSeen == \/ sess.read = "PeerClosed"
           \/ form = "engine" /\ \E h \in Halves : op[h].at \in Awaits /\ op[h].saved.read = "PeerClosed"

Deliveries == [data : Seq(Nat), ended : BOOLEAN]
PlainInv ==
  /\ delivered \in Deliveries
  /\ Live \/ (ReaderDead /\ \E p \in 0 .. Len(peer.script) : Came(p))
  /\ op["r"].at = "t_read" => adapter.input = <<>>
  /\ delivered.ended \/ EndSeen => rustls.closed /\ rustls.plain = <<>>

SameRead(c, d) == d.plain = c.plain /\ d.closed = c.closed /\ d.broken = c.broken

\* A step that is not about what was read.
LEMMA PlainFrame ==
  ASSUME PlainInv, delivered' = delivered, peer' = peer, adapter'.input = adapter.input,
         SameRead(rustls, rustls'), op'["r"].at = "t_read" => adapter'.input = <<>>,
         EndSeen' => EndSeen, ReaderDead => ReaderDead'
  PROVE  PlainInv'
<1>1. \A p : Came(p) => Came(p)' BY DEF Came, Progress, SameRead
<1>2. Live => Live' BY <1>1 DEF Live, Taken, Came
<1>3. ReaderDead /\ (\E p \in 0 .. Len(peer.script) : Came(p)) =>
        (ReaderDead /\ \E p \in 0 .. Len(peer.script) : Came(p))'
  BY <1>1 DEF Came
<1> QED BY <1>2, <1>3 DEF PlainInv, SameRead

\* The half h returns.
LEMMA ViewBack ==
  ASSUME TlsInv, NEW h \in Halves, NEW result \in Results, Returns(h, result), op[h].at # "idle",
         sess'.read = "PeerClosed" => EndSeen, ReaderDead => sess'.read \in Failures
  PROVE  (EndSeen' => EndSeen) /\ (ReaderDead => ReaderDead') /\ op'[h].at = "idle"
         /\ \A g \in Halves \ {h} : op'[g] = op[g]
<1>1. TlsTypes /\ Control BY DEF TlsInv
<1>2. op'[h].at = "idle" /\ \A g \in Halves \ {h} : op'[g] = op[g] BY <1>1, ReturnType
<1>3. form' = "engine" => form = "engine" BY DEF Returns
<1>4. form = "engine" => op[Other(h)].at = "idle" BY <1>1, OtherHalf DEF Control, Halves
<1>5. form' = "engine" => op'["r"].at = "idle" /\ op'["w"].at = "idle"
  BY <1>2, <1>3, <1>4, OtherHalf DEF Halves
<1>6. "idle" \notin Awaits BY DEF Awaits
<1>7. EndSeen' => EndSeen BY <1>5, <1>6 DEF EndSeen, Halves
<1>8. ReaderDead => ReaderDead' BY <1>2, <1>5, <1>6 DEF ReaderDead, Halves
<1> QED BY <1>2, <1>7, <1>8

\* The half h goes on.
LEMMA ViewOn ==
  ASSUME TlsInv, NEW h \in Halves, NEW o \in OpStates, op' = [op EXCEPT ![h] = o], op[h].at # "idle",
         form' = form, form = "engine" /\ o.at \in Awaits => o.saved = sess,
         sess'.read = "PeerClosed" => EndSeen,
         ReaderDead => sess'.read \in Failures /\ (h = "r" => o.at = "plain")
  PROVE  (EndSeen' => EndSeen) /\ (ReaderDead => ReaderDead') /\ op'[h] = o
         /\ \A g \in Halves \ {h} : op'[g] = op[g]
<1>1. TlsTypes /\ Control BY DEF TlsInv
<1>2. op'[h] = o /\ \A g \in Halves \ {h} : op'[g] = op[g] BY <1>1 DEF TlsTypes
<1>3. form = "engine" => op[Other(h)].at = "idle" BY <1>1, OtherHalf DEF Control, Halves
<1>4. "idle" \notin Awaits BY DEF Awaits
<1>5. ASSUME EndSeen' PROVE EndSeen
  <2>1. CASE sess'.read = "PeerClosed" BY <2>1
  <2>2. CASE form = "engine" /\ \E g \in Halves : op'[g].at \in Awaits /\ op'[g].saved.read = "PeerClosed"
    <3>1. o.at \in Awaits /\ o.saved.read = "PeerClosed" BY <1>2, <1>3, <1>4, <2>2, OtherHalf DEF Halves
    <3> QED BY <2>2, <3>1 DEF EndSeen
  <2> QED BY <1>5, <2>1, <2>2 DEF EndSeen
<1>6. ASSUME ReaderDead PROVE ReaderDead'
  <2>1. op'["r"].at \in {"idle", "plain"} BY <1>2, <1>6 DEF ReaderDead, Halves
  <2>2. form' = "engine" /\ op'["w"].at \in Awaits => op'["w"].saved.read \in Failures
    BY <1>2, <1>6 DEF ReaderDead, Halves
  <2> QED BY <1>6, <2>1, <2>2 DEF ReaderDead
<1> QED BY <1>2, <1>5, <1>6

\* What the session is restored to after an operation on the transport.
LEMMA FinishedRead ==
  ASSUME TlsInv, NEW h \in Halves, op[h].at \in Awaits
  PROVE  /\ Finished(h).read = "PeerClosed" => EndSeen
         /\ ReaderDead => h = "w" /\ Finished(h).read \in Failures
<1>1. ReaderDead => h = "w" BY DEF ReaderDead, Awaits, Halves
<1> QED BY <1>1 DEF Finished, EndSeen, ReaderDead

\* split, reunite and into_parts.
LEMMA PlainForm == ASSUME TlsInv, PlainInv, SplitStream \/ ReuniteHalves \/ IntoParts PROVE PlainInv'
<1>0. UNCHANGED <<sess, rustls, adapter, op, peer, delivered>> /\ Quiet
  BY DEF SplitStream, ReuniteHalves, IntoParts
<1>1. op["r"].at = "idle" /\ op["w"].at = "idle" BY <1>0 DEF Quiet, Halves
<1>2. EndSeen' => EndSeen BY <1>0, <1>1 DEF EndSeen, Awaits, Halves
<1>3. ReaderDead => ReaderDead' BY <1>0, <1>1 DEF ReaderDead, Awaits
<1> QED BY <1>0, <1>1, <1>2, <1>3, PlainFrame DEF SameRead

\* A half is dropped.
LEMMA PlainDropHalf == ASSUME TlsInv, PlainInv, NEW h \in Halves, DropHalf(h) PROVE PlainInv'
<1>0. /\ UNCHANGED <<form, sess, rustls, adapter, peer, delivered>> /\ form = "split"
      /\ op' = [op EXCEPT ![h].kind = "dropped"]
  BY DEF DropHalf
<1>1. op \in [Halves -> OpStates] BY DEF TlsInv, TlsTypes
<1>2. \A g \in Halves : op'[g].at = op[g].at BY <1>0, <1>1 DEF OpStates
<1>3. EndSeen' => EndSeen BY <1>0 DEF EndSeen
<1>4. ReaderDead => ReaderDead' BY <1>0, <1>2 DEF ReaderDead, Halves
<1>5. op'["r"].at = "t_read" => adapter.input = <<>> BY <1>2 DEF PlainInv, Halves
<1> QED BY <1>0, <1>3, <1>4, <1>5, PlainFrame DEF SameRead

\* A call on the stream or on one of its halves.
LEMMA PlainCall ==
  ASSUME TlsInv, PlainInv, NEW kind \in {"read", "write", "flush", "shutdown"},
         IF kind = "read" THEN CallRead ELSE CallWriter(kind)
  PROVE  PlainInv'
<1> DEFINE h == IF kind = "read" THEN "r" ELSE "w"
<1>0. UNCHANGED <<form, sess, rustls, adapter, peer, delivered>> /\ h \in Halves
  BY DEF CallRead, CallWriter, Halves
<1>1. op \in [Halves -> OpStates] BY DEF TlsInv, TlsTypes
<1>2. /\ \A g \in Halves \ {h} : op'[g] = op[g]
      /\ op'[h].at = IF kind = "read" THEN "plain" ELSE "call"
  BY Zenon, <1>1 DEF CallRead, CallWriter, Begun, IdleOp, Halves
<1>3. op'[h].at \notin Awaits BY <1>2 DEF Awaits
<1>4. EndSeen' => EndSeen BY <1>0, <1>2, <1>3 DEF EndSeen
<1>5. ReaderDead => ReaderDead' BY <1>0, <1>2, <1>3 DEF ReaderDead, Halves
<1>6. op'["r"].at = "t_read" => adapter.input = <<>> BY <1>2 DEF PlainInv, Halves
<1> QED BY <1>0, <1>4, <1>5, <1>6, PlainFrame DEF SameRead

\* A future returns and nothing was read.
LEMMA PlainBack ==
  ASSUME TlsInv, PlainInv, NEW h \in Halves, NEW result \in Results, Returns(h, result),
         op[h].at # "idle", sess'.read = "PeerClosed" => EndSeen, ReaderDead => sess'.read \in Failures,
         delivered' = delivered, peer' = peer, adapter'.input = adapter.input,
         SameRead(rustls, rustls')
  PROVE  PlainInv'
<1>1. /\ (EndSeen' => EndSeen) /\ (ReaderDead => ReaderDead') /\ op'[h].at = "idle"
      /\ \A g \in Halves \ {h} : op'[g] = op[g]
  BY ViewBack
<1>3. op'["r"].at = "t_read" => adapter.input = <<>> BY <1>1 DEF PlainInv, Halves
<1> QED BY <1>1, <1>3, PlainFrame

\* A future goes on and nothing was read.
LEMMA PlainOn ==
  ASSUME TlsInv, PlainInv, NEW h \in Halves, NEW o \in OpStates, op' = [op EXCEPT ![h] = o],
         op[h].at # "idle", form' = form, form = "engine" /\ o.at \in Awaits => o.saved = sess,
         sess'.read = "PeerClosed" => EndSeen,
         ReaderDead => sess'.read \in Failures /\ (h = "r" => o.at = "plain"),
         h = "r" /\ o.at = "t_read" => adapter.input = <<>>,
         delivered' = delivered, peer' = peer, adapter'.input = adapter.input,
         SameRead(rustls, rustls')
  PROVE  PlainInv'
<1>1. /\ (EndSeen' => EndSeen) /\ (ReaderDead => ReaderDead') /\ op'[h] = o
      /\ \A g \in Halves \ {h} : op'[g] = op[g]
  BY Zenon, ViewOn
<1>3. op'["r"].at = "t_read" => adapter.input = <<>> BY <1>1 DEF PlainInv, Halves
<1> QED BY <1>1, <1>3, PlainFrame

\* The reader asks the transport for bytes.
LEMMA PlainReceive == ASSUME TlsInv, PlainInv, NEW h \in Halves, Receive(h) PROVE PlainInv'
<1>0. /\ UNCHANGED <<form, rustls, adapter, peer, delivered>> /\ op[h].at = "receive"
      /\ \/ Goto(h, "process") /\ UNCHANGED sess
         \/ adapter.input = <<>> /\ BeginTransportIo(h, "t_read", <<>>)
  BY DEF Receive, Runs
<1>1. TlsTypes /\ h = "r" /\ sess \in Sessions BY <1>0, ReaderFacts DEF TlsInv
<1>2. ~ReaderDead BY <1>0, <1>1 DEF ReaderDead
<1>3. CASE Goto(h, "process") /\ UNCHANGED sess
  <2> PICK o \in OpStates : op' = [op EXCEPT ![h] = o] /\ o.at = "process"
    BY <1>1, <1>3, GotoFacts DEF Ats
  <2>1. sess'.read = "PeerClosed" => EndSeen BY <1>3 DEF EndSeen
  <2> QED BY Zenon, <1>0, <1>2, <2>1, PlainOn DEF SameRead, Awaits
<1>4. CASE adapter.input = <<>> /\ BeginTransportIo(h, "t_read", <<>>)
  <2> DEFINE flying == <<>>
  <2>0. flying \in Seq(Nat) /\ "t_read" \in Ats /\ BeginTransportIo(h, "t_read", flying)
    BY <1>4 DEF Ats, Awaits
  <2> HIDE DEF flying
  <2> PICK o \in OpStates : op' = [op EXCEPT ![h] = o] /\ o.at = "t_read" /\ o.saved = sess
    BY <1>1, <2>0, BeginFacts
  <2>1. sess' = IF form = "engine" THEN Abandon(sess) ELSE sess BY <1>4 DEF BeginTransportIo
  <2>2. sess'.read = "PeerClosed" => EndSeen
    <3>1. Abandon(sess).read # "PeerClosed" BY <1>1, AbandonFacts DEF Failures
    <3> QED BY <2>1, <3>1 DEF EndSeen
  <2> QED BY Zenon, <1>0, <1>2, <1>4, <2>2, PlainOn DEF SameRead
<1> QED BY <1>0, <1>3, <1>4

\* The reader finds nothing to deliver, or read_tls fails.
LEMMA PlainReturnRead ==
  ASSUME TlsInv, PlainInv, NEW h \in Halves,
         WaitForPlaintext(h) \/ ProcessFails(h)
  PROVE  PlainInv'
<1>0. UNCHANGED <<rustls, adapter, peer, delivered>> /\ op[h].at \in {"wait", "process"}
  BY DEF WaitForPlaintext, ProcessFails, Runs
<1>1. TlsTypes /\ h = "r" /\ sess \in Sessions /\ Sound(sess) BY <1>0, ReaderFacts DEF TlsInv
<1>2. ~ReaderDead BY <1>0, <1>1 DEF ReaderDead
<1>3. "eof" \in Failures /\ "io" \in Failures /\ "eof" \in Results /\ "io" \in Results
  BY DEF Failures, Results
<1>4. FailRead(sess, "eof").read # "PeerClosed" /\ FailBoth(sess, "io").read # "PeerClosed"
  BY <1>1, <1>3, FailReadFacts, FailBothFacts DEF Failures
<1>5. /\ sess' \in {sess, FailRead(sess, "eof"), FailBoth(sess, "io")}
      /\ \/ Returns(h, "eof") \/ Returns(h, "io")
         \/ Goto(h, "receive") /\ UNCHANGED form
  BY DEF WaitForPlaintext, ProcessFails, ProcessError
<1>6. sess'.read = "PeerClosed" => EndSeen BY <1>4, <1>5 DEF EndSeen
<1>7. CASE Returns(h, "eof") \/ Returns(h, "io")
  BY <1>0, <1>2, <1>3, <1>6, <1>7, PlainBack DEF SameRead
<1>8. CASE Goto(h, "receive") /\ UNCHANGED form
  <2> PICK o \in OpStates : op' = [op EXCEPT ![h] = o] /\ o.at = "receive"
    BY <1>1, <1>8, GotoFacts DEF Ats
  <2> QED BY Zenon, <1>0, <1>2, <1>6, <1>8, PlainOn DEF SameRead, Awaits
<1> QED BY <1>5, <1>7, <1>8

\* A read of the transport completes.
LEMMA PlainReadDone == ASSUME TlsInv, PlainInv, NEW h \in Halves, ReadDone(h) PROVE PlainInv'
<1>0. UNCHANGED <<rustls, delivered>> /\ op[h].at = "t_read" /\ op[h].at \in Awaits
  BY Zenon DEF ReadDone, Runs, Awaits
<1>1. TlsTypes /\ h = "r" BY <1>0, ReaderFacts DEF TlsInv
<1>2. ~ReaderDead BY <1>0, <1>1 DEF ReaderDead
<1> DEFINE s == Finished(h)
<1>3. s \in Sessions /\ Sound(s) /\ (s.read = "PeerClosed" => EndSeen)
  BY <1>0, FinishedFacts, FinishedRead
<1> HIDE DEF s
<1>4. ASSUME NEW n \in 0..(Len(peer.script) - peer.at),
             adapter' = [adapter EXCEPT !.input = Positions(n), !.eof = (n = 0)],
             peer' = [peer EXCEPT !.at = @ + n],
             sess' = s, Goto(h, "process"), form' = form
      PROVE  PlainInv'
  <2> PICK o \in OpStates : op' = [op EXCEPT ![h] = o] /\ o.at = "process"
    BY <1>1, <1>4, GotoFacts DEF Ats
  <2>1. (EndSeen' => EndSeen) /\ op'["r"].at = "process"
    BY Zenon, <1>0, <1>1, <1>2, <1>3, <1>4, ViewOn DEF Awaits
  <2>2. Live BY <1>2 DEF PlainInv
  <2>3. adapter.input = <<>> BY <1>0, <1>1 DEF PlainInv
  <2>4. /\ peer.at \in Nat /\ n \in Nat /\ Taken = peer.at
    BY <1>1, <1>4, <2>3 DEF TlsTypes, Taken
  <2>5. Len(Positions(n)) = n /\ \A i \in 1 .. n : Positions(n)[i] = peer.at + i
    BY <2>4 DEF Positions
  <2>6. adapter'.input = Positions(n) BY <1>1, <1>4 DEF TlsTypes, Adapters
  <2>7. peer'.at = peer.at + n /\ peer'.script = peer.script BY <1>1, <1>4 DEF TlsTypes
  <2>8. Taken' = Taken BY <2>4, <2>5, <2>6, <2>7 DEF Taken
  <2>9. Counts(adapter'.input, Taken') BY <2>4, <2>5, <2>6, <2>8 DEF Counts
  <2>10. Came(Taken)' BY <1>0, <2>2, <2>7, <2>8 DEF Live, Came, Progress
  <2>11. Live' BY <2>2, <2>8, <2>9, <2>10 DEF Live
  <2> QED BY <1>0, <2>1, <2>11 DEF PlainInv
<1>5. ASSUME NEW f \in {"io", "canceled"},
             sess' = IF f = "canceled" THEN FailBoth(s, f) ELSE FailRead(s, f),
             Returns(h, f), UNCHANGED <<adapter, peer>>
      PROVE  PlainInv'
  <2>1. f \in Failures /\ f \in Results BY DEF Failures, Results
  <2>2. sess'.read # "PeerClosed" BY <1>3, <1>5, <2>1, FailReadFacts, FailBothFacts DEF Failures
  <2> QED BY <1>0, <1>2, <1>5, <2>1, <2>2, PlainBack DEF SameRead
<1> QED BY Zenon, <1>4, <1>5 DEF ReadDone, s

\* A future is dropped before it returned.
LEMMA PlainDropFuture == ASSUME TlsInv, PlainInv, NEW h \in Halves, DropFuture(h) PROVE PlainInv'
<1>0. /\ UNCHANGED <<rustls, adapter, delivered>> /\ op[h].at \in Awaits /\ Returns(h, "dropped")
      /\ sess' = IF form = "split" THEN Abandon(sess) ELSE sess
  BY DEF DropFuture, Runs
<1>1. TlsTypes /\ Control BY DEF TlsInv
<1>2. PICK m \in 0..(Len(peer.script) - peer.at) :
       (op[h].at # "t_read" => m = 0) /\ peer' = [peer EXCEPT !.at = @ + m]
  BY DEF DropFuture
<1>3. sess \in Sessions BY <1>1 DEF TlsTypes
<1>4. Abandon(sess).read \in Failures BY <1>3, AbandonFacts
<1>5. "dropped" \in Results /\ op[h].at # "idle" BY <1>0 DEF Results, Awaits
<1>6. sess'.read = "PeerClosed" => EndSeen BY <1>0, <1>4 DEF EndSeen, Failures
<1>7. ReaderDead => sess'.read \in Failures BY <1>0, <1>4 DEF ReaderDead
<1>8. CASE op[h].at # "t_read"
  <2>1. peer' = peer
    <3>1. peer.at \in Nat /\ m = 0 BY <1>1, <1>2, <1>8 DEF TlsTypes
    <3>2. peer.at + m = peer.at BY <3>1
    <3> QED BY <1>1, <1>2, <3>2 DEF TlsTypes
  <2> QED BY <1>0, <1>5, <1>6, <1>7, <2>1, PlainBack DEF SameRead
<1>9. CASE op[h].at = "t_read"
  <2>1. h = "r" BY <1>9, ReaderFacts
  <2>2. sess'.read \in Failures
    <3>1. CASE form = "split" BY <1>0, <1>4, <3>1
    <3>2. CASE form = "engine"
      <4>1. sess = Abandon(op[h].saved) /\ op[h].saved \in Sessions
        BY <1>0, <1>1, <3>2 DEF Control, Marked, TlsTypes, OpStates
      <4> QED BY <1>0, <3>2, <4>1, AbandonFacts
    <3>3. form # "gone" BY <1>0, <1>1 DEF Control, Awaits, Halves
    <3> QED BY <1>1, <3>1, <3>2, <3>3 DEF TlsTypes
  <2>3. (EndSeen' => EndSeen) /\ op'[h].at = "idle" /\ \A g \in Halves \ {h} : op'[g] = op[g]
    BY <1>0, <1>5, <1>6, <1>7, ViewBack
  <2>4. form' = "engine" => op'["w"].at = "idle"
    <3>1. form' = "engine" => form = "engine" BY <1>0 DEF Returns
    <3> QED BY <1>1, <1>5, <2>1, <2>3, <3>1 DEF Control, Halves
  <2>5. ReaderDead' BY <2>1, <2>2, <2>3, <2>4 DEF ReaderDead, Awaits
  <2>6. peer'.script = peer.script BY <1>1, <1>2 DEF TlsTypes
  <2>7. PICK p \in 0 .. Len(peer.script) : Came(p)
    <3>1. CASE Live
      <4>1. Taken \in 0 .. Len(peer.script)
        BY <1>1, <3>1 DEF Live, Taken, TlsTypes, Adapters
      <4> QED BY <3>1, <4>1 DEF Live
    <3> QED BY <3>1 DEF PlainInv
  <2>8. Came(p)' BY <1>0, <2>6, <2>7 DEF Came, Progress
  <2>9. \E p1 \in 0 .. Len(peer'.script) : Came(p1)' BY <2>6, <2>8
  <2> QED BY <1>0, <2>1, <2>3, <2>5, <2>9 DEF PlainInv
<1> QED BY <1>8, <1>9

\* The reader hands the bytes to process_new_packets.
LEMMA PlainProcess == ASSUME TlsInv, PlainInv, NEW h \in Halves, Process(h) PROVE PlainInv'
<1>0. UNCHANGED <<peer, delivered>> /\ op[h].at = "process" BY DEF Process, Runs
<1>1. TlsTypes /\ h = "r" /\ sess \in Sessions /\ Sound(sess) BY <1>0, ReaderFacts DEF TlsInv
<1>2. ~ReaderDead BY <1>0, <1>1 DEF ReaderDead
<1>3. PICK n \in 0..Len(adapter.input) :
        LET fed == [rustls EXCEPT !.eof = @ \/ adapter.input = <<>>]
            now == ProcessNewPackets(fed, SubSeq(adapter.input, 1, n)) IN
          /\ (n = 0) = (adapter.input = <<>> \/ rustls.closed)
          /\ adapter' = [adapter EXCEPT !.input = IF n = 0 THEN <<>> ELSE SubSeq(@, n + 1, Len(@))]
          /\ \/ rustls' = now /\ sess' = FailProtocol(sess) /\ Returns(h, "protocol")
             \/ rustls' = now /\ GotoThen(h, "drain", "alert") /\ UNCHANGED <<sess, form>>
             \/ /\ rustls' = Touch(now)
                /\ op' = [op EXCEPT ![h].processed = TRUE,
                                    ![h].at = IF form = "split" THEN "plain" ELSE "drain",
                                    ![h].next = IF op[h].kind = "handshake" THEN "handshake" ELSE "plain"]
                /\ UNCHANGED <<sess, form>>
             \/ rustls' = now /\ ProcessError(h)
  BY Zenon DEF Process
<1> DEFINE b == rustls.eof \/ adapter.input = <<>>
           fed == [rustls EXCEPT !.eof = b]
           units == SubSeq(adapter.input, 1, n)
           now == ProcessNewPackets(fed, units)
           rest == SubSeq(adapter.input, n + 1, Len(adapter.input))
           left == IF n = 0 THEN <<>> ELSE rest
<1>4. /\ n = 0 <=> adapter.input = <<>> \/ rustls.closed
      /\ adapter' = [adapter EXCEPT !.input = left]
      /\ rustls' = now \/ rustls' = Touch(now)
  BY <1>3
\* What the session and the future become.
<1>5. (EndSeen' => EndSeen) /\ op'["r"].at # "t_read"
  <2>1. CASE sess' = FailProtocol(sess) /\ Returns(h, "protocol")
    <3>1. "protocol" \in Results BY DEF Results, Failures
    <3>2. sess'.read # "PeerClosed"
      <4> DEFINE t == RecordReadFailure(sess, "protocol")
      <4>1. t \in Sessions /\ t.read \in Failures BY <1>1 DEF RecordReadFailure, Sessions, Failures
      <4>2. sess' = t \/ sess' = [t EXCEPT !.write = "AlertPending"] BY <2>1 DEF FailProtocol
      <4> HIDE DEF t
      <4>3. sess'.read = t.read BY <4>1, <4>2 DEF Sessions
      <4> QED BY <4>1, <4>3 DEF Failures
    <3>3. (EndSeen' => EndSeen) /\ op'[h].at = "idle" BY <1>0, <1>2, <2>1, <3>1, <3>2, ViewBack
    <3> QED BY <1>1, <3>3
  <2>2. CASE GotoThen(h, "drain", "alert") /\ UNCHANGED <<sess, form>>
    <3> PICK o \in OpStates : op' = [op EXCEPT ![h] = o] /\ o.at = "drain"
      BY <1>1, <2>2, GotoThenFacts DEF Ats, Nexts
    <3>1. sess'.read = "PeerClosed" => EndSeen BY <2>2 DEF EndSeen
    <3>2. (EndSeen' => EndSeen) /\ op'[h] = o BY Zenon, <1>0, <1>2, <2>2, <3>1, ViewOn DEF Awaits
    <3> QED BY <1>1, <3>2
  <2>3. CASE /\ op' = [op EXCEPT ![h].processed = TRUE,
                                 ![h].at = IF form = "split" THEN "plain" ELSE "drain",
                                 ![h].next = IF op[h].kind = "handshake" THEN "handshake" ELSE "plain"]
             /\ UNCHANGED <<sess, form>>
    <3> DEFINE at == IF form = "split" THEN "plain" ELSE "drain"
               next == IF op[h].kind = "handshake" THEN "handshake" ELSE "plain"
               o == [op[h] EXCEPT !.processed = TRUE, !.at = at, !.next = next]
    <3>1. at \in {"plain", "drain"} /\ next \in {"handshake", "plain"} OBVIOUS
    <3>2. op' = [op EXCEPT ![h] = o] BY Zenon, <1>1, <2>3 DEF TlsTypes
    <3>3. op[h] \in OpStates BY <1>1 DEF TlsTypes
    <3> HIDE DEF at, next
    <3>4. o \in OpStates /\ o.at = at BY Zenon, <3>1, <3>3 DEF OpStates
    <3> HIDE DEF o
    <3>5. sess'.read = "PeerClosed" => EndSeen BY <2>3 DEF EndSeen
    <3>6. (EndSeen' => EndSeen) /\ op'[h] = o
      BY Zenon, <1>0, <1>2, <2>3, <3>1, <3>2, <3>4, <3>5, ViewOn DEF Awaits
    <3> QED BY <1>1, <3>1, <3>4, <3>6
  <2>4. CASE ProcessError(h)
    <3>1. "io" \in Failures /\ "io" \in Results BY DEF Failures, Results
    <3>2. sess' \in {sess, FailBoth(sess, "io")} /\ Returns(h, "io") BY <2>4 DEF ProcessError
    <3>3. FailBoth(sess, "io").read # "PeerClosed" BY <1>1, <3>1, FailBothFacts DEF Failures
    <3>4. sess'.read = "PeerClosed" => EndSeen BY <3>2, <3>3 DEF EndSeen
    <3>5. (EndSeen' => EndSeen) /\ op'[h].at = "idle" BY <1>0, <1>2, <3>1, <3>2, <3>4, ViewBack
    <3> QED BY <1>1, <3>5
  <2> QED BY Zenon, <1>3, <2>1, <2>2, <2>3, <2>4
<1>6. Live BY <1>2 DEF PlainInv
<1> DEFINE d == delivered.data
           p == Taken
<1>7. /\ adapter.input \in Seq(Nat) /\ d \in Seq(Nat) /\ peer.script \in Seq(PeerUnits)
      /\ p \in Nat /\ peer.at \in Nat /\ peer.at = p + Len(adapter.input)
      /\ peer.at <= Len(peer.script) /\ Counts(adapter.input, p)
      /\ Progress(peer.script, d \o rustls.plain, rustls, p) /\ Numbered(rustls) /\ rustls \in Conns
  <2>1. adapter.input \in Seq(Nat) /\ d \in Seq(Nat) BY <1>1 DEF TlsTypes, Adapters, PlainInv, Deliveries
  <2>2. peer.at \in Nat /\ peer.at <= Len(peer.script) /\ peer.script \in Seq(PeerUnits)
    BY <1>1 DEF TlsTypes
  <2>3. peer.at = p + Len(adapter.input) BY <2>1, <2>2 DEF Taken
  <2>4. p \in Nat /\ Counts(adapter.input, p) BY <1>6 DEF Live
  <2>5. Progress(peer.script, d \o rustls.plain, rustls, p) BY <1>6 DEF Live, Came
  <2>6. Numbered(rustls) /\ rustls \in Conns BY <1>1 DEF TlsTypes, Numbered
  <2> QED BY <2>1, <2>2, <2>3, <2>4, <2>5, <2>6
<1> HIDE DEF d, p
<1>8. fed \in Conns /\ Numbered(fed) /\ SameRead(rustls, fed)
  <2>1. b \in BOOLEAN BY <1>7 DEF Conns
  <2> HIDE DEF b
  <2>2. /\ fed \in Conns /\ SameRead(rustls, fed) /\ fed.queue = rustls.queue
        /\ fed.made = rustls.made
    BY Zenon, <1>7, <2>1 DEF Conns, SameRead
  <2> QED BY Zenon, <1>7, <2>2, SameGrows DEF Grown
<1>9. Progress(peer.script, d \o fed.plain, fed, p)
  <2> HIDE DEF fed
  <2> QED BY <1>7, <1>8 DEF SameRead, Progress
<1>10. /\ units \in Seq(Nat) /\ Len(units) = n /\ Counts(units, p)
       /\ rest \in Seq(Nat) /\ Len(rest) = Len(adapter.input) - n /\ Counts(rest, p + n)
  BY <1>7, CountsCut
<1> HIDE DEF fed, units, rest, b
<1>11. p + Len(units) <= Len(peer.script) BY <1>7, <1>10
<1>12. Progress(peer.script, d \o now.plain, now, p + n)
  <2>1. Progress(peer.script, d \o now.plain, now, p + Len(units))
    BY <1>7, <1>8, <1>9, <1>10, <1>11, PacketsProgress
  <2> QED BY <1>10, <2>1
<1>13. n = 0 => now = fed
  <2>1. PICK f : /\ f[0] = fed /\ \A k \in 1 .. Len(units) : f[k] = Packet(f[k - 1], units[k])
                 /\ ProcessNewPackets(fed, units) = f[Len(units)]
    BY Zenon, <1>10, PacketByPacket
  <2> QED BY <1>10, <2>1
<1>14. now \in Conns
  <2>1. \A i \in 1 .. Len(units) : peer.script[units[i]] \in PeerUnits
    <3> SUFFICES ASSUME NEW i \in 1 .. Len(units) PROVE peer.script[units[i]] \in PeerUnits OBVIOUS
    <3>1. units[i] = p + i BY <1>10 DEF Counts
    <3>2. p + i \in 1 .. Len(peer.script) BY <1>7, <1>10
    <3> QED BY <1>7, <3>1, <3>2
  <2> QED BY <1>8, <1>10, <2>1, PacketsGrow DEF Grown, Numbered
<1> HIDE DEF now
<1>15. SameRead(now, rustls')
  BY <1>4, <1>14, TouchPlain DEF SameRead
<1>16. \A k : Progress(peer.script, d \o now.plain, now, k) =>
              Progress(peer.script, d \o rustls'.plain, rustls', k)
  BY <1>15 DEF SameRead, Progress
<1>17. adapter'.input = left BY <1>1, <1>4 DEF TlsTypes, Adapters
<1>18. Live'
  <2>1. Taken' = peer.at - Len(left) BY <1>0, <1>17 DEF Taken
  <2>2. CASE n # 0
    <3>0. left = rest BY <2>2
    <3> HIDE DEF left
    <3>1. Taken' = p + n
      <4> DEFINE len == Len(adapter.input)
      <4>1. len \in Nat /\ n \in Nat /\ p \in Nat /\ peer.at = p + len BY <1>7
      <4>2. Taken' = peer.at - (len - n) BY Zenon, <1>10, <2>1, <3>0
      <4> HIDE DEF len
      <4>3. (p + len) - (len - n) = p + n BY <4>1
      <4> QED BY <4>1, <4>2, <4>3
    <3>2. Taken' \in Nat /\ Counts(adapter'.input, Taken') BY <1>7, <1>10, <1>17, <3>0, <3>1
    <3>3. Progress(peer.script, d \o rustls'.plain, rustls', Taken') BY <1>12, <1>16, <3>1
    <3> QED BY <1>0, <3>2, <3>3 DEF Live, Came, d
  <2>3. CASE n = 0
    <3>1. left = <<>> /\ Len(left) = 0 BY <2>3
    <3> HIDE DEF left
    <3>2. Taken' = peer.at /\ Taken' \in Nat /\ Counts(adapter'.input, Taken')
      BY <1>7, <1>17, <2>1, <3>1 DEF Counts
    <3>3. p + n = p BY <1>7, <2>3
    <3>4. Progress(peer.script, d \o now.plain, now, Taken')
      <4>1. CASE adapter.input = <<>> BY <1>7, <1>12, <3>2, <3>3, <4>1
      <4>2. CASE rustls.closed
        <5>1. now.closed BY Zenon, <1>8, <1>13, <2>3, <4>2 DEF SameRead
        <5> QED BY <1>12, <5>1 DEF Progress
      <4> QED BY <1>4, <2>3, <4>1, <4>2
    <3>5. Progress(peer.script, d \o rustls'.plain, rustls', Taken') BY <1>16, <3>4
    <3> QED BY <1>0, <3>2, <3>5 DEF Live, Came, d
  <2> QED BY <2>2, <2>3
<1>19. delivered'.ended \/ EndSeen' => rustls'.closed /\ rustls'.plain = <<>>
  <2> SUFFICES ASSUME delivered'.ended \/ EndSeen' PROVE rustls'.closed /\ rustls'.plain = <<>>
    OBVIOUS
  <2>1. rustls.closed /\ rustls.plain = <<>> BY <1>0, <1>5 DEF PlainInv
  <2>2. now = fed BY <1>4, <1>13, <2>1
  <2> QED BY Zenon, <1>8, <1>15, <2>1, <2>2 DEF SameRead
<1> QED BY <1>0, <1>5, <1>18, <1>19 DEF PlainInv

\* What is handed to the reader comes off the front of what Rustls has.
LEMMA ConcatFacts ==
  ASSUME NEW s \in Seq(Nat), NEW t \in Seq(Nat)
  PROVE  /\ s \o t \in Seq(Nat) /\ Len(s \o t) = Len(s) + Len(t)
         /\ \A i \in 1 .. Len(s \o t) : (s \o t)[i] = IF i <= Len(s) THEN s[i] ELSE t[i - Len(s)]
OBVIOUS

\* A sequence cut in two leaves two sequences.
LEMMA CutFacts ==
  ASSUME NEW s \in Seq(Nat), NEW n \in 0 .. Len(s)
  PROVE  SubSeq(s, 1, n) \in Seq(Nat) /\ SubSeq(s, n + 1, Len(s)) \in Seq(Nat)
<1>1. SubSeq(s, 1, n) \in Seq(Nat) OBVIOUS
<1> QED BY <1>1, RestFacts

\* What was delivered and what was left are what there was.
LEMMA Handover ==
  ASSUME NEW d \in Seq(Nat), NEW s \in Seq(Nat), NEW n \in 0 .. Len(s)
  PROVE  (d \o SubSeq(s, 1, n)) \o SubSeq(s, n + 1, Len(s)) = d \o s
<1> DEFINE a == SubSeq(s, 1, n)
           z == SubSeq(s, n + 1, Len(s))
<1>1. a \in Seq(Nat) /\ Len(a) = n /\ \A i \in 1 .. n : a[i] = s[i] OBVIOUS
<1>2. z \in Seq(Nat) /\ Len(z) = Len(s) - n /\ \A i \in 1 .. Len(s) - n : z[i] = s[n + i]
  BY RestFacts
<1> HIDE DEF a, z
<1> DEFINE m == d \o a
<1>3. /\ m \in Seq(Nat) /\ Len(m) = Len(d) + n
      /\ \A i \in 1 .. Len(m) : m[i] = IF i <= Len(d) THEN d[i] ELSE a[i - Len(d)]
  BY Zenon, <1>1, ConcatFacts
<1> HIDE DEF m
<1> DEFINE l == m \o z
           r == d \o s
<1>4. /\ l \in Seq(Nat) /\ Len(l) = Len(m) + Len(z)
      /\ \A i \in 1 .. Len(l) : l[i] = IF i <= Len(m) THEN m[i] ELSE z[i - Len(m)]
  BY Zenon, <1>2, <1>3, ConcatFacts
<1>5. /\ r \in Seq(Nat) /\ Len(r) = Len(d) + Len(s)
      /\ \A i \in 1 .. Len(r) : r[i] = IF i <= Len(d) THEN d[i] ELSE s[i - Len(d)]
  BY ConcatFacts
<1> HIDE DEF l, r
<1>6. Len(d) \in Nat /\ Len(s) \in Nat /\ n \in Nat OBVIOUS
<1>7. Len(l) = Len(r) BY <1>2, <1>3, <1>4, <1>5, <1>6
<1>8. ASSUME NEW i \in 1 .. Len(r) PROVE l[i] = r[i]
  <2>0. i \in 1 .. Len(l) /\ i \in 1 .. Len(d) + Len(s) BY <1>5, <1>7
  <2>1. CASE i <= Len(d)
    <3>1. i <= Len(m) /\ i \in 1 .. Len(m) BY <1>3, <1>6, <2>0, <2>1
    <3> QED BY Zenon, <1>3, <1>4, <1>5, <2>0, <2>1, <3>1
  <2>2. CASE i > Len(d) /\ i <= Len(d) + n
    <3>1. i - Len(d) \in 1 .. n /\ i <= Len(m) /\ i \in 1 .. Len(m) /\ ~(i <= Len(d))
      BY <1>3, <1>6, <2>0, <2>2
    <3>2. l[i] = m[i] /\ m[i] = a[i - Len(d)] BY Zenon, <1>3, <1>4, <2>0, <3>1
    <3>3. r[i] = s[i - Len(d)] BY <1>5, <3>1
    <3> QED BY <1>1, <3>1, <3>2, <3>3
  <2>3. CASE i > Len(d) + n
    <3>1. /\ i - (Len(d) + n) \in 1 .. Len(s) - n /\ ~(i <= Len(m)) /\ ~(i <= Len(d))
          /\ n + (i - (Len(d) + n)) = i - Len(d)
      BY <1>3, <1>6, <2>0, <2>3
    <3>2. l[i] = z[i - (Len(d) + n)] BY <1>3, <1>4, <2>0, <3>1
    <3>3. r[i] = s[i - Len(d)] BY <1>5, <3>1
    <3>4. z[i - (Len(d) + n)] = s[n + (i - (Len(d) + n))] BY Zenon, <1>2, <3>1
    <3> QED BY <3>1, <3>2, <3>3, <3>4
  <2>4. i <= Len(d) \/ (i > Len(d) /\ i <= Len(d) + n) \/ i > Len(d) + n BY <1>6, <2>0
  <2> QED BY <2>1, <2>2, <2>3, <2>4
<1>9. l = r
  <2>1. l = [i \in 1 .. Len(l) |-> l[i]] BY <1>4
  <2>2. r = [i \in 1 .. Len(r) |-> r[i]] BY <1>5
  <2>3. [i \in 1 .. Len(l) |-> l[i]] = [i \in 1 .. Len(r) |-> r[i]] BY <1>7, <1>8
  <2> QED BY Zenon, <2>1, <2>2, <2>3
<1> QED BY Zenon, <1>9 DEF l, r, m, a, z

\* Plaintext is delivered, or the end of the stream.
LEMMA PlainPlaintext == ASSUME TlsInv, PlainInv, NEW h \in Halves, Plaintext(h) PROVE PlainInv'
<1>0. UNCHANGED <<adapter, peer>> /\ op[h].at = "plain" /\ op[h].at # "idle" BY DEF Plaintext, Runs
<1>1. TlsTypes /\ h = "r" /\ sess \in Sessions /\ Sound(sess) BY <1>0, ReaderFacts DEF TlsInv
<1>2. sess.read \in Failures \/ ~ReaderDead BY DEF ReaderDead
<1>3. "ok" \in Results /\ "end" \in Results /\ "eof" \in Results /\ "eof" \in Failures
  BY DEF Results, Failures
<1>4. rustls \in Conns /\ delivered \in Deliveries BY <1>1 DEF TlsTypes, Numbered, PlainInv
<1>5. CASE sess.read \in Failures
  <2>1. Returns(h, sess.read) /\ UNCHANGED <<sess, rustls, delivered>> BY Zenon, <1>5 DEF Plaintext, Failures
  <2>2. sess.read \in Results /\ sess.read # "PeerClosed" BY <1>5 DEF Results, Failures
  <2> QED BY <1>0, <1>5, <2>1, <2>2, PlainBack DEF SameRead
\* The reader learns of the end: Rustls is closed and has nothing left.
<1>6. ASSUME NEW result \in Results, Returns(h, result), UNCHANGED rustls, sess.read \notin Failures,
             rustls.closed, rustls.plain = <<>>, delivered' = [delivered EXCEPT !.ended = TRUE]
      PROVE  PlainInv'
  <2>1. Live BY <1>2, <1>6 DEF PlainInv
  <2>2. delivered' \in Deliveries /\ delivered'.data = delivered.data BY Zenon, <1>4, <1>6 DEF Deliveries
  <2>3. Live' BY <1>0, <1>6, <2>1, <2>2 DEF Live, Taken, Came, Progress
  <2>4. op'["r"].at = "idle" BY <1>1, <1>6, ReturnType
  <2> QED BY <1>6, <2>2, <2>3, <2>4 DEF PlainInv
<1>7. CASE sess.read = "PeerClosed"
  <2>1. Returns(h, "end") /\ delivered' = [delivered EXCEPT !.ended = TRUE] /\ UNCHANGED rustls
    BY <1>7 DEF Plaintext, Failures
  <2>2. rustls.closed /\ rustls.plain = <<>> BY <1>7 DEF PlainInv, EndSeen
  <2> QED BY <1>3, <1>6, <1>7, <2>1, <2>2 DEF Failures
<1>8. CASE sess.read = "Open" /\ FirstChunk(rustls) = "available"
  <2>1. PICK capacity \in {1, 2} :
           LET n == IF capacity < Len(rustls.plain) THEN capacity ELSE Len(rustls.plain)
               left == [rustls EXCEPT !.plain = SubSeq(@, n + 1, Len(@))] IN
           /\ rustls' = left
           /\ delivered' = [delivered EXCEPT !.data = @ \o SubSeq(rustls.plain, 1, n)]
           /\ sess' = IF n < capacity /\ FirstChunk(left) = "closed"
                      THEN [sess EXCEPT !.read = "PeerClosed"] ELSE sess
           /\ Returns(h, "ok")
    BY Zenon, <1>8 DEF Plaintext, Failures
  <2> DEFINE n == IF capacity < Len(rustls.plain) THEN capacity ELSE Len(rustls.plain)
             rest == SubSeq(rustls.plain, n + 1, Len(rustls.plain))
             more == delivered.data \o SubSeq(rustls.plain, 1, n)
  <2>2. /\ rustls' = [rustls EXCEPT !.plain = rest] /\ Returns(h, "ok")
        /\ delivered' = [delivered EXCEPT !.data = more]
        /\ sess' = sess \/ FirstChunk(rustls') = "closed"
    BY <2>1
  <2>3. rustls.plain \in Seq(Nat) /\ n \in 0 .. Len(rustls.plain) /\ delivered.data \in Seq(Nat)
    <3>1. rustls.plain \in Seq(Nat) /\ delivered.data \in Seq(Nat) BY <1>4 DEF Conns, Deliveries
    <3>2. Len(rustls.plain) \in Nat BY <3>1
    <3>3. capacity \in Nat BY <2>1
    <3>4. n \in 0 .. Len(rustls.plain) BY <3>2, <3>3
    <3> QED BY <3>1, <3>4
  <2>4. SubSeq(rustls.plain, 1, n) \in Seq(Nat) /\ rest \in Seq(Nat)
    <3> HIDE DEF n
    <3> QED BY Zenon, <2>3, CutFacts
  <2>5. more \in Seq(Nat)
    <3> DEFINE front == SubSeq(rustls.plain, 1, n)
    <3>1. front \in Seq(Nat) BY <2>4
    <3> HIDE DEF front
    <3>2. delivered.data \o front \in Seq(Nat) BY Zenon, <2>3, <3>1, ConcatFacts
    <3> QED BY <3>2 DEF front
  <2>6. more \o rest = delivered.data \o rustls.plain BY Zenon, <2>3, Handover
  <2> HIDE DEF n, rest, more
  <2>7. rustls'.plain = rest /\ rustls'.closed = rustls.closed /\ rustls'.broken = rustls.broken
    BY <1>4, <2>2 DEF Conns
  <2>8. delivered' \in Deliveries /\ delivered'.data = more /\ delivered'.ended = delivered.ended
    BY Zenon, <1>4, <2>2, <2>5 DEF Deliveries
  <2>9. ~ReaderDead BY <1>2, <1>8 DEF Failures
  <2>10. Live BY <2>9 DEF PlainInv
  <2>11. Came(Taken)' BY Zenon, <1>0, <2>6, <2>7, <2>8, <2>10 DEF Live, Came, Progress, Taken
  <2>12. Live' BY <1>0, <2>10, <2>11 DEF Live, Taken
  <2>13. op'["r"].at = "idle" BY <1>1, <1>3, <2>2, ReturnType
  <2>14. rustls.plain # <<>> BY <1>8 DEF FirstChunk
  <2>15. ~delivered.ended /\ ~EndSeen BY <2>14 DEF PlainInv
  <2>16. EndSeen' => FirstChunk(rustls') = "closed"
    <3>1. CASE sess' = sess
      <4>1. sess'.read = "PeerClosed" => EndSeen BY <3>1 DEF EndSeen
      <4>2. EndSeen' => EndSeen BY <1>0, <1>3, <2>2, <2>9, <4>1, ViewBack
      <4> QED BY <2>15, <4>2
    <3> QED BY <2>2, <3>1
  <2>17. FirstChunk(rustls') = "closed" => rustls'.closed /\ rustls'.plain = <<>> BY DEF FirstChunk
  <2> QED BY <2>8, <2>12, <2>13, <2>15, <2>16, <2>17 DEF PlainInv
<1>9. CASE sess.read = "Open" /\ FirstChunk(rustls) = "closed"
  <2>1. Returns(h, "end") /\ delivered' = [delivered EXCEPT !.ended = TRUE] /\ UNCHANGED rustls
    BY <1>9 DEF Plaintext, Failures, EndOf
  <2>2. rustls.closed /\ rustls.plain = <<>> BY <1>9 DEF FirstChunk
  <2> QED BY <1>3, <1>6, <1>9, <2>1, <2>2 DEF Failures
<1>10. CASE sess.read = "Open" /\ FirstChunk(rustls) = "eof"
  <2>1. sess' = FailRead(sess, "eof") /\ Returns(h, "eof") /\ UNCHANGED <<delivered, rustls>>
    BY <1>10 DEF Plaintext, Failures, EndOf
  <2>2. sess'.read \in Failures BY <1>1, <1>3, <2>1, FailReadFacts
  <2> QED BY <1>0, <1>3, <2>1, <2>2, PlainBack DEF SameRead, Failures
<1>11. CASE sess.read = "Open" /\ FirstChunk(rustls) \notin {"available", "closed", "eof"}
  <2>1. /\ UNCHANGED <<form, sess, rustls, delivered>>
        /\ GotoThen(h, "drain", "wait") \/ Goto(h, "wait")
    BY Zenon, <1>11 DEF Plaintext, Failures
  <2>2. \E o \in OpStates : op' = [op EXCEPT ![h] = o] /\ o.at \in {"wait", "drain"}
    BY <1>1, <2>1, GotoFacts, GotoThenFacts DEF Ats, Nexts
  <2> PICK o \in OpStates : op' = [op EXCEPT ![h] = o] /\ o.at \in {"wait", "drain"} BY Zenon, <2>2
  <2>3. sess'.read = "PeerClosed" => EndSeen BY <2>1 DEF EndSeen
  <2>4. ~ReaderDead BY <1>2, <1>11 DEF Failures
  <2> QED BY Zenon, <1>0, <2>1, <2>3, <2>4, PlainOn DEF SameRead, Awaits
<1> QED BY <1>1, <1>5, <1>7, <1>8, <1>9, <1>10, <1>11 DEF Sessions

\* drain_output writes, or has written.
LEMMA PlainDrainWrites == ASSUME TlsInv, PlainInv, NEW h \in Halves, DrainWrites(h) PROVE PlainInv'
<1> DEFINE room == IF Len(rustls.queue) < OutCapacity THEN Len(rustls.queue) ELSE OutCapacity
           left == SubSeq(rustls.queue, room + 1, Len(rustls.queue))
           o == [op[h] EXCEPT !.at = "t_write", !.saved = sess,
                              !.flying = IF adapter.output # <<>> THEN adapter.output
                                         ELSE SubSeq(rustls.queue, 1, room)]
<1>0. /\ UNCHANGED <<form, peer, delivered>> /\ op[h].at = "drain"
      /\ rustls' = IF adapter.output # <<>> THEN rustls ELSE [rustls EXCEPT !.queue = left]
      /\ adapter' = [adapter EXCEPT !.output = <<>>]
      /\ sess' = IF form = "engine" THEN Abandon(sess) ELSE sess
  BY DEF DrainWrites, Runs, BeginTransportIo
<1>1. TlsTypes BY DEF TlsInv
<1>2. op' \in [Halves -> OpStates] /\ op' = [op EXCEPT ![h] = o]
  <2>1. op' \in [Halves -> OpStates] BY DrainWritesStep DEF TlsInv, TlsTypes
  <2>2. op' = [op EXCEPT ![h] = o] BY Zenon, <1>1 DEF DrainWrites, BeginTransportIo, TlsTypes
  <2> QED BY <2>1, <2>2
<1>3. o \in OpStates /\ o.at = "t_write" /\ o.saved = sess
  <2>1. o.at = "t_write" /\ o.saved = sess BY <1>1 DEF TlsTypes, OpStates
  <2>2. op'[h] = o BY <1>1, <1>2 DEF TlsTypes
  <2> QED BY <1>2, <2>1, <2>2
<1> HIDE DEF o, left
<1>4. SameRead(rustls, rustls') BY <1>0, <1>1 DEF SameRead, TlsTypes, Numbered, Conns
<1>5. adapter'.input = adapter.input BY <1>0, <1>1 DEF TlsTypes, Adapters
<1>6. sess \in Sessions BY <1>1 DEF TlsTypes
<1>7. Abandon(sess).read \in Failures BY <1>6, AbandonFacts
<1>8. ReaderDead => h = "w" /\ sess'.read \in Failures BY <1>0, <1>7 DEF ReaderDead, Halves
<1>9. sess'.read = "PeerClosed" => EndSeen BY <1>0, <1>7 DEF EndSeen, Failures
<1> QED BY Zenon, <1>0, <1>2, <1>3, <1>4, <1>5, <1>8, <1>9, PlainOn

\* A write to the transport completes.
LEMMA PlainWriteDone == ASSUME TlsInv, PlainInv, NEW h \in Halves, WriteDone(h) PROVE PlainInv'
<1>0. UNCHANGED <<rustls, peer, delivered>> /\ op[h].at = "t_write" /\ op[h].at \in Awaits
  BY DEF WriteDone, Runs, Awaits
<1>1. TlsTypes BY DEF TlsInv
<1> DEFINE s == Finished(h)
<1>2. /\ s \in Sessions /\ Sound(s) /\ (s.read = "PeerClosed" => EndSeen)
      /\ ReaderDead => h = "w" /\ s.read \in Failures
  BY <1>0, FinishedFacts, FinishedRead
<1>3. /\ \E out : adapter' = [adapter EXCEPT !.output = out]
      /\ \/ sess' = s /\ Goto(h, "drain") /\ UNCHANGED form
         \/ \E f \in {"io", "canceled"} : DrainError(h, s, f)
  BY DEF WriteDone
<1> HIDE DEF s
<1>4. adapter'.input = adapter.input BY <1>1, <1>3 DEF TlsTypes, Adapters
<1>5. CASE sess' = s /\ Goto(h, "drain") /\ UNCHANGED form
  <2> PICK o \in OpStates : op' = [op EXCEPT ![h] = o] /\ o.at = "drain"
    BY <1>1, <1>5, GotoFacts DEF Ats
  <2> QED BY Zenon, <1>0, <1>2, <1>4, <1>5, PlainOn DEF SameRead, Awaits
<1>6. ASSUME NEW f \in {"io", "canceled"}, DrainError(h, s, f) PROVE PlainInv'
  <2>1. \E g \in Failures : Returns(h, g) /\ sess'.read \in Failures
    <3>1. CASE form = "split" /\ WriteFailed(s)
      <4> DEFINE u == [s EXCEPT !.write = WriteFailure(s)]
      <4>1. sess' = u /\ Returns(h, WriteFailure(s)) BY <1>6, <3>1 DEF DrainError
      <4>2. WriteFailure(s) \in Failures /\ u.read \in Failures BY Zenon, <1>2, <3>1, WriteFailureFacts
      <4> HIDE DEF u
      <4> QED BY <4>1, <4>2
    <3>2. CASE ~(form = "split" /\ WriteFailed(s))
      <4> DEFINE g == IF op[h].next = "alert" THEN "protocol" ELSE f
      <4>1. sess' = FailBoth(s, g) /\ Returns(h, g) BY <1>6, <3>2 DEF DrainError
      <4>2. g \in Failures BY DEF Failures
      <4> HIDE DEF g
      <4> QED BY <1>2, <4>1, <4>2, FailBothFacts
    <3> QED BY <3>1, <3>2
  <2> PICK g \in Failures : Returns(h, g) /\ sess'.read \in Failures BY <2>1
  <2>2. g \in Results /\ sess'.read # "PeerClosed" BY DEF Results, Failures
  <2> QED BY <1>0, <1>4, <2>2, PlainBack DEF SameRead
<1> QED BY <1>3, <1>5, <1>6

\* The read side of the session is as it was, or has failed.
LEMMA ReadSideKept ==
  ASSUME sess'.read = sess.read \/ sess'.read \in Failures
  PROVE  (sess'.read = "PeerClosed" => EndSeen) /\ (ReaderDead => sess'.read \in Failures)
BY DEF EndSeen, ReaderDead, Failures

\* The close_notify of this side does not touch the reader.
LEMMA CloseNotifyPlain ==
  ASSUME TlsInv, SendCloseNotify
  PROVE  sess'.read = sess.read /\ SameRead(rustls, rustls')
<1>1. sess \in Sessions /\ rustls \in Conns BY DEF TlsInv, TlsTypes, Numbered
<1>2. CASE sess.write = "Open"
  <2>1. sess' = [sess EXCEPT !.write = "Closing"] /\ rustls' = Queue(rustls)
    BY <1>2 DEF SendCloseNotify
  <2> QED BY <1>1, <2>1, QueuePlain DEF Sessions, SameRead
<1>3. CASE sess.write # "Open" BY <1>3 DEF SendCloseNotify, SameRead
<1> QED BY <1>2, <1>3

\* The drain is over.
LEMMA PlainDrainEnds == ASSUME TlsInv, PlainInv, NEW h \in Halves, DrainEnds(h) PROVE PlainInv'
<1>0. UNCHANGED <<adapter, peer, delivered>> /\ op[h].at = "drain" BY DEF DrainEnds, Runs
<1>1. TlsTypes /\ Control BY DEF TlsInv
<1>2. sess \in Sessions /\ Sound(sess) /\ rustls \in Conns BY <1>1 DEF TlsTypes, Control, Numbered
<1>3. /\ op[h].next \in {"handshake", "alert", "plain", "wait", "write", "written", "flush", "shutdown"}
      /\ op[h] \in OpStates
  BY <1>0, <1>1 DEF Control, InPlace, TlsTypes, OpStates
<1>4. ReaderDead => h = "w" BY <1>0 DEF ReaderDead, Halves
<1>5. SameRead(rustls, rustls) BY DEF SameRead
<1>6. ASSUME NEW result \in Results, Returns(h, result), UNCHANGED rustls,
             sess'.read = sess.read \/ sess'.read \in Failures
      PROVE  PlainInv'
  BY <1>0, <1>5, <1>6, ReadSideKept, PlainBack
<1>7. ASSUME NEW o \in OpStates, op' = [op EXCEPT ![h] = o], form' = form,
             form = "engine" /\ o.at \in Awaits => o.saved = sess,
             sess'.read = sess.read \/ sess'.read \in Failures,
             o.at # "t_read", SameRead(rustls, rustls')
      PROVE  PlainInv'
  BY Zenon, <1>0, <1>4, <1>7, ReadSideKept, PlainOn
<1>8. /\ {"ok", "eof", "protocol", "broken_pipe", "io"} \subseteq Results
      /\ {"protocol", "io"} \subseteq Failures
  BY DEF Results, Failures
<1>9. \A f \in {"protocol", "io"} : FailBoth(sess, f).read \in Failures
  BY <1>2, <1>8, FailBothFacts
<1>10. CASE form = "split" /\ WriteFailed(sess)
  <2> DEFINE u == [sess EXCEPT !.write = WriteFailure(sess)]
  <2>1. sess' = u /\ Returns(h, WriteFailure(sess)) /\ UNCHANGED rustls
    BY <1>10 DEF DrainEnds, DrainError
  <2>2. WriteFailure(sess) \in Failures /\ u.read \in Failures BY Zenon, <1>2, <1>10, WriteFailureFacts
  <2> HIDE DEF u
  <2>3. WriteFailure(sess) \in Results BY <2>2 DEF Results
  <2> QED BY <1>6, <2>1, <2>2, <2>3
<1>11. CASE ~(form = "split" /\ WriteFailed(sess))
  <2>0. AfterDrain(h) BY <1>11 DEF DrainEnds
  <2>1. ASSUME NEW at \in {"receive", "plain", "wait"}, Goto(h, at), UNCHANGED <<form, sess, rustls>>
        PROVE  PlainInv'
    <3> PICK o \in OpStates : op' = [op EXCEPT ![h] = o] /\ o.at = at
      BY <1>1, <2>1, GotoFacts DEF Ats
    <3> QED BY Zenon, <1>5, <1>7, <2>1 DEF Awaits
  <2>2. CASE op[h].next = "handshake"
    <3>1. /\ UNCHANGED <<sess, rustls>>
          /\ Returns(h, "ok") \/ Returns(h, "eof") \/ (Goto(h, "receive") /\ UNCHANGED form)
      BY <2>0, <2>2 DEF AfterDrain
    <3> QED BY <1>6, <1>8, <2>1, <3>1
  <2>3. CASE op[h].next = "alert"
    <3>1. sess' = FailBoth(sess, "protocol") /\ Returns(h, "protocol") /\ UNCHANGED rustls
      BY <2>0, <2>3 DEF AfterDrain
    <3> QED BY <1>6, <1>8, <1>9, <3>1
  <2>4. CASE op[h].next \in {"plain", "wait"}
    <3>1. Goto(h, op[h].next) /\ UNCHANGED <<form, sess, rustls>> BY Zenon, <2>0, <2>4 DEF AfterDrain
    <3> QED BY <2>1, <2>4, <3>1
  <2>5. CASE op[h].next = "write"
    <3>1. \/ Returns(h, "broken_pipe") /\ UNCHANGED <<sess, rustls>>
          \/ /\ rustls' = Queue(Touch(rustls))
             /\ op' = [op EXCEPT ![h].next = "written", ![h].unit = rustls'.made]
             /\ UNCHANGED <<form, sess>>
          \/ sess' = FailBoth(sess, "io") /\ Returns(h, "io") /\ UNCHANGED rustls
      BY <2>0, <2>5 DEF AfterDrain
    <3>2. CASE /\ rustls' = Queue(Touch(rustls))
               /\ op' = [op EXCEPT ![h].next = "written", ![h].unit = rustls'.made]
               /\ UNCHANGED <<form, sess>>
      <4> DEFINE u == rustls'.made
                 o == [op[h] EXCEPT !.next = "written", !.unit = u]
      <4>1. Touch(rustls) \in Conns
        BY <1>1, TouchGrows DEF TlsTypes, Grown, Numbered
      <4>2. SameRead(rustls, rustls') BY <1>2, <3>2, <4>1, TouchPlain, QueuePlain DEF SameRead
      <4>3. u \in Nat BY <3>2, <4>1 DEF Queue, Conns
      <4>4. op' = [op EXCEPT ![h] = o] BY Zenon, <1>1, <3>2 DEF TlsTypes
      <4> HIDE DEF u
      <4>5. o \in OpStates /\ o.at = "drain" BY Zenon, <1>0, <1>3, <4>3 DEF OpStates
      <4> HIDE DEF o
      <4> QED BY Zenon, <1>7, <3>2, <4>2, <4>4, <4>5 DEF Awaits
    <3> QED BY <1>6, <1>8, <1>9, <3>1, <3>2
  <2>6. CASE op[h].next = "written"
    <3>1. Returns(h, "ok") /\ UNCHANGED <<sess, rustls>> BY <2>0, <2>6 DEF AfterDrain
    <3> QED BY <1>6, <1>8, <3>1
  <2>7. CASE op[h].next = "shutdown"
    <3>1. SendCloseNotify /\ GotoThen(h, "drain", "flush") /\ form' = form
      BY <2>0, <2>7 DEF AfterDrain
    <3>2. sess'.read = sess.read /\ SameRead(rustls, rustls') BY <3>1, CloseNotifyPlain
    <3>3. PICK o \in OpStates : op' = [op EXCEPT ![h] = o] /\ o.at = "drain"
      BY <1>1, <3>1, GotoThenFacts DEF Ats, Nexts
    <3> QED BY Zenon, <1>7, <3>1, <3>2, <3>3 DEF Awaits
  <2>8. CASE op[h].next = "flush"
    <3> DEFINE flying == <<>>
    <3>1. BeginTransportIo(h, "t_flush", flying) /\ UNCHANGED <<form, rustls>> /\ flying \in Seq(Nat)
      BY <2>0, <2>8 DEF AfterDrain
    <3> HIDE DEF flying
    <3>2. PICK o \in OpStates : op' = [op EXCEPT ![h] = o] /\ o.at = "t_flush" /\ o.saved = sess
      BY <1>1, <3>1, BeginFacts DEF Ats, Awaits
    <3>3. sess' = IF form = "engine" THEN Abandon(sess) ELSE sess BY <3>1 DEF BeginTransportIo
    <3>4. Abandon(sess).read \in Failures BY <1>2, AbandonFacts
    <3> QED BY Zenon, <1>5, <1>7, <3>1, <3>2, <3>3, <3>4
  <2> QED BY <1>3, <2>2, <2>3, <2>4, <2>5, <2>6, <2>7, <2>8
<1> QED BY <1>10, <1>11

\* A call of the writer starts, flushes or shuts down.
LEMMA PlainWriter ==
  ASSUME TlsInv, PlainInv, EnterWriter \/ FlushDone \/ Shut \/ ShutdownDone
  PROVE  PlainInv'
<1>0. /\ UNCHANGED <<adapter, peer, delivered>> /\ "w" \in Halves
      /\ op["w"].at \in {"call", "t_flush", "shut", "t_shutdown"}
  BY DEF EnterWriter, FlushDone, Shut, ShutdownDone, Runs, Halves
<1>1. TlsTypes BY DEF TlsInv
<1>2. /\ sess \in Sessions /\ Sound(sess) /\ rustls \in Conns
      /\ op["w"].kind \in {"write", "flush", "shutdown"}
  BY <1>0, WriterFacts DEF Numbered
<1>3. SameRead(rustls, rustls) BY DEF SameRead
<1> DEFINE s == Finished("w")
<1>4. op["w"].at \in Awaits =>
        /\ s \in Sessions /\ Sound(s) /\ (s.read = "PeerClosed" => EndSeen)
        /\ ReaderDead => s.read \in Failures
  BY <1>0, FinishedFacts, FinishedRead
<1>5. (sess'.read = "PeerClosed" => EndSeen) /\ (ReaderDead => sess'.read \in Failures)
      /\ SameRead(rustls, rustls')
  <2>1. CASE EnterWriter
    <3>1. SendCloseNotify \/ UNCHANGED <<sess, rustls>> BY <2>1 DEF EnterWriter
    <3>2. sess'.read = sess.read /\ SameRead(rustls, rustls') BY <1>3, <3>1, CloseNotifyPlain
    <3> QED BY <3>2, ReadSideKept
  <2>2. CASE FlushDone
    <3>1. op["w"].at \in Awaits /\ rustls' = rustls
          /\ (sess' = s \/ \E f \in {"io", "canceled"} : sess' = FailBoth(s, f))
      BY <2>2 DEF FlushDone, Runs, Awaits
    <3> HIDE DEF s
    <3>2. \A f \in {"io", "canceled"} : FailBoth(s, f).read \in Failures
      BY <1>4, <3>1, FailBothFacts DEF Failures
    <3>3. "PeerClosed" \notin Failures BY DEF Failures
    <3> QED BY <1>3, <1>4, <3>1, <3>2, <3>3
  <2>3. CASE Shut
    <3>1. rustls' = rustls /\ sess' = IF form = "engine" THEN Abandon(sess) ELSE sess
      BY <2>3 DEF Shut, BeginTransportIo
    <3>2. Abandon(sess).read \in Failures BY <1>2, AbandonFacts
    <3> QED BY <1>3, <3>1, <3>2, ReadSideKept
  <2>4. CASE ShutdownDone
    <3>1. op["w"].at \in Awaits /\ rustls' = rustls
          /\ \/ sess' = [s EXCEPT !.write = "Closed"]
             \/ \E f \in {"io", "canceled"} : sess' = FailBoth(s, f)
      BY <2>4 DEF ShutdownDone, Runs, Awaits
    <3> HIDE DEF s
    <3>2. \A f \in {"io", "canceled"} : FailBoth(s, f).read \in Failures
      BY <1>4, <3>1, FailBothFacts DEF Failures
    <3>3. sess' = [s EXCEPT !.write = "Closed"] => sess'.read = s.read BY <1>4, <3>1 DEF Sessions
    <3>4. "PeerClosed" \notin Failures BY DEF Failures
    <3> QED BY <1>3, <1>4, <3>1, <3>2, <3>3, <3>4
  <2> QED BY <2>1, <2>2, <2>3, <2>4
<1> HIDE DEF s
<1>6. ASSUME NEW result \in Results, Returns("w", result) PROVE PlainInv'
  BY <1>0, <1>5, <1>6, PlainBack
<1>7. ASSUME NEW at \in {"drain", "shut"}, NEW next \in Nexts, UNCHANGED form,
             Goto("w", at) \/ GotoThen("w", at, next)
      PROVE  PlainInv'
  <2>1. \E o \in OpStates : op' = [op EXCEPT !["w"] = o] /\ o.at = at
    BY <1>0, <1>1, <1>7, GotoFacts, GotoThenFacts DEF Ats
  <2> PICK o \in OpStates : op' = [op EXCEPT !["w"] = o] /\ o.at = at BY Zenon, <2>1
  <2> QED BY Zenon, <1>0, <1>5, <1>7, PlainOn DEF Awaits
<1>8. Failures \subseteq Results /\ {"ok", "broken_pipe"} \subseteq Results BY DEF Results
<1>9. WriteFailed(sess) => WriteFailure(sess) \in Failures BY Zenon, <1>2, WriteFailureFacts
<1>10. CASE EnterWriter
  <2>1. \/ Returns("w", IF op["w"].kind = "write" THEN "broken_pipe" ELSE "ok")
        \/ WriteFailed(sess) /\ Returns("w", WriteFailure(sess))
        \/ Returns("w", "broken_pipe")
        \/ EnterDrain("w", "flush")
        \/ EnterDrain("w", op["w"].kind)
    BY <1>10 DEF EnterWriter
  <2>2. (IF op["w"].kind = "write" THEN "broken_pipe" ELSE "ok") \in Results BY <1>8
  <2>3. ASSUME NEW next \in {"write", "flush", "shutdown"}, EnterDrain("w", next) PROVE PlainInv'
    <3>1. \/ sess.write \in Failures /\ Returns("w", sess.write)
          \/ GotoThen("w", "drain", next) /\ UNCHANGED form
      BY <2>3 DEF EnterDrain
    <3>2. next \in Nexts BY DEF Nexts
    <3> QED BY <1>6, <1>7, <1>8, <3>1, <3>2
  <2> QED BY <1>2, <1>6, <1>8, <1>9, <2>1, <2>2, <2>3
<1>11. CASE FlushDone
  <2>1. \/ \E f \in {"io", "canceled"} : Returns("w", f)
        \/ WriteFailed(sess) /\ Returns("w", WriteFailure(sess))
        \/ Returns("w", "ok")
        \/ Goto("w", "shut") /\ UNCHANGED form
    BY <1>11 DEF FlushDone
  <2>2. "none" \in Nexts /\ {"io", "canceled"} \subseteq Failures BY DEF Nexts, Failures
  <2> QED BY <1>6, <1>7, <1>8, <1>9, <2>1, <2>2
<1>12. CASE Shut
  <2> DEFINE flying == <<>>
  <2>1. BeginTransportIo("w", "t_shutdown", flying) /\ flying \in Seq(Nat) /\ form' = form
    BY <1>12 DEF Shut
  <2> HIDE DEF flying
  <2> PICK o \in OpStates : op' = [op EXCEPT !["w"] = o] /\ o.at = "t_shutdown" /\ o.saved = sess
    BY <1>0, <1>1, <2>1, BeginFacts DEF Ats, Awaits
  <2> QED BY Zenon, <1>0, <1>5, <2>1, PlainOn
<1>13. CASE ShutdownDone
  <2>1. Returns("w", "ok") \/ \E f \in {"io", "canceled"} : Returns("w", f)
    BY <1>13 DEF ShutdownDone
  <2>2. {"io", "canceled"} \subseteq Failures BY DEF Failures
  <2> QED BY <1>6, <1>8, <2>1, <2>2
<1> QED BY <1>10, <1>11, <1>12, <1>13

\* The invariant holds of a new stream.
LEMMA PlainStarts == ASSUME TlsInit PROVE PlainInv
<1>1. /\ adapter = [input |-> <<>>, eof |-> FALSE, output |-> <<>>]
      /\ delivered = [data |-> <<>>, ended |-> FALSE] /\ sess.read = "Open"
      /\ rustls.plain = <<>> /\ ~rustls.closed /\ ~rustls.broken /\ peer.at = 0
  BY DEF TlsInit
<1>2. op["r"].at = "drain" /\ op["w"].at = "idle" BY Zenon DEF TlsInit, IdleOp, Halves
<1>3. <<>> \in Seq(Nat) /\ Len(<<>>) = 0 /\ <<>> \o <<>> = <<>> OBVIOUS
<1>4. delivered \in Deliveries BY <1>1, <1>3 DEF Deliveries
<1>5. Taken = 0 /\ Counts(adapter.input, 0)
  <2>1. adapter.input = <<>> BY <1>1
  <2>2. Len(adapter.input) = 0 BY <1>3, <2>1
  <2>5. peer.at = 0 BY <1>1
  <2>3. Taken = 0 BY <2>2, <2>5 DEF Taken
  <2>4. 1 .. Len(adapter.input) = {} BY <2>2
  <2> QED BY <2>3, <2>4 DEF Counts
<1>6. Ordered(peer.script, <<>>, 0) BY <1>3 DEF Ordered
<1>7. Came(0)
  <2>1. delivered.data \o rustls.plain = <<>> BY <1>1, <1>3
  <2> QED BY <1>1, <1>6, <2>1 DEF Came, Progress
<1>8. Live BY <1>5, <1>7 DEF Live
<1>9. ~EndSeen BY <1>1, <1>2 DEF EndSeen, Halves, Awaits
<1> QED BY <1>1, <1>2, <1>4, <1>8, <1>9 DEF PlainInv

\* Every step keeps the invariant.
LEMMA PlainInvariance == TlsInv /\ PlainInv /\ [TlsNext]_tlsVars => PlainInv'
<1> SUFFICES ASSUME TlsInv, PlainInv, [TlsNext]_tlsVars PROVE PlainInv' OBVIOUS
<1>1. CASE UNCHANGED tlsVars
  <2>1. UNCHANGED <<form, sess, rustls, adapter, op, peer, delivered>> BY <1>1 DEF tlsVars
  <2>2. EndSeen' => EndSeen BY <2>1 DEF EndSeen
  <2>3. ReaderDead => ReaderDead' BY <2>1 DEF ReaderDead
  <2>4. op'["r"].at = "t_read" => adapter'.input = <<>> BY <2>1 DEF PlainInv
  <2> QED BY <2>1, <2>2, <2>3, <2>4, PlainFrame DEF SameRead
<1>2. ASSUME NEW h \in Halves,
             \/ DrainWrites(h) \/ WriteDone(h) \/ DrainEnds(h) \/ DropFuture(h) \/ DropHalf(h)
             \/ Receive(h) \/ ReadDone(h) \/ Process(h) \/ ProcessFails(h) \/ Plaintext(h)
             \/ WaitForPlaintext(h)
      PROVE  PlainInv'
  <2>1. CASE DrainWrites(h) \/ WriteDone(h) \/ DrainEnds(h) \/ DropFuture(h) \/ DropHalf(h)
    BY <2>1, PlainDrainWrites, PlainWriteDone, PlainDrainEnds, PlainDropFuture, PlainDropHalf
  <2>2. CASE \/ Receive(h) \/ ReadDone(h) \/ Process(h) \/ ProcessFails(h) \/ Plaintext(h)
             \/ WaitForPlaintext(h)
    BY <2>2, PlainReceive, PlainReadDone, PlainProcess, PlainPlaintext, PlainReturnRead
  <2> QED BY <1>2, <2>1, <2>2
<1>3. CASE CallRead BY <1>3, PlainCall
<1>4. ASSUME NEW kind \in {"write", "flush", "shutdown"}, CallWriter(kind) PROVE PlainInv'
  BY <1>4, PlainCall
<1>5. CASE EnterWriter \/ FlushDone \/ Shut \/ ShutdownDone BY <1>5, PlainWriter
<1>6. CASE SplitStream \/ ReuniteHalves \/ IntoParts BY <1>6, PlainForm
<1> QED BY <1>1, <1>2, <1>3, <1>4, <1>5, <1>6 DEF TlsNext

\* What has come out of Rustls starts with what was delivered.
LEMMA DeliveredInOrder == ASSUME TlsInv, PlainInv PROVE PlaintextFaithful
<1> DEFINE got == delivered.data
           plain == rustls.plain
           all == got \o plain
           script == peer.script
           Sent(n) == {k \in 1 .. n : peer.script[k] = "data"}
           Got == {got[j] : j \in DOMAIN got}
<1>1. got \in Seq(Nat) /\ plain \in Seq(Nat) /\ script \in Seq(PeerUnits)
  BY DEF PlainInv, Deliveries, TlsInv, TlsTypes, Numbered, Conns
<1>2. PICK p \in 0 .. Len(script) :
        /\ Ordered(script, all, p)
        /\ rustls.closed => p \in 1 .. Len(script) /\ script[p] = "close"
  <2>1. PICK p \in 0 .. Len(script) : Progress(script, all, rustls, p)
    <3>1. CASE Live
      <4>1. Taken \in 0 .. Len(script)
        BY <3>1 DEF Live, Taken, TlsInv, TlsTypes, Adapters
      <4> QED BY <3>1, <4>1 DEF Live, Came
    <3> QED BY <3>1 DEF PlainInv, Came
  <2> HIDE DEF all, script
  <2>2. CASE rustls.closed
    <3>1. PICK q \in 1 .. Len(script) : script[q] = "close" /\ Ordered(script, all, q)
      BY <2>1, <2>2 DEF Progress
    <3> QED BY <3>1
  <2>3. CASE ~rustls.closed BY <2>1, <2>3 DEF Progress
  <2> QED BY <2>2, <2>3
<1>3. /\ Len(got) \in Nat /\ Len(all) = Len(got) + Len(plain) /\ Len(plain) \in Nat
      /\ \A i \in 1 .. Len(got) : i \in 1 .. Len(all) /\ all[i] = got[i]
  <2> HIDE DEF got, plain
  <2>1. Len(got) \in Nat /\ Len(plain) \in Nat BY <1>1
  <2>2. /\ Len(all) = Len(got) + Len(plain)
        /\ \A i \in 1 .. Len(all) : all[i] = IF i <= Len(got) THEN got[i] ELSE plain[i - Len(got)]
    BY <1>1, ConcatFacts
  <2> HIDE DEF all
  <2> QED BY <2>1, <2>2
<1> HIDE DEF all
<1>4. DOMAIN got = 1 .. Len(got) BY <1>1
<1>5. /\ \A i, j \in 1 .. Len(all) : i < j => all[i] < all[j]
      /\ \A i \in 1 .. Len(all) : all[i] \in 1 .. p /\ script[all[i]] = "data"
      /\ \A k \in 1 .. p : script[k] = "data" => \E i \in 1 .. Len(all) : all[i] = k
  BY <1>2 DEF Ordered
<1>6. \A i, j \in DOMAIN got : i < j => got[i] < got[j] BY Zenon, <1>3, <1>4, <1>5
<1>7. ASSUME NEW i \in DOMAIN got
      PROVE  got[i] \in Sent(Len(script)) /\ Sent(got[i]) \subseteq Got
  <2>1. got[i] = all[i] /\ i \in 1 .. Len(all) /\ i \in 1 .. Len(got) BY Zenon, <1>3, <1>4
  <2>2. got[i] \in 1 .. p /\ script[got[i]] = "data" BY <1>5, <2>1
  <2>3. got[i] \in 1 .. Len(script) BY <1>1, <1>2, <2>2
  <2>4. ASSUME NEW k \in 1 .. got[i], script[k] = "data" PROVE k \in Got
    <3>1. k \in 1 .. p BY <1>2, <2>2
    <3>2. PICK j \in 1 .. Len(all) : all[j] = k BY <1>5, <2>4, <3>1
    <3>3. ~(i < j) BY <1>5, <2>1, <2>2, <2>4, <3>2
    <3>4. j \in 1 .. Len(got) BY <1>3, <2>1, <3>2, <3>3
    <3>5. got[j] = k /\ j \in DOMAIN got BY Zenon, <1>3, <1>4, <3>2, <3>4
    <3> QED BY <3>5
  <2> QED BY <2>2, <2>3, <2>4
<1>8. ASSUME delivered.ended
      PROVE  \E c \in DOMAIN script : script[c] = "close" /\ Got = Sent(c - 1)
  <2>1. rustls.closed /\ plain = <<>> BY <1>8 DEF PlainInv
  <2>2. p \in 1 .. Len(script) /\ script[p] = "close" /\ p \in DOMAIN script BY <1>1, <1>2, <2>1
  <2>3. Len(all) = Len(got)
    <3>1. Len(plain) = 0 BY <2>1
    <3> QED BY <1>3, <3>1
  <2>4. Got \subseteq Sent(p - 1)
    <3> SUFFICES ASSUME NEW j \in DOMAIN got PROVE got[j] \in Sent(p - 1) OBVIOUS
    <3>1. got[j] \in 1 .. p /\ script[got[j]] = "data" BY Zenon, <1>3, <1>4, <1>5
    <3>2. got[j] # p BY <2>2, <3>1
    <3>3. got[j] \in 1 .. p - 1 BY <1>2, <3>1, <3>2
    <3> QED BY <3>1, <3>3
  <2>5. Sent(p - 1) \subseteq Got
    <3> SUFFICES ASSUME NEW k \in 1 .. p - 1, script[k] = "data" PROVE k \in Got OBVIOUS
    <3>1. k \in 1 .. p BY <1>2
    <3>2. PICK j \in 1 .. Len(all) : all[j] = k BY <1>5, <3>1
    <3>3. j \in DOMAIN got /\ got[j] = k BY Zenon, <1>3, <1>4, <2>3, <3>2
    <3> QED BY <3>3
  <2> QED BY <2>2, <2>4, <2>5
<1> QED BY <1>6, <1>7, <1>8 DEF PlaintextFaithful

\* What read returns is the application data the peer sent, in order and without a
\* gap, and the end of the stream is reported only behind a close_notify with all
\* that came before it delivered, for every script of the peer, every way of
\* splitting the stream and every dropped future (the read path of tls/engine.rs and tls/split.rs).
THEOREM PlaintextStaysFaithful == TlsSpec => []PlaintextFaithful
<1>1. TlsInit => TlsInv /\ PlainInv BY TlsStarts, PlainStarts
<1>2. TlsInv /\ PlainInv /\ [TlsNext]_tlsVars => (TlsInv /\ PlainInv)'
  BY TlsInvariance, PlainInvariance
<1>3. TlsInv /\ PlainInv => PlaintextFaithful BY DeliveredInOrder
<1> QED BY <1>1, <1>2, <1>3, PTL DEF TlsSpec
=============================================================================
