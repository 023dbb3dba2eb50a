----------------------------- MODULE TlsProofs ------------------------------
(***************************************************************************)
(* The TLS stream writes what Rustls produced, for every capacity of the   *)
(* transport, every script of the peer and any number of calls.            *)
(*                                                                         *)
(* TlsInv says where each future can be and what the session holds while   *)
(* the transport works (Control), that the output is exact, each unit on   *)
(* the wire, in flight, in the adapter or still in Rustls, until the write *)
(* side has ended, and that a write that returned Ok is on the wire.       *)
(***************************************************************************)
EXTENDS Tls, WellFoundedInduction, TLAPS

TlsSpec == TlsInit /\ [][TlsNext]_tlsVars

-----------------------------------------------------------------------------
(* Units in order *)

\* s holds the units that follow the k-th, in order.
Counts(s, k) == \A i \in 1 .. Len(s) : s[i] = k + i

\* Units that follow one another may be joined.
LEMMA CountsConcat ==
  ASSUME NEW s \in Seq(Nat), NEW t \in Seq(Nat), NEW k \in Nat, Counts(s, k), Counts(t, k + Len(s))
  PROVE  s \o t \in Seq(Nat) /\ Counts(s \o t, k) /\ Len(s \o t) = Len(s) + Len(t)
<1>1. s \o t \in Seq(Nat) /\ Len(s \o t) = Len(s) + Len(t) OBVIOUS
<1>2. ASSUME NEW i \in 1 .. Len(s \o t) PROVE (s \o t)[i] = k + i
  <2>1. CASE i <= Len(s)
    <3>1. (s \o t)[i] = s[i] BY <2>1, <1>1
    <3> QED BY <2>1, <3>1 DEF Counts
  <2>2. CASE i > Len(s)
    <3>1. (s \o t)[i] = t[i - Len(s)] /\ i - Len(s) \in 1 .. Len(t) BY <2>2, <1>1
    <3>2. t[i - Len(s)] = k + Len(s) + (i - Len(s)) BY <3>1 DEF Counts
    <3> QED BY <3>1, <3>2
  <2> QED BY <2>1, <2>2
<1> QED BY <1>1, <1>2 DEF Counts

\* Both parts of a cut are in order: what a partial write took, and what it left.
LEMMA CountsCut ==
  ASSUME NEW s \in Seq(Nat), NEW k \in Nat, Counts(s, k), NEW n \in 0 .. Len(s)
  PROVE  /\ SubSeq(s, 1, n) \in Seq(Nat) /\ Len(SubSeq(s, 1, n)) = n /\ Counts(SubSeq(s, 1, n), k)
         /\ SubSeq(s, n + 1, Len(s)) \in Seq(Nat) /\ Len(SubSeq(s, n + 1, Len(s))) = Len(s) - n
         /\ Counts(SubSeq(s, n + 1, Len(s)), k + n)
<1>1. /\ SubSeq(s, 1, n) \in Seq(Nat) /\ Len(SubSeq(s, 1, n)) = n
      /\ \A i \in 1 .. n : SubSeq(s, 1, n)[i] = s[i]
  OBVIOUS
<1>2. /\ SubSeq(s, n + 1, Len(s)) \in Seq(Nat) /\ Len(SubSeq(s, n + 1, Len(s))) = Len(s) - n
      /\ \A i \in 1 .. Len(s) - n : SubSeq(s, n + 1, Len(s))[i] = s[n + i]
  OBVIOUS
<1>3. Counts(SubSeq(s, 1, n), k) BY <1>1 DEF Counts
<1>4. Counts(SubSeq(s, n + 1, Len(s)), k + n)
  <2> SUFFICES ASSUME NEW i \in 1 .. Len(s) - n PROVE SubSeq(s, n + 1, Len(s))[i] = k + n + i
    BY <1>2 DEF Counts
  <2>1. n + i \in 1 .. Len(s) OBVIOUS
  <2>2. s[n + i] = k + (n + i) BY <2>1 DEF Counts
  <2> QED BY <1>2, <2>2
<1> QED BY <1>1, <1>2, <1>3, <1>4

\* The next unit goes at the end.
LEMMA CountsAppend ==
  ASSUME NEW s \in Seq(Nat), NEW k \in Nat, Counts(s, k)
  PROVE  LET t == Append(s, k + Len(s) + 1) IN
           t \in Seq(Nat) /\ Len(t) = Len(s) + 1 /\ Counts(t, k)
<1> DEFINE t == Append(s, k + Len(s) + 1)
<1>1. t \in Seq(Nat) /\ Len(t) = Len(s) + 1 OBVIOUS
<1>2. \A i \in 1 .. Len(s) : t[i] = s[i] OBVIOUS
<1>3. t[Len(s) + 1] = k + (Len(s) + 1) OBVIOUS
<1> HIDE DEF t
<1>4. ASSUME NEW i \in 1 .. Len(t) PROVE t[i] = k + i
  <2>1. i \in 1 .. Len(s) \/ i = Len(s) + 1 BY <1>1
  <2> QED BY <2>1, <1>2, <1>3 DEF Counts
<1>5. Counts(t, k) BY <1>4 DEF Counts
<1> QED BY <1>1, <1>5 DEF t

-----------------------------------------------------------------------------
(* Induction *)

\* A non-empty set of numbers has a least one.
LEMMA NatMin ==
  ASSUME NEW T, T \subseteq Nat, T # {}
  PROVE  \E x \in T : \A y \in T : x <= y
<1> DEFINE R == {ss \in Nat \X Nat : ss[1] < ss[2]}
<1>1. IsWellFoundedOn(R, Nat)
  BY NatLessThanWellFounded DEF OpToRel
<1> HIDE DEF R
<1>2. \E x \in T : \A y \in T : ~ (<<y, x>> \in R)
  BY Zenon, <1>1, WFMin
<1>3. PICK x \in T : \A y \in T : ~ (<<y, x>> \in R) BY <1>2
<1>4. ASSUME NEW y \in T PROVE x <= y
  <2>1. x \in Nat /\ y \in Nat OBVIOUS
  <2>2. y < x => <<y, x>> \in R BY <2>1 DEF R
  <2> QED BY <1>3, <2>1, <2>2
<1> QED BY <1>4

\* process_new_packets handles the units one after the other: f[n] is the
\* connection after n of them.
LEMMA PacketByPacket ==
  ASSUME NEW c, NEW units \in Seq(Nat)
  PROVE  \E f : /\ f[0] = c /\ \A n \in 1 .. Len(units) : f[n] = Packet(f[n - 1], units[n])
                /\ ProcessNewPackets(c, units) = f[Len(units)]
<1> DEFINE Chain(f, m) == f = [n \in 0 .. m |-> IF n = 0 THEN c ELSE Packet(f[n - 1], units[n])]
           T == {m \in Nat : ~ \E f : Chain(f, m)}
<1>1. \E f : Chain(f, 0)
  <2>1. Chain([n \in 0 .. 0 |-> c], 0) OBVIOUS
  <2> QED BY Zenon, <2>1
<1>2. ASSUME NEW m \in Nat, \E f : Chain(f, m) PROVE \E f : Chain(f, m + 1)
  <2> PICK f : Chain(f, m) BY Zenon, <1>2
  <2> DEFINE last == Packet(f[m], units[m + 1])
             g == [n \in 0 .. m + 1 |-> IF n = m + 1 THEN last ELSE f[n]]
  <2>1. \A n \in 0 .. m : f[n] = IF n = 0 THEN c ELSE Packet(f[n - 1], units[n]) OBVIOUS
  <2>2. \A n \in 0 .. m : g[n] = f[n] OBVIOUS
  <2>3. g[m + 1] = Packet(g[m], units[m + 1]) BY <2>2
  <2> HIDE DEF last, Chain
  <2>4. \A n \in 0 .. m + 1 : g[n] = IF n = 0 THEN c ELSE Packet(g[n - 1], units[n])
    <3> SUFFICES ASSUME NEW n \in 0 .. m + 1 PROVE g[n] = IF n = 0 THEN c ELSE Packet(g[n - 1], units[n])
      OBVIOUS
    <3>1. CASE n = m + 1 BY <3>1, <2>3
    <3>2. CASE n = 0 BY <3>2, <2>1, <2>2
    <3>3. CASE n \in 1 .. m
      <4>1. n - 1 \in 0 .. m BY <3>3
      <4>2. g[n] = f[n] /\ g[n - 1] = f[n - 1] BY <2>2, <3>3, <4>1
      <4> QED BY <2>1, <3>3, <4>2
    <3> QED BY <3>1, <3>2, <3>3
  <2>5. g = [n \in 0 .. m + 1 |-> g[n]] OBVIOUS
  <2> HIDE DEF g
  <2>6. g = [n \in 0 .. m + 1 |-> IF n = 0 THEN c ELSE Packet(g[n - 1], units[n])] BY Zenon, <2>4, <2>5
  <2> QED BY <2>6 DEF Chain
<1>3. \E f : Chain(f, Len(units))
  <2> HIDE DEF Chain
  <2>1. ASSUME NEW k \in Nat, k \in T PROVE FALSE
    <3> HIDE DEF T
    <3>0. T \subseteq Nat /\ T # {} BY Zenon, <2>1 DEF T
    <3> PICK x \in T : \A y \in T : x <= y BY Zenon, <3>0, NatMin
    <3>1. x # 0 /\ x \in Nat BY <1>1, <3>0 DEF T
    <3>2. x - 1 \in Nat /\ x - 1 \notin T BY <3>1
    <3>3. \E f : Chain(f, x - 1) BY <3>2 DEF T
    <3>4. \E f : Chain(f, (x - 1) + 1) BY <1>2, <3>2, <3>3
    <3>5. (x - 1) + 1 = x BY <3>1
    <3> QED BY <3>4, <3>5 DEF T
  <2>2. Len(units) \in Nat OBVIOUS
  <2> QED BY <2>1, <2>2
<1> DEFINE after == CHOOSE f : Chain(f, Len(units))
<1>4. Chain(after, Len(units)) BY Zenon, <1>3
<1>5. ProcessNewPackets(c, units) = after[Len(units)] BY DEF ProcessNewPackets
<1> HIDE DEF after
<1>6. after[0] = c /\ \A n \in 1 .. Len(units) : after[n] = Packet(after[n - 1], units[n])
  BY <1>4
<1> QED BY <1>5, <1>6

-----------------------------------------------------------------------------
(* The connection *)

Conns == [plain : Seq(Nat), queue : Seq(Nat), made : Nat, update : BOOLEAN, handshaking : BOOLEAN,
          closed : BOOLEAN, eof : BOOLEAN, broken : BOOLEAN]

\* How many units Rustls has handed over; those it still has follow them.
Handed(c) == c.made - Len(c.queue)
Numbered(c) == c \in Conns /\ Handed(c) \in Nat /\ Counts(c.queue, Handed(c))

\* d is c after steps that only made more units.
Grown(c, d) == Numbered(d) /\ Handed(d) = Handed(c) /\ d.made >= c.made

\* Two growths are one.
LEMMA GrownTwice == ASSUME NEW c, NEW d, NEW e, Numbered(c), Grown(c, d), Grown(d, e) PROVE Grown(c, e)
BY DEF Grown, Numbered, Conns

\* Queueing a record or an alert makes one more unit.
LEMMA QueueGrows == ASSUME NEW c, Numbered(c) PROVE Grown(c, Queue(c)) /\ Queue(c).made = c.made + 1
<1> DEFINE q == Append(c.queue, c.made + 1)
<1>1. c \in Conns /\ c.made \in Nat /\ c.queue \in Seq(Nat) BY DEF Numbered, Conns
<1>2. c.made + 1 = Handed(c) + Len(c.queue) + 1 BY <1>1 DEF Handed
<1>3. Handed(c) \in Nat /\ Counts(c.queue, Handed(c)) BY DEF Numbered
<1>4. q \in Seq(Nat) /\ Len(q) = Len(c.queue) + 1 /\ Counts(q, Handed(c))
  BY <1>1, <1>2, <1>3, CountsAppend
<1> DEFINE m == c.made + 1
<1>5. Queue(c) = [c EXCEPT !.queue = q, !.made = m] /\ m \in Nat BY <1>1 DEF Queue
<1> HIDE DEF q, m
<1>6. Queue(c) \in Conns /\ Queue(c).queue = q /\ Queue(c).made = c.made + 1
  <2>1. Queue(c).queue = q /\ Queue(c).made = m BY <1>1, <1>5 DEF Conns
  <2>2. Queue(c) \in Conns BY Zenon, <1>1, <1>4, <1>5 DEF Conns
  <2> QED BY <2>1, <2>2 DEF m
<1>7. Handed(Queue(c)) = Handed(c) BY <1>1, <1>4, <1>6 DEF Handed
<1> QED BY <1>1, <1>3, <1>4, <1>6, <1>7 DEF Grown, Numbered

\* A change of anything but the queue and its count.
LEMMA SameGrows ==
  ASSUME NEW c, NEW d, Numbered(c), d \in Conns, d.queue = c.queue, d.made = c.made
  PROVE  Grown(c, d)
BY DEF Numbered, Grown, Handed, Conns

\* A unit from the peer at most adds an answer to what is to be written.
LEMMA PacketGrows ==
  ASSUME NEW c, Numbered(c), NEW p \in Nat, peer.script[p] \in PeerUnits
  PROVE  Grown(c, Packet(c, p))
<1>0. c \in Conns BY DEF Numbered
<1>1. CASE c.broken \/ c.closed
  <2>1. Packet(c, p) = c BY <1>1 DEF Packet
  <2> QED BY <1>0, <2>1, SameGrows
<1>2. CASE ~(c.broken \/ c.closed) /\ peer.script[p] = "hello"
  <2> DEFINE d == [c EXCEPT !.handshaking = FALSE]
  <2>1. Packet(c, p) = Queue(d) BY <1>2 DEF Packet
  <2>2. d \in Conns /\ d.queue = c.queue /\ d.made = c.made BY Zenon, <1>0 DEF Conns
  <2> HIDE DEF d
  <2>3. Grown(c, d) BY <2>2, SameGrows
  <2>4. Grown(d, Queue(d)) BY <2>3, QueueGrows DEF Grown
  <2> QED BY <2>1, <2>3, <2>4, GrownTwice
<1>3. CASE ~(c.broken \/ c.closed) /\ peer.script[p] = "data"
  <2>1. Packet(c, p) = [c EXCEPT !.plain = Append(@, p)] BY <1>3 DEF Packet
  <2>2. Append(c.plain, p) \in Seq(Nat) BY <1>0 DEF Conns
  <2>3. Packet(c, p) \in Conns /\ Packet(c, p).queue = c.queue /\ Packet(c, p).made = c.made
    BY Zenon, <1>0, <2>1, <2>2 DEF Conns
  <2> QED BY <2>3, SameGrows
<1>4. CASE ~(c.broken \/ c.closed) /\ peer.script[p] \in {"update", "close"}
  <2>1. Packet(c, p) = [c EXCEPT !.update = TRUE] \/ Packet(c, p) = [c EXCEPT !.closed = TRUE]
    BY <1>4 DEF Packet
  <2>2. Packet(c, p) \in Conns /\ Packet(c, p).queue = c.queue /\ Packet(c, p).made = c.made
    BY Zenon, <1>0, <2>1 DEF Conns
  <2> QED BY <2>2, SameGrows
<1>5. CASE ~(c.broken \/ c.closed) /\ peer.script[p] = "bad"
  <2> DEFINE d == [c EXCEPT !.broken = TRUE]
  <2>1. Packet(c, p) = Queue(d) BY <1>5 DEF Packet
  <2>2. d \in Conns /\ d.queue = c.queue /\ d.made = c.made BY Zenon, <1>0 DEF Conns
  <2> HIDE DEF d
  <2>3. Grown(c, d) BY <2>2, SameGrows
  <2>4. Grown(d, Queue(d)) BY <2>3, QueueGrows DEF Grown
  <2> QED BY <2>1, <2>3, <2>4, GrownTwice
<1> QED BY <1>1, <1>2, <1>3, <1>4, <1>5 DEF PeerUnits

\* So do all the units of one call of process_new_packets.
LEMMA PacketsGrow ==
  ASSUME NEW c, Numbered(c), NEW units \in Seq(Nat),
         \A n \in 1 .. Len(units) : peer.script[units[n]] \in PeerUnits
  PROVE  Grown(c, ProcessNewPackets(c, units))
<1> PICK f : /\ f[0] = c /\ \A n \in 1 .. Len(units) : f[n] = Packet(f[n - 1], units[n])
             /\ ProcessNewPackets(c, units) = f[Len(units)]
  BY PacketByPacket
<1> DEFINE T == {n \in 0 .. Len(units) : ~ Grown(c, f[n])}
<1>0. Grown(c, c) BY SameGrows DEF Numbered
<1>1. ASSUME NEW k \in 0 .. Len(units), k \in T PROVE FALSE
  <2> HIDE DEF T
  <2>0. T # {} BY <1>1
  <2>1. T \subseteq Nat BY DEF T
  <2> PICK x \in T : \A y \in T : x <= y BY Zenon, <2>0, <2>1, NatMin
  <2>2. x # 0 /\ x \in 1 .. Len(units) /\ x - 1 \in 0 .. Len(units) BY <1>0 DEF T
  <2>3. Grown(c, f[x - 1]) BY <2>2 DEF T
  <2>4. f[x] = Packet(f[x - 1], units[x]) /\ units[x] \in Nat BY <2>2
  <2>5. Numbered(f[x - 1]) BY <2>3 DEF Grown
  <2>6. peer.script[units[x]] \in PeerUnits BY <2>2
  <2>7. Grown(f[x - 1], f[x]) BY <2>4, <2>5, <2>6, PacketGrows
  <2> QED BY <2>3, <2>7, GrownTwice DEF T
<1>2. Len(units) \in 0 .. Len(units) OBVIOUS
<1> QED BY <1>1, <1>2

\* Refreshing the traffic keys at most queues a unit.
LEMMA TouchGrows == ASSUME NEW c, Numbered(c) PROVE Grown(c, Touch(c))
<1>0. c \in Conns BY DEF Numbered
<1>1. CASE ~c.update
  <2>1. Touch(c) = c BY <1>1 DEF Touch
  <2> QED BY <1>0, <2>1, SameGrows
<1>2. CASE c.update
  <2> DEFINE d == [c EXCEPT !.update = FALSE]
  <2>1. Touch(c) = Queue(d) BY <1>2 DEF Touch
  <2>2. d \in Conns /\ d.queue = c.queue /\ d.made = c.made BY Zenon, <1>0 DEF Conns
  <2> HIDE DEF d
  <2>3. Grown(c, d) BY <2>2, SameGrows
  <2>4. Grown(d, Queue(d)) BY <2>3, QueueGrows DEF Grown
  <2> QED BY <2>1, <2>3, <2>4, GrownTwice
<1> QED BY <1>1, <1>2

-----------------------------------------------------------------------------
(* Sessions and futures *)

Sessions == [read : Failures \cup {"Open", "PeerClosed"},
             write : Failures \cup {"Open", "Closing", "Closed", "AlertPending"}]

\* A failed write side comes with a failed read side.
Sound(s) == s.write \in Failures \cup {"AlertPending"} => s.read \in Failures

\* s2 is what a reader that fails makes of s.
Failing(s, s2) ==
  /\ s2 \in Sessions /\ Sound(s2)
  /\ s.write = "Closed" <=> s2.write = "Closed"
  /\ s.write \in Failures => s2.write \in Failures

\* fail_both leaves no side open, and does not reopen a closed write side.
LEMMA FailBothFacts ==
  ASSUME NEW s \in Sessions, NEW f \in Failures
  PROVE  /\ Failing(s, FailBoth(s, f)) /\ FailBoth(s, f).read \in Failures
         /\ FailBoth(s, f).write \in Failures \cup {"Closed"}
<1> DEFINE t == RecordReadFailure(s, f)
<1>1. t \in Sessions /\ t.read \in Failures /\ t.write = s.write
  BY DEF RecordReadFailure, Sessions
<1> HIDE DEF t
<1> DEFINE u == RecordWriteFailure(t, f)
<1>2. /\ u \in Sessions /\ u.read = t.read /\ u.write \in Failures \cup {"Closed"}
      /\ t.write = "Closed" <=> u.write = "Closed"
      /\ t.write \in Failures => u.write \in Failures
  <2>1. CASE t.write \in Failures \cup {"Closed"}
    <3>1. u = t BY <2>1 DEF RecordWriteFailure
    <3> QED BY <1>1, <2>1, <3>1
  <2>2. CASE t.write \notin Failures \cup {"Closed"}
    <3>1. u = [t EXCEPT !.write = f] BY <2>2 DEF RecordWriteFailure
    <3>2. u \in Sessions /\ u.read = t.read /\ u.write = f BY <1>1, <3>1 DEF Sessions
    <3> QED BY <2>2, <3>2 DEF Failures
  <2> QED BY <2>1, <2>2
<1>3. u = FailBoth(s, f) BY DEF FailBoth, t
<1> HIDE DEF u
<1> QED BY <1>1, <1>2, <1>3 DEF Failing, Sound

\* fail_read touches only the read side.
LEMMA FailReadFacts ==
  ASSUME NEW s \in Sessions, Sound(s), NEW f \in Failures
  PROVE  /\ Failing(s, FailRead(s, f)) /\ FailRead(s, f).write = s.write
         /\ FailRead(s, f).read \in Failures
<1>1. CASE s.read \in Failures
  <2>1. FailRead(s, f) = s BY <1>1 DEF FailRead, RecordReadFailure
  <2> QED BY <1>1, <2>1 DEF Failing
<1>2. CASE s.read \notin Failures
  <2> DEFINE u == [s EXCEPT !.read = f]
  <2>1. FailRead(s, f) = u BY <1>2 DEF FailRead, RecordReadFailure
  <2>2. u \in Sessions /\ u.read = f /\ u.write = s.write BY DEF Sessions
  <2> QED BY <2>1, <2>2 DEF Failing, Sound
<1> QED BY <1>1, <1>2

\* A protocol failure ends reading, and at most leaves an alert to be written.
LEMMA FailProtocolFacts ==
  ASSUME NEW s \in Sessions, Sound(s)
  PROVE  Failing(s, FailProtocol(s))
<1> DEFINE t == RecordReadFailure(s, "protocol")
<1>1. t \in Sessions /\ t.read \in Failures /\ t.write = s.write
  BY DEF RecordReadFailure, Sessions, Failures
<1>2. \/ FailProtocol(s) = t
      \/ /\ FailProtocol(s) = [t EXCEPT !.write = "AlertPending"]
         /\ t.write \notin Failures \cup {"Closed", "AlertPending"}
  BY DEF FailProtocol
<1> HIDE DEF t
<1>3. CASE FailProtocol(s) = t BY <1>1, <1>3 DEF Failing, Sound
<1>4. CASE /\ FailProtocol(s) = [t EXCEPT !.write = "AlertPending"]
           /\ t.write \notin Failures \cup {"Closed", "AlertPending"}
  <2> DEFINE u == [t EXCEPT !.write = "AlertPending"]
  <2>1. u \in Sessions /\ u.read = t.read /\ u.write = "AlertPending" BY <1>1 DEF Sessions
  <2> QED BY <1>1, <1>4, <2>1 DEF Failing, Sound
<1> QED BY <1>2, <1>3, <1>4

\* A half that finds its write side failed reports the failure.
LEMMA WriteFailureFacts ==
  ASSUME NEW s \in Sessions, Sound(s), WriteFailed(s)
  PROVE  LET u == [s EXCEPT !.write = WriteFailure(s)] IN
           /\ WriteFailure(s) \in Failures /\ Failing(s, u)
           /\ u.write \in Failures /\ u.read \in Failures
<1> DEFINE u == [s EXCEPT !.write = WriteFailure(s)]
<1>1. WriteFailure(s) \in Failures BY DEF WriteFailed, WriteFailure, Failures
<1>2. u \in Sessions /\ u.read = s.read /\ u.write = WriteFailure(s) BY <1>1 DEF Sessions
<1>3. s.read \in Failures BY DEF Sound, WriteFailed
<1>4. s.write # "Closed" BY DEF WriteFailed, Failures
<1>5. u.write # "Closed" BY <1>1, <1>2 DEF Failures
<1> HIDE DEF u
<1>6. Failing(s, u) BY <1>1, <1>2, <1>3, <1>4, <1>5 DEF Failing, Sound
<1> QED BY <1>1, <1>2, <1>3, <1>6 DEF u

\* What the Engine marks abandoned it restores unchanged where it was closed.
LEMMA AbandonFacts ==
  ASSUME NEW s \in Sessions
  PROVE  /\ Failing(s, Abandon(s)) /\ Abandon(s).read \in Failures
         /\ Abandon(s).write \in Failures \cup {"Closed"}
BY FailBothFacts DEF Abandon, Failures

Results == Failures \cup {"none", "ok", "end", "dropped", "broken_pipe"}
OpStates ==
  [kind : {"none", "handshake", "read", "write", "flush", "shutdown", "dropped"},
   at : {"idle", "call", "drain", "plain", "wait", "receive", "process", "shut"} \cup Awaits,
   next : {"none", "handshake", "alert", "plain", "wait", "write", "written", "flush", "shutdown"},
   processed : BOOLEAN, saved : Sessions, flying : Seq(Nat), unit : Nat, result : Results,
   calls : Nat]
Adapters == [input : Seq(Nat), eof : BOOLEAN, output : Seq(Nat)]

TlsTypes ==
  /\ form \in {"engine", "split", "gone"} /\ sess \in Sessions /\ Numbered(rustls)
  /\ adapter \in Adapters /\ op \in [Halves -> OpStates] /\ written \in Seq(Nat)
  /\ peer \in [script : Seq(PeerUnits), at : Nat] /\ peer.at <= Len(peer.script)
  /\ \A i \in 1 .. Len(adapter.input) : adapter.input[i] \in 1 .. Len(peer.script)

\* Where each half can be: o is the future of half h.
ReaderAt == {"idle", "drain", "t_write", "plain", "wait", "receive", "t_read", "process"}
WriterAt == {"idle", "call", "drain", "t_write", "t_flush", "shut", "t_shutdown"}
Writing == {"drain", "t_write", "t_flush", "shut", "t_shutdown"}
InPlace(h, o) ==
  /\ h = "r" => /\ o.kind \in {"none", "handshake", "read", "dropped"} /\ o.at \in ReaderAt
                /\ o.next \in {"none", "handshake", "alert", "plain", "wait"}
  /\ h = "w" => /\ o.kind \in {"none", "write", "flush", "shutdown", "dropped"} /\ o.at \in WriterAt
                /\ o.next \in {"none", "write", "written", "flush", "shutdown"}
  /\ o.kind = "write" => /\ o.at \in {"idle", "call", "drain", "t_write"}
                         /\ o.at \in {"drain", "t_write"} => o.next \in {"write", "written"}
  /\ o.at # "idle" => o.result = "none" /\ o.kind \notin {"none", "dropped"}
  /\ o.at \in {"drain", "t_write"} => o.next # "none"
  /\ o.at \in {"t_read", "t_flush", "t_shutdown"} => o.flying = <<>>

\* The record of a write that has encrypted its bytes is one Rustls made.
Encrypted(o, made) ==
  o.kind = "write" /\ o.at \in {"drain", "t_write"} /\ o.next = "written" => o.unit \in 1 .. made

\* What the Engine marked while the transport works is what it had saved.
Marked(o) == o.at \in Awaits => Sound(o.saved) /\ sess = Abandon(o.saved)

Control ==
  /\ \A h \in Halves : InPlace(h, op[h])
  /\ \A h \in Halves : Encrypted(op[h], rustls.made)
  /\ op["r"].kind = "handshake" /\ op["r"].at # "idle" => form = "engine"
  /\ form = "engine" => op["r"].at = "idle" \/ op["w"].at = "idle"
  /\ form = "split" => op["r"].at \notin {"drain", "t_write"}
  /\ form = "gone" => op["r"].at = "idle" /\ op["w"].at = "idle"
  /\ Sound(sess)
  /\ form = "engine" => \A h \in Halves : Marked(op[h])
  /\ op["w"].at \in Writing => sess.write # "Closed"

\* There are two halves.
LEMMA OtherHalf == Other("r") = "w" /\ Other("w") = "r"
BY DEF Other, Halves

\* A half starts or goes on: o is its future, as the code between two awaits
\* leaves it.
LEMMA HalfStep ==
  ASSUME TlsTypes, Control, NEW h \in Halves, NEW o \in OpStates, op' = [op EXCEPT ![h] = o],
         form # "gone", form = "engine" => op[Other(h)].at = "idle",
         form' = form, InPlace(h, o), Encrypted(o, rustls'.made),
         h = "r" /\ o.kind = "handshake" => form = "engine",
         h = "r" /\ form = "split" => o.at \notin {"drain", "t_write"},
         rustls'.made >= rustls.made, rustls'.made \in Nat,
         sess' \in Sessions, Sound(sess'),
         form = "engine" /\ o.at \in Awaits => Sound(o.saved) /\ sess' = Abandon(o.saved),
         h = "w" /\ o.at \in Writing => sess'.write # "Closed",
         h = "r" /\ sess'.write = "Closed" => sess.write = "Closed"
  PROVE  Control' /\ op' \in [Halves -> OpStates]
<1> USE DEF Halves
<1>1. op' \in [Halves -> OpStates] /\ op'[h] = o /\ \A g \in Halves \ {h} : op'[g] = op[g]
  BY DEF TlsTypes
<1>2. \A g \in Halves : InPlace(g, op'[g]) BY <1>1 DEF Control
<1>3. \A g \in Halves : Encrypted(op'[g], rustls'.made)
  <2>1. \A g \in Halves \ {h} : Encrypted(op[g], rustls.made) BY DEF Control
  <2>2. \A g \in Halves \ {h} : op[g].unit \in Nat /\ rustls.made \in Nat
    BY DEF TlsTypes, OpStates, Numbered, Conns
  <2>3. \A g \in Halves \ {h} : Encrypted(op[g], rustls'.made) BY <2>1, <2>2 DEF Encrypted
  <2> QED BY <1>1, <2>3
<1>4. form # "gone" OBVIOUS
<1>5. form = "engine" => op[Other(h)].at = "idle" OBVIOUS
<1>6. form' = "engine" => \A g \in Halves : Marked(op[g])'
  <2>1. "idle" \notin Awaits BY DEF Awaits
  <2> QED BY <1>1, <1>5, <2>1, OtherHalf DEF Marked
<1>7. op'["r"].kind = "handshake" /\ op'["r"].at # "idle" => form' = "engine"
  BY <1>1 DEF Control
<1>8. form' = "engine" => op'["r"].at = "idle" \/ op'["w"].at = "idle"
  BY <1>1, <1>5, OtherHalf
<1>9. form' = "split" => op'["r"].at \notin {"drain", "t_write"} BY <1>1 DEF Control
<1>10. op'["w"].at \in Writing => sess'.write # "Closed" BY <1>1 DEF Control
<1> QED BY <1>1, <1>2, <1>3, <1>4, <1>6, <1>7, <1>8, <1>9, <1>10 DEF Control

\* A future that goes on to its next step keeps the control invariant.
LEMMA GoesOn ==
  ASSUME TlsTypes, Control, NEW h \in Halves, NEW o \in OpStates, op' = [op EXCEPT ![h] = o],
         op[h].at # "idle", form' = form,
         InPlace(h, o), Encrypted(o, rustls'.made), o.kind = op[h].kind,
         h = "r" /\ form = "split" => o.at \notin {"drain", "t_write"},
         rustls'.made >= rustls.made, rustls'.made \in Nat,
         sess' \in Sessions, Sound(sess'),
         form = "engine" /\ o.at \in Awaits => Sound(o.saved) /\ sess' = Abandon(o.saved),
         h = "w" /\ o.at \in Writing => sess'.write # "Closed",
         h = "r" /\ sess'.write = "Closed" => sess.write = "Closed"
  PROVE  Control' /\ op' \in [Halves -> OpStates]
<1>1. form # "gone" /\ (form = "engine" => op[Other(h)].at = "idle")
  BY OtherHalf DEF Control, Halves
<1>2. h = "r" /\ o.kind = "handshake" => form = "engine" BY DEF Control
<1> QED BY Zenon, <1>1, <1>2, HalfStep

\* What a future that returns leaves behind.
LEMMA ReturnType ==
  ASSUME TlsTypes, NEW h \in Halves, NEW result \in Results, Returns(h, result)
  PROVE  /\ op' \in [Halves -> OpStates] /\ \A g \in Halves \ {h} : op'[g] = op[g]
         /\ op'[h].at = "idle" /\ op'[h].kind = op[h].kind /\ op'[h].unit = op[h].unit
         /\ op'[h].next = "none" /\ op'[h].result = result
<1> DEFINE o == [IdleOp(op[h].calls) EXCEPT !.kind = op[h].kind, !.unit = op[h].unit,
                                            !.result = result]
<1>1. op[h] \in OpStates BY DEF TlsTypes
<1>2. [read |-> "Open", write |-> "Open"] \in Sessions BY DEF Sessions
<1>3. /\ o.at = "idle" /\ o.kind = op[h].kind /\ o.unit = op[h].unit
      /\ o.next = "none" /\ o.result = result
  BY DEF IdleOp
<1>4. o \in OpStates
  <2>1. op[h].calls \in Nat /\ op[h].unit \in Nat
        /\ op[h].kind \in {"none", "handshake", "read", "write", "flush", "shutdown", "dropped"}
    BY <1>1 DEF OpStates
  <2>2. <<>> \in Seq(Nat) OBVIOUS
  <2>3. IdleOp(op[h].calls) \in OpStates BY <1>2, <2>1, <2>2 DEF IdleOp, OpStates, Results
  <2> QED BY Zenon, <2>1, <2>3 DEF OpStates
<1>5. op' = [op EXCEPT ![h] = o] BY DEF Returns
<1> HIDE DEF o
<1> QED BY <1>3, <1>4, <1>5 DEF TlsTypes

\* A future returns.
LEMMA ComesBack ==
  ASSUME TlsTypes, Control, NEW h \in Halves, NEW result \in Results, Returns(h, result),
         op[h].at # "idle", op[Other(h)].at \in Awaits \cup {"idle"},
         rustls'.made >= rustls.made, rustls'.made \in Nat,
         sess' \in Sessions, Sound(sess'),
         h = "r" /\ sess'.write = "Closed" => sess.write = "Closed"
  PROVE  Control' /\ op' \in [Halves -> OpStates] /\ form' \in {"engine", "split", "gone"}
<1> USE DEF Halves
<1>1. /\ op' \in [Halves -> OpStates] /\ \A g \in Halves \ {h} : op'[g] = op[g]
      /\ op'[h].at = "idle" /\ op'[h].kind = op[h].kind /\ op'[h].next = "none"
  BY ReturnType
<1>2. form' = form \/ (form' = "gone" /\ op[h].kind = "handshake") BY DEF Returns
<1>3. \A g \in Halves : InPlace(g, op'[g])
  <2>1. \A g \in Halves : InPlace(g, op[g]) BY DEF Control
  <2>2. InPlace(h, op'[h]) BY <1>1, <2>1 DEF InPlace, ReaderAt, WriterAt
  <2> QED BY <1>1, <2>1, <2>2
<1>4. \A g \in Halves : Encrypted(op'[g], rustls'.made)
  <2>1. \A g \in Halves \ {h} : Encrypted(op[g], rustls.made) BY DEF Control
  <2>2. \A g \in Halves \ {h} : op[g].unit \in Nat /\ rustls.made \in Nat
    BY DEF TlsTypes, OpStates, Numbered, Conns
  <2>3. \A g \in Halves \ {h} : Encrypted(op[g], rustls'.made) BY <2>1, <2>2 DEF Encrypted
  <2>4. Encrypted(op'[h], rustls'.made) BY <1>1 DEF Encrypted
  <2> QED BY <1>1, <2>3, <2>4
<1>5. form # "gone" /\ (form = "engine" => op[Other(h)].at = "idle") BY OtherHalf DEF Control
<1>6. op[h].kind = "handshake" => h = "r" /\ form = "engine"
  BY DEF Control, InPlace
<1>7. form' = "gone" \/ form' = "engine" => op'["r"].at = "idle" /\ op'["w"].at = "idle"
  BY <1>1, <1>2, <1>5, <1>6, OtherHalf
<1>8. form' = "engine" => \A g \in Halves : Marked(op[g])'
  BY <1>7 DEF Marked, Awaits
<1>9. op'["r"].kind = "handshake" /\ op'["r"].at # "idle" => form' = "engine"
  <2>1. CASE h = "r" BY <1>1, <2>1
  <2>2. CASE h = "w" BY <1>1, <1>2, <1>6, <2>2 DEF Control
  <2> QED BY <2>1, <2>2
<1>10. form' = "split" => op'["r"].at \notin {"drain", "t_write"} BY <1>1, <1>2 DEF Control
<1>11. op'["w"].at \in Writing => sess'.write # "Closed" BY <1>1 DEF Control, Writing
<1>12. form' \in {"engine", "split", "gone"} BY <1>2 DEF TlsTypes
<1> QED BY <1>1, <1>3, <1>4, <1>7, <1>8, <1>9, <1>10, <1>11, <1>12 DEF Control

-----------------------------------------------------------------------------
(* The wire *)

\* The output that has left Rustls and is not known to be written.
Pend == IF op["r"].at = "t_write" THEN op["r"].flying
        ELSE IF op["w"].at = "t_write" THEN op["w"].flying ELSE adapter.output

\* All that left Rustls is on the wire or will be.
Exact ==
  /\ Counts(written, 0) /\ Counts(Pend, Len(written)) /\ Handed(rustls) = Len(written) + Len(Pend)
  /\ \A h \in Halves : op[h].at = "t_write" => adapter.output = <<>>

\* Nothing more will be written: the write side was closed, or an operation on
\* the transport failed or was dropped.
InOrder == \A i \in DOMAIN written : written[i] = i \/ (written[i] = FIN /\ i = Len(written))
Ended ==
  /\ InOrder /\ sess.write \in Failures \cup {"Closed"}
  /\ op["w"].at \in {"idle", "call"} /\ op["r"].at # "t_write"
  /\ form = "engine" /\ sess.write \in Failures => op["r"].at \in {"idle", "plain"}

\* A write that returned Ok is on the wire.
Kept == op["w"].kind = "write" /\ op["w"].result = "ok" =>
          \E i \in DOMAIN written : written[i] = op["w"].unit

TlsInv == TlsTypes /\ Control /\ (Exact \/ Ended) /\ Kept

\* A step that moves no output keeps the wire exact.
LEMMA ExactFrame ==
  ASSUME Exact, written' = written, adapter'.output = adapter.output,
         Handed(rustls') = Handed(rustls),
         \A g \in Halves : /\ op'[g].at = "t_write" <=> op[g].at = "t_write"
                           /\ op'[g].at = "t_write" => op'[g].flying = op[g].flying
  PROVE  Exact'
<1>1. Pend' = Pend BY DEF Pend, Halves
<1> QED BY <1>1 DEF Exact, Handed

\* A step that writes nothing keeps an ended wire in order.
LEMMA EndedFrame ==
  ASSUME Ended, written' = written, op'["w"].at \in {"idle", "call"}, op'["r"].at # "t_write",
         sess'.write \in Failures \cup {"Closed"},
         form' = "engine" /\ sess'.write \in Failures => op'["r"].at \in {"idle", "plain"}
  PROVE  Ended'
BY DEF Ended, InOrder

\* A step that writes nothing keeps the record of the last write.
LEMMA KeptFrame ==
  ASSUME Kept, written' = written,
         op'["w"].kind = "write" /\ op'["w"].result = "ok" =>
            op["w"].kind = "write" /\ op["w"].result = "ok" /\ op'["w"].unit = op["w"].unit
  PROVE  Kept'
BY DEF Kept

\* split, reunite and into_parts.
LEMMA FormStep == ASSUME TlsInv, SplitStream \/ ReuniteHalves \/ IntoParts PROVE TlsInv'
<1> USE DEF TlsInv
<1>0. /\ UNCHANGED <<sess, rustls, adapter, op, peer, written>> /\ Quiet
      /\ form' \in {"engine", "split", "gone"}
  BY DEF SplitStream, ReuniteHalves, IntoParts
<1>1. op["r"].at = "idle" /\ op["w"].at = "idle" BY <1>0 DEF Quiet, Halves
<1>2. TlsTypes' BY <1>0 DEF TlsTypes, Numbered, Handed
<1>3. Control'
  <2>1. \A h \in Halves : InPlace(h, op[h])' /\ Encrypted(op[h], rustls.made)' /\ Marked(op[h])'
    BY <1>0, <1>1 DEF Control, InPlace, Encrypted, Marked, Awaits, Halves
  <2> QED BY <1>0, <1>1, <2>1 DEF Control, Sound, Writing
<1>4. Exact => Exact' BY <1>0, ExactFrame
<1>5. Ended => Ended' BY <1>0, <1>1, EndedFrame DEF Ended
<1>6. Kept' BY <1>0, KeptFrame
<1> QED BY <1>2, <1>3, <1>4, <1>5, <1>6

\* A half is dropped.
LEMMA DropHalfStep == ASSUME TlsInv, NEW h \in Halves, DropHalf(h) PROVE TlsInv'
<1> USE DEF TlsInv
<1>0. /\ UNCHANGED <<form, sess, rustls, adapter, peer, written>> /\ form = "split"
      /\ op[h].at = "idle" /\ op' = [op EXCEPT ![h].kind = "dropped"]
  BY DEF DropHalf
<1>1. op[h] \in OpStates BY DEF TlsTypes
<1> DEFINE o == [op[h] EXCEPT !.kind = "dropped"]
<1>a. o \in OpStates BY <1>1 DEF OpStates
<1>b. o.kind = "dropped" /\ o.at = "idle" /\ o.next = op[h].next /\ o.result = op[h].result
  BY <1>0, <1>1 DEF OpStates
<1>c. op' = [op EXCEPT ![h] = o] BY <1>0 DEF TlsTypes
<1> HIDE DEF o
<1>2. /\ \A g \in Halves \ {h} : op'[g] = op[g]
      /\ op'[h].kind = "dropped" /\ op'[h].at = "idle" /\ op'[h].next = op[h].next
      /\ op'[h].result = op[h].result
  BY <1>b, <1>c DEF TlsTypes
<1>3. op' \in [Halves -> OpStates] BY <1>a, <1>c DEF TlsTypes
<1>4. TlsTypes' BY <1>0, <1>3 DEF TlsTypes, Numbered, Handed
<1>5. Control'
  <2>1. InPlace(h, op[h]) BY DEF Control
  <2>2. InPlace(h, op'[h]) BY <1>2, <2>1 DEF InPlace, ReaderAt, WriterAt
  <2>3. \A g \in Halves : InPlace(g, op[g])' /\ Encrypted(op[g], rustls.made)'
    BY <1>0, <1>2, <2>2 DEF Control, InPlace, Encrypted
  <2> QED BY <1>0, <1>2, <2>3 DEF Control, Sound, Writing, Halves
<1>6. \A g \in Halves : op'[g].at = op[g].at /\ (op[g].at = "t_write" => op'[g].flying = op[g].flying)
  BY <1>0, <1>2
<1>7. Exact => Exact' BY <1>0, <1>6, ExactFrame
<1>8. Ended => Ended' BY <1>0, <1>6, EndedFrame DEF Ended, Halves
<1>9. Kept' BY <1>0, <1>2, KeptFrame DEF Halves
<1> QED BY <1>4, <1>5, <1>7, <1>8, <1>9

\* A call on the stream or on one of its halves.
LEMMA CallStep ==
  ASSUME TlsInv, NEW kind \in {"read", "write", "flush", "shutdown"},
         IF kind = "read" THEN CallRead ELSE CallWriter(kind)
  PROVE  TlsInv'
<1> USE DEF TlsInv
<1> DEFINE h == IF kind = "read" THEN "r" ELSE "w"
           o == [IdleOp(op[h].calls + 1) EXCEPT !.kind = kind, !.at = IF kind = "read" THEN "plain" ELSE "call"]
<1>0. h \in Halves /\ op[h] \in OpStates /\ MayCall(h)
      /\ UNCHANGED <<form, sess, rustls, adapter, peer, written>>
  BY DEF CallRead, CallWriter, Halves, TlsTypes
<1>1. op' = [op EXCEPT ![h] = o] BY Zenon DEF CallRead, CallWriter, Begun, IdleOp
<1>2. /\ o.kind = kind /\ o.at = IF kind = "read" THEN "plain" ELSE "call"
      /\ o.next = "none" /\ o.result = "none"
  BY DEF IdleOp
<1>3. o \in OpStates
  <2>1. op[h].calls + 1 \in Nat /\ <<>> \in Seq(Nat) BY <1>0 DEF OpStates
  <2>2. [read |-> "Open", write |-> "Open"] \in Sessions BY DEF Sessions
  <2>3. IdleOp(op[h].calls + 1) \in OpStates BY <2>1, <2>2 DEF IdleOp, OpStates, Results
  <2> QED BY Zenon, <2>3 DEF OpStates
<1> HIDE DEF o
<1>4. form # "gone" /\ (form = "engine" => op[Other(h)].at = "idle") /\ op[h].at = "idle"
  BY <1>0, OtherHalf DEF MayCall, Halves
<1>5. InPlace(h, o) BY <1>2 DEF InPlace, ReaderAt, WriterAt
<1>6. Encrypted(o, rustls'.made) BY <1>2 DEF Encrypted
<1>7. o.at \notin Awaits /\ o.at \notin Writing /\ o.at \notin {"idle", "drain", "t_write"}
  BY <1>2 DEF Awaits, Writing
<1>8. rustls.made \in Nat /\ rustls'.made >= rustls.made BY <1>0 DEF TlsTypes, Numbered, Conns
<1>9. Sound(sess') /\ sess' \in Sessions BY <1>0 DEF Control, TlsTypes
<1>10. Control' /\ op' \in [Halves -> OpStates]
  BY Zenon, <1>0, <1>1, <1>2, <1>3, <1>4, <1>5, <1>6, <1>7, <1>8, <1>9, HalfStep
<1>11. TlsTypes' BY <1>0, <1>10 DEF TlsTypes, Numbered, Handed
<1>12. op'[h] = o /\ \A g \in Halves \ {h} : op'[g] = op[g] BY <1>0, <1>1 DEF TlsTypes
<1>13. Exact => Exact' BY <1>0, <1>4, <1>7, <1>12, ExactFrame
<1>14. Ended => Ended'
  <2>1. op'["w"].at \in {"idle", "call"} \/ op'["w"].at = op["w"].at BY <1>2, <1>12 DEF Halves
  <2>2. op'["r"].at = "plain" \/ op'["r"].at = op["r"].at BY <1>2, <1>12 DEF Halves
  <2> QED BY <1>0, <2>1, <2>2, EndedFrame DEF Ended
<1>15. Kept' BY <1>0, <1>2, <1>12, KeptFrame DEF Halves
<1> QED BY <1>10, <1>11, <1>13, <1>14, <1>15

-----------------------------------------------------------------------------
(* Steps that write nothing *)

Ats == {"idle", "call", "drain", "plain", "wait", "receive", "process", "shut"} \cup Awaits
Nexts == {"none", "handshake", "alert", "plain", "wait", "write", "written", "flush", "shutdown"}
SameCall(o, o2) == o2.kind = o.kind /\ o2.result = o.result
Fed == /\ adapter \in Adapters
       /\ peer \in [script : Seq(PeerUnits), at : Nat] /\ peer.at <= Len(peer.script)
       /\ \A i \in 1 .. Len(adapter.input) : adapter.input[i] \in 1 .. Len(peer.script)

\* Goto changes only where the future is.
LEMMA GotoFacts ==
  ASSUME TlsTypes, NEW h \in Halves, NEW at \in Ats, Goto(h, at)
  PROVE  \E o \in OpStates : /\ op' = [op EXCEPT ![h] = o] /\ SameCall(op[h], o) /\ o.at = at
                             /\ o.next = op[h].next /\ o.unit = op[h].unit
<1> DEFINE o == [op[h] EXCEPT !.at = at]
<1>1. op[h] \in OpStates BY DEF TlsTypes
<1>2. o \in OpStates BY <1>1 DEF OpStates, Ats
<1>3. SameCall(op[h], o) /\ o.at = at /\ o.next = op[h].next /\ o.unit = op[h].unit
  BY <1>1 DEF OpStates, SameCall
<1>4. op' = [op EXCEPT ![h] = o] BY DEF Goto
<1> HIDE DEF o
<1> QED BY Zenon, <1>2, <1>3, <1>4

\* GotoThen changes only where the future is and what it does after the drain.
LEMMA GotoThenFacts ==
  ASSUME TlsTypes, NEW h \in Halves, NEW at \in Ats, NEW next \in Nexts, GotoThen(h, at, next)
  PROVE  \E o \in OpStates : /\ op' = [op EXCEPT ![h] = o] /\ SameCall(op[h], o) /\ o.at = at
                             /\ o.next = next
<1> DEFINE o == [op[h] EXCEPT !.at = at, !.next = next]
<1>1. op[h] \in OpStates BY DEF TlsTypes
<1>2. o \in OpStates BY Zenon, <1>1 DEF OpStates, Ats, Nexts
<1>3. SameCall(op[h], o) /\ o.at = at /\ o.next = next
  BY <1>1 DEF OpStates, SameCall
<1>4. op' = [op EXCEPT ![h] = o] BY Zenon DEF GotoThen, TlsTypes
<1> HIDE DEF o
<1> QED BY Zenon, <1>2, <1>3, <1>4

\* An operation on the transport keeps the session as it was before it.
LEMMA BeginFacts ==
  ASSUME TlsTypes, NEW h \in Halves, NEW at \in Ats, NEW flying \in Seq(Nat),
         BeginTransportIo(h, at, flying)
  PROVE  \E o \in OpStates : /\ op' = [op EXCEPT ![h] = o] /\ SameCall(op[h], o) /\ o.at = at
                             /\ o.next = op[h].next /\ o.unit = op[h].unit
                             /\ o.saved = sess /\ o.flying = flying
<1> DEFINE o == [op[h] EXCEPT !.at = at, !.saved = sess, !.flying = flying]
<1>1. op[h] \in OpStates /\ sess \in Sessions BY DEF TlsTypes
<1>2. o \in OpStates BY Zenon, <1>1 DEF OpStates, Ats
<1>3. /\ SameCall(op[h], o) /\ o.at = at /\ o.next = op[h].next /\ o.unit = op[h].unit
      /\ o.saved = sess /\ o.flying = flying
  BY <1>1 DEF OpStates, SameCall
<1>4. op' = [op EXCEPT ![h] = o] BY Zenon DEF BeginTransportIo, TlsTypes
<1> HIDE DEF o
<1> QED BY Zenon, <1>2, <1>3, <1>4

\* A half goes on and writes nothing.
LEMMA StepOn ==
  ASSUME TlsInv, NEW h \in Halves, NEW o \in OpStates, op' = [op EXCEPT ![h] = o],
         op[h].at # "idle", form' = form, SameCall(op[h], o),
         InPlace(h, o), Encrypted(o, rustls'.made),
         h = "r" /\ form = "split" => o.at \notin {"drain", "t_write"},
         Grown(rustls, rustls'), Fed', written' = written, adapter'.output = adapter.output,
         sess' \in Sessions, Sound(sess'),
         form = "engine" /\ o.at \in Awaits => Sound(o.saved) /\ sess' = Abandon(o.saved),
         h = "w" /\ o.at \in Writing => sess'.write # "Closed",
         h = "r" /\ sess'.write = "Closed" => sess.write = "Closed",
         op[h].at # "t_write", o.at # "t_write",
         Ended => /\ h = "r" /\ sess'.write \in Failures \cup {"Closed"}
                  /\ form = "engine" /\ sess'.write \in Failures => o.at = "plain"
  PROVE  TlsInv'
<1>1. TlsTypes /\ Control /\ Kept /\ (Exact \/ Ended) BY DEF TlsInv
<1>2. rustls'.made >= rustls.made /\ rustls'.made \in Nat /\ Handed(rustls') = Handed(rustls)
      /\ Numbered(rustls')
  BY DEF Grown, Numbered, Conns
<1>3. Control' /\ op' \in [Halves -> OpStates] BY Zenon, <1>1, <1>2, GoesOn DEF SameCall
<1>4. TlsTypes' BY <1>1, <1>2, <1>3 DEF TlsTypes, Fed
<1>5. op'[h] = o /\ \A g \in Halves \ {h} : op'[g] = op[g] BY <1>1 DEF TlsTypes
<1>6. Exact => Exact' BY <1>2, <1>5, ExactFrame
<1>7. Ended => Ended'
  <2> SUFFICES ASSUME Ended PROVE Ended' OBVIOUS
  <2>1. h = "r" /\ op'["w"] = op["w"] /\ op'["r"].at = o.at BY <1>5 DEF Halves
  <2> QED BY <2>1, EndedFrame DEF Ended
<1>8. op[h].result = "none"
  BY <1>1 DEF Control, InPlace
<1>9. Kept' BY <1>1, <1>5, <1>8, KeptFrame DEF Halves, SameCall
<1> QED BY <1>3, <1>4, <1>6, <1>7, <1>9 DEF TlsInv

\* A future returns and writes nothing.
LEMMA StepBack ==
  ASSUME TlsInv, NEW h \in Halves, NEW result \in Results, Returns(h, result),
         op[h].at # "idle", op[Other(h)].at \in Awaits \cup {"idle"},
         Grown(rustls, rustls'), Fed', written' = written, adapter'.output = adapter.output,
         sess' \in Sessions, Sound(sess'),
         h = "r" /\ sess'.write = "Closed" => sess.write = "Closed",
         op[h].at # "t_write",
         Ended => sess'.write \in Failures \cup {"Closed"},
         op[h].kind = "write" /\ result = "ok" => \E i \in DOMAIN written : written[i] = op[h].unit
  PROVE  TlsInv'
<1>1. TlsTypes /\ Control /\ Kept /\ (Exact \/ Ended) BY DEF TlsInv
<1>2. rustls'.made >= rustls.made /\ rustls'.made \in Nat /\ Handed(rustls') = Handed(rustls)
      /\ Numbered(rustls')
  BY DEF Grown, Numbered, Conns
<1>3. Control' /\ op' \in [Halves -> OpStates] /\ form' \in {"engine", "split", "gone"}
  BY <1>1, <1>2, ComesBack
<1>4. TlsTypes' BY <1>1, <1>2, <1>3 DEF TlsTypes, Fed
<1>5. /\ \A g \in Halves \ {h} : op'[g] = op[g]
      /\ op'[h].at = "idle" /\ op'[h].kind = op[h].kind /\ op'[h].unit = op[h].unit
      /\ op'[h].result = result
  BY <1>1, ReturnType
<1>6. Exact => Exact' BY <1>2, <1>5, ExactFrame
<1>7. Ended => Ended'
  <2> SUFFICES ASSUME Ended PROVE Ended' OBVIOUS
  <2>1. op'["w"].at \in {"idle", "call"} /\ op'["r"].at # "t_write" BY <1>5 DEF Ended, Halves
  <2>2. form' = "engine" => form = "engine" BY DEF Returns
  <2>3. form = "engine" => op[Other(h)].at = "idle" BY <1>1, OtherHalf DEF Control, Halves
  <2>4. form' = "engine" => op'["r"].at = "idle" BY <1>5, <2>2, <2>3, OtherHalf DEF Halves
  <2> QED BY <2>1, <2>4, EndedFrame
<1>9. Kept'
  <2>1. CASE h = "w" BY <1>5, <2>1 DEF Kept
  <2>2. CASE h = "r" BY <1>1, <1>5, <2>2, KeptFrame DEF Halves
  <2> QED BY <2>1, <2>2 DEF Halves
<1> QED BY <1>3, <1>4, <1>6, <1>7, <1>9 DEF TlsInv

\* Who reads, and in which states of the stream.
LEMMA ReaderFacts ==
  ASSUME TlsInv, NEW h \in Halves, op[h].at \in {"plain", "wait", "receive", "t_read", "process"}
  PROVE  /\ h = "r" /\ op[h].kind # "write" /\ op[h].next \in {"none", "handshake", "alert", "plain", "wait"}
         /\ op[h].kind \in {"handshake", "read"} /\ op[h].result = "none"
         /\ op[h] \in OpStates
         /\ Ended /\ form = "engine" /\ op[h].at # "plain" => sess.write = "Closed"
         /\ sess \in Sessions /\ Sound(sess) /\ Fed /\ Grown(rustls, rustls)
<1>1. TlsTypes /\ Control BY DEF TlsInv
<1>2. InPlace(h, op[h]) BY <1>1 DEF Control
<1>3. h = "r" BY <1>2 DEF InPlace, WriterAt, Halves
<1>4. /\ op[h].kind \in {"handshake", "read"} /\ op[h].result = "none"
      /\ op[h].next \in {"none", "handshake", "alert", "plain", "wait"}
  BY <1>2, <1>3 DEF InPlace
<1>5. Ended /\ form = "engine" /\ op[h].at # "plain" => sess.write = "Closed" BY <1>3 DEF Ended
<1>6. rustls \in Conns /\ Numbered(rustls) BY <1>1 DEF TlsTypes, Numbered
<1>7. Grown(rustls, rustls) BY <1>6 DEF Grown, Conns
<1> QED BY <1>1, <1>3, <1>4, <1>5, <1>7 DEF Control, TlsTypes, Fed

\* What a half finds when the transport is done: the session it left.
LEMMA FinishedFacts ==
  ASSUME TlsInv, NEW h \in Halves, op[h].at \in Awaits
  PROVE  /\ Finished(h) \in Sessions /\ Sound(Finished(h))
         /\ Finished(h).write = "Closed" <=> sess.write = "Closed"
         /\ Ended => Finished(h).write \in Failures \cup {"Closed"}
<1>1. TlsTypes /\ Control BY DEF TlsInv
<1>2. CASE form = "engine"
  <2> DEFINE s == op[h].saved
  <2>1. s \in Sessions BY <1>1 DEF TlsTypes, OpStates
  <2>2. Sound(s) /\ sess = Abandon(s) BY <1>1, <1>2 DEF Control, Marked
  <2>3. s.write = "Closed" <=> sess.write = "Closed" BY <2>1, <2>2, AbandonFacts DEF Failing
  <2>4. Ended => sess.write = "Closed" BY <1>2 DEF Ended, Awaits, Halves
  <2> QED BY <1>2, <2>1, <2>2, <2>3, <2>4 DEF Finished
<1>3. CASE form # "engine" BY <1>1, <1>3 DEF Finished, TlsTypes, Control, Ended
<1> QED BY <1>2, <1>3

\* The reader asks the transport for bytes.
LEMMA ReceiveStep == ASSUME TlsInv, NEW h \in Halves, Receive(h) PROVE TlsInv'
<1>0. /\ UNCHANGED <<form, rustls, adapter, peer, written>> /\ op[h].at = "receive"
      /\ \/ Goto(h, "process") /\ UNCHANGED sess
         \/ BeginTransportIo(h, "t_read", <<>>)
  BY DEF Receive, Runs
<1>1. TlsTypes BY DEF TlsInv
<1>2. /\ h = "r" /\ op[h].kind # "write" /\ op[h].next \in {"none", "handshake", "alert", "plain", "wait"}
      /\ op[h].kind \in {"handshake", "read"} /\ op[h].result = "none"
      /\ Ended /\ form = "engine" => sess.write = "Closed"
      /\ sess \in Sessions /\ Sound(sess) /\ Fed /\ Grown(rustls, rustls)
  BY <1>0, ReaderFacts
<1>3. Fed' /\ Grown(rustls, rustls') BY <1>0, <1>2 DEF Fed
<1>4. CASE Goto(h, "process") /\ UNCHANGED sess
  <2> PICK o \in OpStates : /\ op' = [op EXCEPT ![h] = o] /\ SameCall(op[h], o) /\ o.at = "process"
                            /\ o.next = op[h].next
    BY <1>1, <1>4, GotoFacts DEF Ats
  <2>1. InPlace(h, o) /\ Encrypted(o, rustls'.made) BY <1>2 DEF InPlace, ReaderAt, Encrypted, SameCall
  <2>2. Ended => sess.write \in Failures \cup {"Closed"} BY DEF Ended
  <2>3. o.at \notin Awaits BY DEF Awaits
  <2>4. sess' = sess BY <1>4
  <2> QED BY Zenon, <1>0, <1>2, <1>3, <2>1, <2>2, <2>3, <2>4, StepOn DEF Failures
<1>5. CASE BeginTransportIo(h, "t_read", <<>>)
  <2> DEFINE flying == <<>>
  <2>0. flying \in Seq(Nat) /\ "t_read" \in Ats /\ BeginTransportIo(h, "t_read", flying)
    BY <1>5 DEF Ats, Awaits
  <2> HIDE DEF flying
  <2> PICK o \in OpStates : /\ op' = [op EXCEPT ![h] = o] /\ SameCall(op[h], o) /\ o.at = "t_read"
                            /\ o.next = op[h].next /\ o.saved = sess /\ o.flying = flying
    BY <1>1, <2>0, BeginFacts
  <2>1. InPlace(h, o) /\ Encrypted(o, rustls'.made) BY <1>2 DEF flying, InPlace, ReaderAt, Encrypted, SameCall
  <2>2. sess' = IF form = "engine" THEN Abandon(sess) ELSE sess BY <1>5 DEF BeginTransportIo
  <2>3. /\ sess' \in Sessions /\ Sound(sess') /\ (sess.write = "Closed" <=> sess'.write = "Closed")
        /\ sess.write \in Failures => sess'.write \in Failures
        /\ form = "engine" => sess' = Abandon(sess)
    BY <1>2, <2>2, AbandonFacts DEF Failing
  <2>4. Ended => sess'.write \in Failures \cup {"Closed"} BY <2>3 DEF Ended
  <2>5. Ended /\ form = "engine" => sess'.write \notin Failures BY <1>2, <2>3 DEF Failures
  <2> QED BY Zenon, <1>0, <1>2, <1>3, <2>1, <2>3, <2>4, <2>5, StepOn
<1> QED BY <1>0, <1>4, <1>5

\* The reader finds nothing to deliver.
LEMMA WaitStep == ASSUME TlsInv, NEW h \in Halves, WaitForPlaintext(h) PROVE TlsInv'
<1>0. /\ UNCHANGED <<rustls, adapter, peer, written>> /\ op[h].at = "wait"
      /\ op[Other(h)].at \in Awaits \cup {"idle"}
      /\ \/ sess' = FailRead(sess, "eof") /\ Returns(h, "eof")
         \/ Goto(h, "receive") /\ UNCHANGED <<form, sess>>
  BY DEF WaitForPlaintext, Runs
<1>1. TlsTypes BY DEF TlsInv
<1>2. /\ h = "r" /\ op[h].kind # "write" /\ op[h].next \in {"none", "handshake", "alert", "plain", "wait"}
      /\ op[h].kind \in {"handshake", "read"} /\ op[h].result = "none"
      /\ Ended /\ form = "engine" => sess.write = "Closed"
      /\ sess \in Sessions /\ Sound(sess) /\ Fed /\ Grown(rustls, rustls)
  BY <1>0, ReaderFacts
<1>3. Fed' /\ Grown(rustls, rustls') BY <1>0, <1>2 DEF Fed
<1>4. CASE Goto(h, "receive") /\ UNCHANGED <<form, sess>>
  <2> PICK o \in OpStates : /\ op' = [op EXCEPT ![h] = o] /\ SameCall(op[h], o) /\ o.at = "receive"
                            /\ o.next = op[h].next
    BY <1>1, <1>4, GotoFacts DEF Ats
  <2>1. InPlace(h, o) /\ Encrypted(o, rustls'.made) BY <1>2 DEF InPlace, ReaderAt, Encrypted, SameCall
  <2>2. Ended => sess.write \in Failures \cup {"Closed"} BY DEF Ended
  <2>3. o.at \notin Awaits BY DEF Awaits
  <2>4. sess' = sess /\ form' = form BY <1>4
  <2> QED BY Zenon, <1>0, <1>2, <1>3, <2>1, <2>2, <2>3, <2>4, StepOn DEF Failures
<1>5. CASE sess' = FailRead(sess, "eof") /\ Returns(h, "eof")
  <2>1. "eof" \in Failures /\ "eof" \in Results BY DEF Failures, Results
  <2>2. Failing(sess, sess') BY <1>2, <1>5, <2>1, FailReadFacts
  <2>3. /\ sess' \in Sessions /\ Sound(sess') /\ (sess.write = "Closed" <=> sess'.write = "Closed")
        /\ Ended => sess'.write \in Failures \cup {"Closed"}
    BY <2>2 DEF Failing, Ended
  <2> QED BY <1>0, <1>2, <1>3, <1>5, <2>1, <2>3, StepBack
<1> QED BY <1>0, <1>4, <1>5

\* A read of the transport completes.
LEMMA ReadDoneStep == ASSUME TlsInv, NEW h \in Halves, ReadDone(h) PROVE TlsInv'
<1>0. /\ UNCHANGED <<rustls, written>> /\ op[h].at = "t_read" /\ op[h].at \in Awaits
      /\ op[Other(h)].at \in Awaits \cup {"idle"}
  BY Zenon DEF ReadDone, Runs, Awaits
<1>1. TlsTypes BY DEF TlsInv
<1>2. /\ h = "r" /\ op[h].kind # "write" /\ op[h].next \in {"none", "handshake", "alert", "plain", "wait"}
      /\ op[h].kind \in {"handshake", "read"} /\ op[h].result = "none"
      /\ Ended /\ form = "engine" => sess.write = "Closed"
      /\ sess \in Sessions /\ Sound(sess) /\ Fed /\ Grown(rustls, rustls)
  BY <1>0, ReaderFacts
<1>3. Grown(rustls, rustls') BY <1>0, <1>2
<1> DEFINE s == Finished(h)
<1>4. /\ s \in Sessions /\ Sound(s) /\ (s.write = "Closed" <=> sess.write = "Closed")
      /\ Ended => s.write \in Failures \cup {"Closed"}
  BY <1>0, FinishedFacts
<1>5. ASSUME NEW n \in 0..(Len(peer.script) - peer.at),
             adapter' = [adapter EXCEPT !.input = Positions(n), !.eof = (n = 0)],
             peer' = [peer EXCEPT !.at = @ + n],
             sess' = Finished(h), Goto(h, "process"), form' = form
      PROVE  TlsInv'
  <2>1. /\ peer.at \in Nat /\ peer.script \in Seq(PeerUnits)
        /\ n \in Nat /\ peer.at + n \in Nat /\ peer.at + n <= Len(peer.script)
    BY <1>1, <1>5 DEF TlsTypes
  <2>2. /\ Positions(n) \in Seq(Nat) /\ Len(Positions(n)) = n
        /\ \A i \in 1 .. n : Positions(n)[i] \in 1 .. Len(peer.script)
    BY SMTT(30), <2>1 DEF Positions
  <2>3. adapter' \in Adapters /\ adapter'.output = adapter.output /\ adapter'.input = Positions(n)
    <3> DEFINE b == (n = 0)
    <3>1. b \in BOOLEAN /\ adapter' = [adapter EXCEPT !.input = Positions(n), !.eof = b] BY <1>5
    <3> HIDE DEF b
    <3> QED BY Zenon, <1>1, <2>2, <3>1 DEF TlsTypes, Adapters
  <2>4. /\ peer' \in [script : Seq(PeerUnits), at : Nat] /\ peer'.at <= Len(peer'.script)
        /\ peer'.script = peer.script
    BY Zenon, <1>1, <1>5, <2>1 DEF TlsTypes
  <2>5. Fed' BY <2>2, <2>3, <2>4 DEF Fed
  <2> PICK o \in OpStates : /\ op' = [op EXCEPT ![h] = o] /\ SameCall(op[h], o) /\ o.at = "process"
                            /\ o.next = op[h].next
    BY <1>1, <1>5, GotoFacts DEF Ats
  <2>6. InPlace(h, o) /\ Encrypted(o, rustls'.made) BY <1>2 DEF InPlace, ReaderAt, Encrypted, SameCall
  <2>7. o.at \notin Awaits BY DEF Awaits
  <2>8. Ended /\ form = "engine" => s.write \notin Failures BY <1>2, <1>4 DEF Failures
  <2>9. sess' = s /\ form' = form BY <1>5
  <2> HIDE DEF s
  <2> QED BY Zenon, <1>0, <1>2, <1>3, <1>4, <2>3, <2>5, <2>6, <2>7, <2>8, <2>9, StepOn
<1>6. ASSUME NEW f \in {"io", "canceled"},
             sess' = IF f = "canceled" THEN FailBoth(Finished(h), f) ELSE FailRead(Finished(h), f),
             Returns(h, f), UNCHANGED <<adapter, peer>>
      PROVE  TlsInv'
  <2>1. f \in Failures /\ f \in Results BY DEF Failures, Results
  <2>2. Failing(s, sess') BY <1>4, <1>6, <2>1, FailReadFacts, FailBothFacts
  <2>3. /\ sess' \in Sessions /\ Sound(sess') /\ (sess.write = "Closed" <=> sess'.write = "Closed")
        /\ Ended => sess'.write \in Failures \cup {"Closed"}
    BY <1>4, <2>2 DEF Failing
  <2>4. Fed' /\ adapter' = adapter BY <1>2, <1>6 DEF Fed
  <2> QED BY <1>0, <1>2, <1>3, <1>6, <2>1, <2>3, <2>4, StepBack
<1> QED BY Zenon, <1>5, <1>6 DEF ReadDone

\* read_tls fails.
LEMMA ProcessFailsStep == ASSUME TlsInv, NEW h \in Halves, ProcessFails(h) PROVE TlsInv'
<1>0. /\ UNCHANGED <<rustls, adapter, peer, written>> /\ op[h].at = "process" /\ Returns(h, "io")
      /\ op[Other(h)].at \in Awaits \cup {"idle"}
      /\ sess' = IF form = "split" THEN FailBoth(sess, "io") ELSE sess
  BY DEF ProcessFails, ProcessError, Runs
<1>2. /\ h = "r" /\ op[h].kind # "write" /\ sess \in Sessions /\ Sound(sess) /\ Fed
      /\ Grown(rustls, rustls)
  BY <1>0, ReaderFacts
<1>3. Fed' /\ Grown(rustls, rustls') BY <1>0, <1>2 DEF Fed
<1>4. "io" \in Failures /\ "io" \in Results BY DEF Failures, Results
<1>5. /\ sess' \in Sessions /\ Sound(sess') /\ (sess.write = "Closed" <=> sess'.write = "Closed")
      /\ sess.write \in Failures => sess'.write \in Failures
  BY <1>0, <1>2, <1>4, FailBothFacts DEF Failing
<1>6. Ended => sess'.write \in Failures \cup {"Closed"} BY <1>5 DEF Ended
<1> QED BY <1>0, <1>2, <1>3, <1>4, <1>5, <1>6, StepBack

\* What follows the first n units.
LEMMA RestFacts ==
  ASSUME NEW s \in Seq(Nat), NEW n \in 0 .. Len(s)
  PROVE  /\ SubSeq(s, n + 1, Len(s)) \in Seq(Nat) /\ Len(SubSeq(s, n + 1, Len(s))) = Len(s) - n
         /\ \A i \in 1 .. Len(s) - n : SubSeq(s, n + 1, Len(s))[i] = s[n + i]
<1>1. n + 1 \in 1 .. Len(s) + 1 /\ Len(s) \in Nat OBVIOUS
<1>2. SubSeq(s, n + 1, Len(s)) \in Seq(Nat) /\ Len(SubSeq(s, n + 1, Len(s))) = Len(s) - n
  BY <1>1
<1>3. \A i \in 1 .. Len(s) - n : SubSeq(s, n + 1, Len(s))[i] = s[n + i] BY <1>1
<1> QED BY <1>2, <1>3

\* The reader hands the bytes to process_new_packets.
LEMMA ProcessStep == ASSUME TlsInv, NEW h \in Halves, Process(h) PROVE TlsInv'
<1>0. /\ UNCHANGED <<peer, written>> /\ op[h].at = "process"
      /\ op[Other(h)].at \in Awaits \cup {"idle"}
  BY DEF Process, Runs
<1>1. TlsTypes BY DEF TlsInv
<1>2. /\ h = "r" /\ op[h].kind # "write" /\ op[h].next \in {"none", "handshake", "alert", "plain", "wait"}
      /\ op[h].kind \in {"handshake", "read"} /\ op[h].result = "none"
      /\ Ended /\ form = "engine" => sess.write = "Closed"
      /\ sess \in Sessions /\ Sound(sess) /\ Fed /\ Grown(rustls, rustls) /\ op[h] \in OpStates
  BY <1>0, ReaderFacts
<1>3. PICK n \in 0..Len(adapter.input) :
        LET fed == [rustls EXCEPT !.eof = @ \/ adapter.input = <<>>]
            now == ProcessNewPackets(fed, SubSeq(adapter.input, 1, n)) IN
          /\ adapter' = [adapter EXCEPT !.input = IF n = 0 THEN <<>> ELSE SubSeq(@, n + 1, Len(@))]
          /\ IF now.broken
             THEN /\ rustls' = now
                  /\ IF form = "split"
                     THEN sess' = FailProtocol(sess) /\ Returns(h, "protocol")
                     ELSE /\ GotoThen(h, "drain", "alert")
                          /\ UNCHANGED <<sess, form>>
             ELSE \/ /\ rustls' = Touch(now)
                     /\ op' = [op EXCEPT ![h].processed = TRUE,
                                         ![h].at = IF form = "split" THEN "plain" ELSE "drain",
                                         ![h].next = IF op[h].kind = "handshake" THEN "handshake" ELSE "plain"]
                     /\ UNCHANGED <<sess, form>>
                  \/ rustls' = now /\ ProcessError(h)
  BY Zenon DEF Process
<1> DEFINE b == rustls.eof \/ adapter.input = <<>>
           fed == [rustls EXCEPT !.eof = b]
           units == SubSeq(adapter.input, 1, n)
           now == ProcessNewPackets(fed, units)
           left == IF n = 0 THEN <<>> ELSE SubSeq(adapter.input, n + 1, Len(adapter.input))
<1>4. /\ adapter' = [adapter EXCEPT !.input = left]
      /\ \/ /\ rustls' = now
            /\ \/ form = "split" /\ sess' = FailProtocol(sess) /\ Returns(h, "protocol")
               \/ form # "split" /\ GotoThen(h, "drain", "alert") /\ UNCHANGED <<sess, form>>
         \/ /\ rustls' = Touch(now)
            /\ op' = [op EXCEPT ![h].processed = TRUE,
                                ![h].at = IF form = "split" THEN "plain" ELSE "drain",
                                ![h].next = IF op[h].kind = "handshake" THEN "handshake" ELSE "plain"]
            /\ UNCHANGED <<sess, form>>
         \/ rustls' = now /\ ProcessError(h)
  BY Zenon, <1>3
<1>5. adapter.input \in Seq(Nat) /\ \A i \in 1 .. Len(adapter.input) : adapter.input[i] \in 1 .. Len(peer.script)
  BY <1>1 DEF TlsTypes, Adapters
<1>6. /\ units \in Seq(Nat) /\ Len(units) = n
      /\ \A i \in 1 .. n : units[i] = adapter.input[i]
  BY <1>5
<1>7. \A i \in 1 .. Len(units) : peer.script[units[i]] \in PeerUnits
  <2>1. peer.script \in Seq(PeerUnits) BY <1>1 DEF TlsTypes
  <2> HIDE DEF units
  <2>2. ASSUME NEW i \in 1 .. Len(units) PROVE peer.script[units[i]] \in PeerUnits
    <3>1. i \in 1 .. n /\ i \in 1 .. Len(adapter.input) BY <1>5, <1>6
    <3>2. units[i] \in 1 .. Len(peer.script) BY <1>5, <1>6, <3>1
    <3> QED BY <2>1, <3>2
  <2> QED BY <2>2
<1>8. /\ left \in Seq(Nat)
      /\ \A i \in 1 .. Len(left) : left[i] \in 1 .. Len(peer.script)
  <2>1. CASE n = 0 BY <2>1
  <2>2. CASE n # 0
    <3>1. /\ SubSeq(adapter.input, n + 1, Len(adapter.input)) \in Seq(Nat)
          /\ Len(SubSeq(adapter.input, n + 1, Len(adapter.input))) = Len(adapter.input) - n
          /\ \A i \in 1 .. Len(adapter.input) - n :
               SubSeq(adapter.input, n + 1, Len(adapter.input))[i] = adapter.input[n + i]
      BY Zenon, <1>5, RestFacts
    <3>2. \A i \in 1 .. Len(adapter.input) - n : n + i \in 1 .. Len(adapter.input) BY <1>5
    <3> QED BY <1>5, <2>2, <3>1, <3>2
  <2> QED BY Zenon, <2>1, <2>2
<1>9. Numbered(fed) /\ Grown(rustls, fed)
  <2>1. Numbered(rustls) /\ rustls \in Conns BY <1>1 DEF TlsTypes, Numbered
  <2>2. b \in BOOLEAN BY <2>1 DEF Conns
  <2> HIDE DEF b
  <2>3. fed \in Conns /\ fed.queue = rustls.queue /\ fed.made = rustls.made BY Zenon, <2>1, <2>2 DEF Conns
  <2> QED BY Zenon, <2>1, <2>3, SameGrows DEF Grown
<1> HIDE DEF fed, units, left, b
<1>10. Grown(fed, now) BY <1>6, <1>7, <1>9, PacketsGrow
<1> HIDE DEF now
<1>11. Grown(rustls, now) /\ Grown(rustls, Touch(now))
  <2>1. Numbered(rustls) BY <1>1 DEF TlsTypes
  <2>2. Grown(rustls, now) BY <1>9, <1>10, <2>1, GrownTwice
  <2>3. Numbered(now) BY <1>10 DEF Grown
  <2>4. Grown(now, Touch(now)) BY <2>3, TouchGrows
  <2> QED BY <2>1, <2>2, <2>4, GrownTwice
<1>12. Grown(rustls, rustls') BY <1>4, <1>11
<1>13. Fed' /\ adapter'.output = adapter.output
  <2>1. adapter' \in Adapters /\ adapter'.output = adapter.output /\ adapter'.input = left
    BY Zenon, <1>1, <1>4, <1>8 DEF TlsTypes, Adapters
  <2> QED BY <1>0, <1>2, <1>8, <2>1 DEF Fed
<1>14. CASE form = "split" /\ sess' = FailProtocol(sess) /\ Returns(h, "protocol")
  <2>1. "protocol" \in Results BY DEF Results, Failures
  <2>2. Failing(sess, sess') BY <1>2, <1>14, FailProtocolFacts
  <2>3. /\ sess' \in Sessions /\ Sound(sess') /\ (sess.write = "Closed" <=> sess'.write = "Closed")
        /\ Ended => sess'.write \in Failures \cup {"Closed"}
    BY <2>2 DEF Failing, Ended
  <2> QED BY <1>0, <1>2, <1>12, <1>13, <1>14, <2>1, <2>3, StepBack
<1>15. CASE UNCHANGED <<sess, form>>
             /\ \E o \in OpStates : /\ op' = [op EXCEPT ![h] = o] /\ SameCall(op[h], o)
                                    /\ o.at = (IF form = "split" THEN "plain" ELSE "drain")
                                    /\ o.next \in {"handshake", "plain", "alert"}
  <2> PICK o \in OpStates : /\ op' = [op EXCEPT ![h] = o] /\ SameCall(op[h], o)
                            /\ o.at = (IF form = "split" THEN "plain" ELSE "drain")
                            /\ o.next \in {"handshake", "plain", "alert"}
    BY Zenon, <1>15
  <2>1. InPlace(h, o) /\ Encrypted(o, rustls'.made) BY <1>2 DEF InPlace, ReaderAt, Encrypted, SameCall
  <2>2. o.at \notin Awaits BY DEF Awaits
  <2>3. Ended => sess.write \in Failures \cup {"Closed"} BY DEF Ended
  <2>4. Ended /\ form = "engine" => sess.write \notin Failures BY <1>2 DEF Failures
  <2>5. sess' = sess /\ form' = form BY <1>15
  <2> QED BY Zenon, <1>0, <1>2, <1>12, <1>13, <2>1, <2>2, <2>3, <2>4, <2>5, StepOn
<1>16. CASE form # "split" /\ GotoThen(h, "drain", "alert") /\ UNCHANGED <<sess, form>>
  <2>1. \E o \in OpStates : /\ op' = [op EXCEPT ![h] = o] /\ SameCall(op[h], o) /\ o.at = "drain"
                            /\ o.next = "alert"
    BY <1>1, <1>16, GotoThenFacts DEF Ats, Nexts
  <2> QED BY Zenon, <1>15, <1>16, <2>1
<1>17. CASE /\ op' = [op EXCEPT ![h].processed = TRUE,
                                ![h].at = IF form = "split" THEN "plain" ELSE "drain",
                                ![h].next = IF op[h].kind = "handshake" THEN "handshake" ELSE "plain"]
            /\ UNCHANGED <<sess, form>>
  <2> DEFINE at == IF form = "split" THEN "plain" ELSE "drain"
             next == IF op[h].kind = "handshake" THEN "handshake" ELSE "plain"
             o == [op[h] EXCEPT !.processed = TRUE, !.at = at, !.next = next]
  <2>1. at \in {"plain", "drain"} /\ next \in {"handshake", "plain"} OBVIOUS
  <2>2. op' = [op EXCEPT ![h] = o] BY Zenon, <1>1, <1>17 DEF TlsTypes
  <2>3. at = IF form = "split" THEN "plain" ELSE "drain" OBVIOUS
  <2> HIDE DEF at, next
  <2>4. o \in OpStates /\ SameCall(op[h], o) /\ o.at = at /\ o.next = next
    BY Zenon, <1>2, <2>1 DEF OpStates, SameCall
  <2> HIDE DEF o
  <2> QED BY Zenon, <1>15, <1>17, <2>1, <2>2, <2>3, <2>4
<1>18. CASE ProcessError(h)
  <2>1. "io" \in Failures /\ "io" \in Results BY DEF Failures, Results
  <2>2. sess' = (IF form = "split" THEN FailBoth(sess, "io") ELSE sess) /\ Returns(h, "io")
    BY <1>18 DEF ProcessError
  <2>3. /\ sess' \in Sessions /\ Sound(sess') /\ (sess.write = "Closed" <=> sess'.write = "Closed")
        /\ sess.write \in Failures => sess'.write \in Failures
    BY <1>2, <2>1, <2>2, FailBothFacts DEF Failing
  <2>4. Ended => sess'.write \in Failures \cup {"Closed"} BY <2>3 DEF Ended
  <2> QED BY <1>0, <1>2, <1>12, <1>13, <2>1, <2>2, <2>3, <2>4, StepBack
<1> QED BY Zenon, <1>4, <1>14, <1>16, <1>17, <1>18

\* Plaintext is delivered, or the end of the stream.
LEMMA PlaintextStep == ASSUME TlsInv, NEW h \in Halves, Plaintext(h) PROVE TlsInv'
<1>0. /\ UNCHANGED <<adapter, peer, written>> /\ op[h].at = "plain"
      /\ op[Other(h)].at \in Awaits \cup {"idle"}
  BY DEF Plaintext, Runs
<1>1. TlsTypes BY DEF TlsInv
<1>2. /\ h = "r" /\ op[h].kind # "write" /\ op[h].next \in {"none", "handshake", "alert", "plain", "wait"}
      /\ op[h].kind \in {"handshake", "read"} /\ op[h].result = "none"
      /\ sess \in Sessions /\ Sound(sess) /\ Fed /\ Grown(rustls, rustls)
  BY <1>0, ReaderFacts
<1>3. Fed' /\ adapter'.output = adapter.output BY <1>0, <1>2 DEF Fed
<1>4. Ended => sess.write \in Failures \cup {"Closed"} BY DEF Ended
<1>5. sess.read \notin Failures => sess.write \notin Failures BY <1>2 DEF Sound
\* It returns, and leaves the write side as it is.
<1>6. ASSUME NEW result \in Results, Returns(h, result), Grown(rustls, rustls'),
             sess' \in Sessions, Sound(sess'), sess'.write = sess.write
      PROVE  TlsInv'
  BY <1>0, <1>2, <1>3, <1>4, <1>6, StepBack
<1>7. CASE sess.read \in Failures
  <2>1. Returns(h, sess.read) /\ UNCHANGED <<sess, rustls>> BY Zenon, <1>7 DEF Plaintext, Failures
  <2>2. sess.read \in Results BY <1>7 DEF Results
  <2> QED BY <1>2, <1>6, <2>1, <2>2
<1>8. CASE sess.read = "PeerClosed"
  <2>1. Returns(h, "end") /\ UNCHANGED <<sess, rustls>> BY <1>8 DEF Plaintext, Failures
  <2>2. "end" \in Results BY DEF Results
  <2> QED BY <1>2, <1>6, <2>1, <2>2
<1>9. ASSUME sess.read = "Open", sess' = [sess EXCEPT !.read = "PeerClosed"]
      PROVE  sess' \in Sessions /\ Sound(sess') /\ sess'.write = sess.write
  <2>1. sess' \in Sessions /\ sess'.write = sess.write BY <1>2, <1>9 DEF Sessions
  <2>2. sess.write \notin Failures \cup {"AlertPending"} BY <1>2, <1>9 DEF Sound, Failures
  <2> QED BY <2>1, <2>2 DEF Sound
<1>10. CASE sess.read = "Open" /\ FirstChunk(rustls) = "available"
  <2>1. PICK capacity \in {1, 2} :
           LET n == IF capacity < Len(rustls.plain) THEN capacity ELSE Len(rustls.plain)
               left == [rustls EXCEPT !.plain = SubSeq(@, n + 1, Len(@))] IN
           /\ rustls' = left
           /\ sess' = IF n < capacity /\ FirstChunk(left) = "closed"
                      THEN [sess EXCEPT !.read = "PeerClosed"] ELSE sess
           /\ Returns(h, "ok")
    BY Zenon, <1>10 DEF Plaintext, Failures
  <2> DEFINE n == IF capacity < Len(rustls.plain) THEN capacity ELSE Len(rustls.plain)
             rest == SubSeq(rustls.plain, n + 1, Len(rustls.plain))
  <2>2. rustls' = [rustls EXCEPT !.plain = rest] /\ Returns(h, "ok")
        /\ (sess' = [sess EXCEPT !.read = "PeerClosed"] \/ sess' = sess)
    BY <2>1
  <2>3. rustls \in Conns /\ Numbered(rustls) BY <1>1 DEF TlsTypes, Numbered
  <2>4. rest \in Seq(Nat)
    <3>1. rustls.plain \in Seq(Nat) /\ n \in 0 .. Len(rustls.plain) BY <2>3 DEF Conns
    <3> QED BY <3>1, RestFacts
  <2> HIDE DEF rest
  <2>5. rustls' \in Conns /\ rustls'.queue = rustls.queue /\ rustls'.made = rustls.made
    BY Zenon, <2>2, <2>3, <2>4 DEF Conns
  <2>6. Grown(rustls, rustls') BY <2>3, <2>5, SameGrows
  <2>7. "ok" \in Results BY DEF Results
  <2>8. sess' \in Sessions /\ Sound(sess') /\ sess'.write = sess.write BY <1>2, <1>9, <1>10, <2>2
  <2> QED BY <1>6, <2>2, <2>6, <2>7, <2>8
<1>11. CASE sess.read = "Open" /\ FirstChunk(rustls) \in {"closed", "eof"}
  <2>1. /\ rustls' = rustls
        /\ \/ sess' = [sess EXCEPT !.read = "PeerClosed"] /\ Returns(h, "end")
           \/ sess' = FailRead(sess, "eof") /\ Returns(h, "eof")
    BY <1>11 DEF Plaintext, Failures
  <2>2. "end" \in Results /\ "eof" \in Results /\ "eof" \in Failures BY DEF Results, Failures
  <2>3. sess' \in Sessions /\ Sound(sess') /\ sess'.write = sess.write
    BY <1>2, <1>9, <1>11, <2>1, <2>2, FailReadFacts DEF Failing
  <2> QED BY <1>2, <1>6, <2>1, <2>2, <2>3
<1>12. CASE sess.read = "Open" /\ FirstChunk(rustls) \notin {"available", "closed", "eof"}
  <2>1. /\ UNCHANGED <<form, sess, rustls>>
        /\ \/ form = "engine" /\ GotoThen(h, "drain", "wait")
           \/ Goto(h, "wait")
    BY Zenon, <1>12 DEF Plaintext, Failures
  <2>2. \E o \in OpStates : /\ op' = [op EXCEPT ![h] = o] /\ SameCall(op[h], o)
                            /\ (o.at = "wait" \/ (o.at = "drain" /\ o.next = "wait" /\ form = "engine"))
                            /\ o.next \in {"none", "handshake", "alert", "plain", "wait"}
    <3>1. CASE Goto(h, "wait") BY <1>1, <1>2, <3>1, GotoFacts DEF Ats
    <3>2. CASE form = "engine" /\ GotoThen(h, "drain", "wait")
      BY <1>1, <3>2, GotoThenFacts DEF Ats, Nexts
    <3> QED BY <2>1, <3>1, <3>2
  <2> PICK o \in OpStates : /\ op' = [op EXCEPT ![h] = o] /\ SameCall(op[h], o)
                            /\ (o.at = "wait" \/ (o.at = "drain" /\ o.next = "wait" /\ form = "engine"))
                            /\ o.next \in {"none", "handshake", "alert", "plain", "wait"}
    BY Zenon, <2>2
  <2>3. InPlace(h, o) /\ Encrypted(o, rustls'.made) BY <1>2 DEF InPlace, ReaderAt, Encrypted, SameCall
  <2>4. o.at \notin Awaits BY DEF Awaits
  <2>5. sess.write \notin Failures BY <1>5, <1>12 DEF Failures
  <2>6. sess' = sess /\ form' = form /\ Grown(rustls, rustls') BY <1>2, <2>1
  <2> QED BY Zenon, <1>0, <1>2, <1>3, <1>4, <2>3, <2>4, <2>5, <2>6, StepOn
<1> QED BY <1>2, <1>7, <1>8, <1>10, <1>11, <1>12 DEF Sessions

\* Who writes, and in which states of the stream.
LEMMA WriterFacts ==
  ASSUME TlsInv, NEW h \in Halves,
         op[h].at \in {"call", "t_flush", "shut", "t_shutdown"} \/ (h = "w" /\ op[h].at = "drain")
  PROVE  /\ h = "w" /\ op[h].kind \in {"write", "flush", "shutdown"}
         /\ op[h].at \notin {"call", "drain"} => op[h].kind # "write"
         /\ op[h].at = "drain" => /\ op[h].next \in {"write", "written", "flush", "shutdown"}
                                  /\ op[h].kind = "write" => op[h].next \in {"write", "written"}
         /\ op[h].next \in {"none", "write", "written", "flush", "shutdown"}
         /\ op[h].result = "none" /\ op[h] \in OpStates
         /\ op[h].at # "call" => ~Ended /\ sess.write # "Closed"
         /\ sess \in Sessions /\ Sound(sess) /\ Fed /\ Numbered(rustls) /\ Grown(rustls, rustls)
<1>1. TlsTypes /\ Control BY DEF TlsInv
<1>2. InPlace(h, op[h]) BY <1>1 DEF Control
<1>3. h = "w" BY <1>2 DEF InPlace, ReaderAt, Halves
<1>4. /\ op[h].kind \in {"write", "flush", "shutdown"} /\ op[h].result = "none"
      /\ op[h].at \notin {"call", "drain"} => op[h].kind # "write"
      /\ op[h].at = "drain" => /\ op[h].next \in {"write", "written", "flush", "shutdown"}
                               /\ op[h].kind = "write" => op[h].next \in {"write", "written"}
      /\ op[h].next \in {"none", "write", "written", "flush", "shutdown"}
  BY <1>2, <1>3 DEF InPlace
<1>5. op[h].at # "call" => op["w"].at \in Writing BY <1>3 DEF Writing
<1>6. op[h].at # "call" => ~Ended /\ sess.write # "Closed" BY <1>1, <1>3, <1>5 DEF Ended, Control, Writing
<1>7. rustls \in Conns /\ Numbered(rustls) BY <1>1 DEF TlsTypes, Numbered
<1>8. Grown(rustls, rustls) BY <1>7 DEF Grown, Conns
<1> QED BY Zenon, <1>1, <1>3, <1>4, <1>6, <1>7, <1>8 DEF Control, TlsTypes, Fed

\* The transport is shut down after the close_notify.
LEMMA ShutStep == ASSUME TlsInv, Shut PROVE TlsInv'
<1> DEFINE flying == <<>>
<1>0. /\ UNCHANGED <<form, rustls, adapter, peer, written>> /\ op["w"].at = "shut" /\ "w" \in Halves
      /\ BeginTransportIo("w", "t_shutdown", flying) /\ flying \in Seq(Nat)
  BY DEF Shut, Runs, Halves
<1> HIDE DEF flying
<1>1. TlsTypes BY DEF TlsInv
<1>2. /\ op["w"].kind \in {"flush", "shutdown"} /\ op["w"].result = "none"
      /\ op["w"].next \in {"none", "write", "written", "flush", "shutdown"}
      /\ ~Ended /\ sess.write # "Closed"
      /\ sess \in Sessions /\ Sound(sess) /\ Fed /\ Grown(rustls, rustls)
  BY <1>0, WriterFacts
<1>3. Fed' /\ Grown(rustls, rustls') BY <1>0, <1>2 DEF Fed
<1> PICK o \in OpStates : /\ op' = [op EXCEPT !["w"] = o] /\ SameCall(op["w"], o) /\ o.at = "t_shutdown"
                          /\ o.next = op["w"].next /\ o.saved = sess /\ o.flying = flying
  BY <1>0, <1>1, BeginFacts DEF Ats, Awaits
<1>4. InPlace("w", o) /\ Encrypted(o, rustls'.made) BY <1>2 DEF flying, InPlace, WriterAt, Encrypted, SameCall
<1>5. sess' = IF form = "engine" THEN Abandon(sess) ELSE sess BY <1>0 DEF BeginTransportIo
<1>6. /\ sess' \in Sessions /\ Sound(sess') /\ sess'.write # "Closed"
      /\ form = "engine" => sess' = Abandon(sess)
  BY <1>2, <1>5, AbandonFacts DEF Failing
<1> QED BY Zenon, <1>0, <1>2, <1>3, <1>4, <1>6, StepOn

\* A flush of the transport completes.
LEMMA FlushDoneStep == ASSUME TlsInv, FlushDone PROVE TlsInv'
<1>0. /\ UNCHANGED <<rustls, adapter, peer, written>> /\ op["w"].at = "t_flush" /\ "w" \in Halves
      /\ op["w"].at \in Awaits /\ op[Other("w")].at \in Awaits \cup {"idle"}
  BY DEF FlushDone, Runs, Halves, Awaits
<1>1. TlsTypes BY DEF TlsInv
<1>2. /\ op["w"].kind \in {"flush", "shutdown"} /\ op["w"].result = "none"
      /\ op["w"].next \in {"none", "write", "written", "flush", "shutdown"}
      /\ ~Ended /\ sess.write # "Closed"
      /\ sess \in Sessions /\ Sound(sess) /\ Fed /\ Grown(rustls, rustls)
  BY <1>0, WriterFacts
<1>3. Fed' /\ Grown(rustls, rustls') BY <1>0, <1>2 DEF Fed
<1> DEFINE s == Finished("w")
<1>4. s \in Sessions /\ Sound(s) /\ s.write # "Closed" BY <1>0, <1>2, FinishedFacts
<1>5. \/ \E result \in {"io", "canceled"} : sess' = FailBoth(s, result) /\ Returns("w", result)
      \/ /\ sess' = s
         /\ \/ WriteFailed(sess) /\ Returns("w", WriteFailure(sess))
            \/ Returns("w", "ok")
            \/ Goto("w", "shut") /\ UNCHANGED form
  BY DEF FlushDone
<1> HIDE DEF s
<1>6. ASSUME NEW result \in {"io", "canceled"}, sess' = FailBoth(s, result), Returns("w", result)
      PROVE  TlsInv'
  <2>1. result \in Failures /\ result \in Results BY DEF Failures, Results
  <2>2. sess' \in Sessions /\ Sound(sess') BY <1>4, <1>6, <2>1, FailBothFacts DEF Failing
  <2> QED BY <1>0, <1>2, <1>3, <1>6, <2>1, <2>2, StepBack
<1>7. ASSUME NEW result \in Results, sess' = s, Returns("w", result) PROVE TlsInv'
  BY <1>0, <1>2, <1>3, <1>4, <1>7, StepBack
<1>8. WriteFailed(sess) => WriteFailure(sess) \in Results
  BY Zenon, <1>2, WriteFailureFacts DEF Results
<1>9. "ok" \in Results BY DEF Results
<1>10. CASE sess' = s /\ Goto("w", "shut") /\ UNCHANGED form
  <2> PICK o \in OpStates : /\ op' = [op EXCEPT !["w"] = o] /\ SameCall(op["w"], o) /\ o.at = "shut"
                            /\ o.next = op["w"].next
    BY <1>0, <1>1, <1>10, GotoFacts DEF Ats
  <2>1. InPlace("w", o) /\ Encrypted(o, rustls'.made) BY <1>2 DEF InPlace, WriterAt, Encrypted, SameCall
  <2>2. o.at \notin Awaits BY DEF Awaits
  <2> QED BY Zenon, <1>0, <1>2, <1>3, <1>4, <1>10, <2>1, <2>2, StepOn
<1> QED BY <1>5, <1>6, <1>7, <1>8, <1>9, <1>10

\* Shutdown queues the close_notify.
LEMMA CloseNotifyFacts ==
  ASSUME SendCloseNotify, sess \in Sessions, Sound(sess), Numbered(rustls), sess.write # "Closed"
  PROVE  sess' \in Sessions /\ Sound(sess') /\ sess'.write # "Closed" /\ Grown(rustls, rustls')
<1>1. CASE sess.write = "Open"
  <2>1. sess' = [sess EXCEPT !.write = "Closing"] /\ rustls' = Queue(rustls)
    BY <1>1 DEF SendCloseNotify
  <2>2. sess' \in Sessions /\ sess'.write = "Closing" BY <2>1 DEF Sessions
  <2> QED BY <2>1, <2>2, QueueGrows DEF Sound, Failures
<1>2. CASE sess.write # "Open"
  <2>1. sess' = sess /\ rustls' = rustls BY <1>2 DEF SendCloseNotify
  <2> QED BY <2>1, SameGrows DEF Numbered
<1> QED BY <1>1, <1>2

\* A call of the writer starts.
LEMMA EnterWriterStep == ASSUME TlsInv, EnterWriter PROVE TlsInv'
<1>0. /\ UNCHANGED <<adapter, peer, written>> /\ op["w"].at = "call" /\ "w" \in Halves
      /\ op[Other("w")].at \in Awaits \cup {"idle"}
  BY DEF EnterWriter, Runs, Halves
<1>1. TlsTypes BY DEF TlsInv
<1>2. /\ op["w"].kind \in {"write", "flush", "shutdown"} /\ op["w"].result = "none"
      /\ sess \in Sessions /\ Sound(sess) /\ Fed /\ Numbered(rustls) /\ Grown(rustls, rustls)
  BY <1>0, WriterFacts
<1>3. Fed' BY <1>0, <1>2 DEF Fed
<1>4. Ended => sess.write \in Failures \cup {"Closed"} BY DEF Ended
<1>5. ASSUME NEW result \in Results, Returns("w", result), UNCHANGED <<sess, rustls>>,
             ~(op["w"].kind = "write" /\ result = "ok")
      PROVE  TlsInv'
  BY <1>0, <1>2, <1>3, <1>4, <1>5, StepBack
<1>6. ASSUME sess.write \notin Failures \cup {"Closed"}, NEW next \in {"write", "flush", "shutdown"},
             GotoThen("w", "drain", next), form' = form,
             sess' \in Sessions, Sound(sess'), sess'.write # "Closed", Grown(rustls, rustls'),
             op["w"].kind = "write" => next = "write"
      PROVE  TlsInv'
  <2> PICK o \in OpStates : /\ op' = [op EXCEPT !["w"] = o] /\ SameCall(op["w"], o) /\ o.at = "drain"
                            /\ o.next = next
    BY <1>0, <1>1, <1>6, GotoThenFacts DEF Ats, Nexts
  <2>1. InPlace("w", o) /\ Encrypted(o, rustls'.made)
    BY <1>2, <1>6 DEF InPlace, WriterAt, Encrypted, SameCall
  <2>2. o.at \notin Awaits BY DEF Awaits
  <2> QED BY Zenon, <1>0, <1>3, <1>4, <1>6, <2>1, <2>2, StepOn
<1>7. "broken_pipe" \in Results /\ "ok" \in Results /\ Failures \subseteq Results BY DEF Results
<1>8. CASE sess.write = "Closed"
  <2> DEFINE result == IF op["w"].kind = "write" THEN "broken_pipe" ELSE "ok"
  <2>1. Returns("w", result) /\ UNCHANGED <<sess, rustls>> BY Zenon, <1>8 DEF EnterWriter
  <2>2. result \in Results /\ ~(op["w"].kind = "write" /\ result = "ok") BY <1>7
  <2> HIDE DEF result
  <2> QED BY <1>5, <2>1, <2>2
<1>9. CASE sess.write # "Closed" /\ form = "engine" /\ WriteFailed(sess)
  <2>1. Returns("w", WriteFailure(sess)) /\ UNCHANGED <<sess, rustls>> BY <1>9 DEF EnterWriter
  <2>2. WriteFailure(sess) \in Failures BY Zenon, <1>2, <1>9, WriteFailureFacts
  <2> QED BY <1>5, <1>7, <2>1, <2>2 DEF Failures
<1>10. CASE sess.write # "Closed" /\ form # "engine" /\ sess.write \in Failures
  <2>1. EnterDrain("w", op["w"].kind) /\ UNCHANGED <<sess, rustls>> BY <1>10 DEF EnterWriter
  <2>2. form = "split" BY <1>0, <1>1, <1>10 DEF TlsTypes, TlsInv, Control
  <2>3. Returns("w", sess.write) BY <1>10, <2>1, <2>2 DEF EnterDrain
  <2> QED BY <1>5, <1>7, <1>10, <2>1, <2>3 DEF Failures
<1>11. CASE sess.write # "Closed" /\ sess.write \notin Failures /\ (form = "engine" => ~WriteFailed(sess))
  <2>1. CASE form = "engine" /\ op["w"].kind = "write" /\ sess.write = "Closing"
    <3>1. Returns("w", "broken_pipe") /\ UNCHANGED <<sess, rustls>> BY <1>11, <2>1 DEF EnterWriter
    <3> QED BY <1>5, <1>7, <3>1
  <2>2. CASE form = "engine" /\ op["w"].kind = "shutdown"
    <3>1. SendCloseNotify /\ EnterDrain("w", "flush") BY <1>11, <2>2 DEF EnterWriter
    <3>2. GotoThen("w", "drain", "flush") /\ form' = form BY <1>11, <2>2, <3>1 DEF EnterDrain
    <3>3. sess' \in Sessions /\ Sound(sess') /\ sess'.write # "Closed" /\ Grown(rustls, rustls')
      BY <1>2, <1>11, <3>1, CloseNotifyFacts
    <3> QED BY <1>6, <1>11, <2>2, <3>2, <3>3
  <2>3. CASE ~(form = "engine" /\ op["w"].kind = "write" /\ sess.write = "Closing")
             /\ ~(form = "engine" /\ op["w"].kind = "shutdown")
    <3>1. EnterDrain("w", op["w"].kind) /\ UNCHANGED <<sess, rustls>> BY <1>11, <2>3 DEF EnterWriter
    <3>2. GotoThen("w", "drain", op["w"].kind) /\ form' = form BY <1>11, <3>1 DEF EnterDrain
    <3> QED BY <1>2, <1>6, <1>11, <3>1, <3>2
  <2> QED BY <2>1, <2>2, <2>3
<1> QED BY <1>8, <1>9, <1>10, <1>11 DEF WriteFailed

\* drain_output has nothing left to write, in a reader.
LEMMA ReaderDrained == ASSUME TlsInv, DrainEnds("r") PROVE TlsInv'
<1> DEFINE h == "r"
<1>0. /\ UNCHANGED <<adapter, peer, written>> /\ op[h].at = "drain" /\ h \in Halves
      /\ op[Other(h)].at \in Awaits \cup {"idle"}
  BY DEF DrainEnds, Runs, Halves
<1>1. TlsTypes /\ Control BY DEF TlsInv
<1>2. InPlace(h, op[h]) BY <1>0, <1>1 DEF Control
<1>3. /\ op[h].kind \in {"handshake", "read"} /\ op[h].result = "none"
      /\ op[h].next \in {"handshake", "alert", "plain", "wait"}
  BY <1>0, <1>2 DEF InPlace
<1>4. form = "engine" BY <1>0, <1>1 DEF Control, TlsTypes
<1>5. AfterDrain(h) BY <1>4 DEF DrainEnds
<1>6. /\ sess \in Sessions /\ Sound(sess) /\ Fed /\ Numbered(rustls)
  BY <1>1 DEF Control, TlsTypes, Fed
<1>7. Fed' /\ adapter' = adapter BY <1>0, <1>6 DEF Fed
<1>8. Grown(rustls, rustls) BY <1>6 DEF Grown, Numbered, Conns
<1>9. Ended => sess.write = "Closed" BY <1>0, <1>4 DEF Ended
<1>10. ASSUME NEW result \in Results, Returns(h, result), rustls' = rustls,
              sess' \in Sessions, Sound(sess'), sess'.write = "Closed" <=> sess.write = "Closed"
       PROVE  TlsInv'
  BY <1>0, <1>3, <1>7, <1>8, <1>9, <1>10, StepBack
<1>11. ASSUME NEW at \in {"receive", "plain", "wait"}, Goto(h, at), UNCHANGED <<form, sess, rustls>>
       PROVE  TlsInv'
  <2> PICK o \in OpStates : /\ op' = [op EXCEPT ![h] = o] /\ SameCall(op[h], o) /\ o.at = at
                            /\ o.next = op[h].next
    BY <1>0, <1>1, <1>11, GotoFacts DEF Ats
  <2>1. InPlace(h, o) /\ Encrypted(o, rustls'.made) BY <1>3 DEF InPlace, ReaderAt, Encrypted, SameCall
  <2>2. o.at \notin Awaits BY DEF Awaits
  <2>3. Ended => sess.write \notin Failures BY <1>9 DEF Failures
  <2> QED BY Zenon, <1>0, <1>4, <1>6, <1>7, <1>8, <1>9, <1>11, <2>1, <2>2, <2>3, StepOn
<1>12. "ok" \in Results /\ "eof" \in Results /\ "protocol" \in Results /\ "protocol" \in Failures
  BY DEF Results, Failures
<1>13. CASE op[h].next = "handshake"
  <2>1. /\ UNCHANGED <<sess, rustls>>
        /\ Returns(h, "ok") \/ Returns(h, "eof") \/ (Goto(h, "receive") /\ UNCHANGED form)
    BY <1>5, <1>13 DEF AfterDrain
  <2> QED BY <1>6, <1>10, <1>11, <1>12, <2>1
<1>14. CASE op[h].next = "alert"
  <2>1. sess' = FailBoth(sess, "protocol") /\ Returns(h, "protocol") /\ UNCHANGED rustls
    BY <1>5, <1>14 DEF AfterDrain
  <2>2. Failing(sess, sess') BY <1>6, <1>12, <2>1, FailBothFacts
  <2> QED BY <1>10, <1>12, <2>1, <2>2 DEF Failing
<1>15. CASE op[h].next \in {"plain", "wait"}
  <2>1. Goto(h, op[h].next) /\ UNCHANGED <<form, sess, rustls>> BY Zenon, <1>5, <1>15 DEF AfterDrain
  <2> QED BY <1>11, <1>15, <2>1
<1> QED BY <1>3, <1>13, <1>14, <1>15

\* A write whose output has been drained is on the wire.
LEMMA DrainedIsWritten ==
  ASSUME TlsInv, Exact, op["w"].at = "drain", op["w"].kind = "write", op["w"].next = "written",
         NothingToWrite, ~(form = "split" /\ WriteFailed(sess))
  PROVE  \E i \in DOMAIN written : written[i] = op["w"].unit
<1>1. TlsTypes /\ Control BY DEF TlsInv
<1>2. sess.write # "Closed" BY <1>1 DEF Control, Writing
<1>3. adapter.output = <<>> /\ rustls.queue = <<>> BY <1>2 DEF NothingToWrite, WriteFailed
<1>4. op["r"].at # "t_write" BY <1>1 DEF Control, TlsTypes
<1>5. Pend = <<>> BY <1>3, <1>4 DEF Pend
<1>6. rustls.made = Len(written) /\ Counts(written, 0) /\ written \in Seq(Nat)
  BY SMTT(30), <1>1, <1>3, <1>5 DEF Exact, Handed, TlsTypes, Numbered, Conns
<1>7. op["w"].unit \in 1 .. rustls.made BY <1>1 DEF Control, Encrypted, Halves
<1>8. op["w"].unit \in DOMAIN written /\ written[op["w"].unit] = 0 + op["w"].unit
  BY <1>6, <1>7 DEF Counts
<1> QED BY <1>8, <1>7, <1>6

\* drain_output has nothing left to write, in a writer.
LEMMA WriterDrained == ASSUME TlsInv, DrainEnds("w") PROVE TlsInv'
<1> DEFINE h == "w"
<1>0. /\ UNCHANGED <<adapter, peer, written>> /\ op[h].at = "drain" /\ h \in Halves
      /\ op[Other(h)].at \in Awaits \cup {"idle"} /\ NothingToWrite
  BY DEF DrainEnds, Runs, Halves
<1>1. TlsTypes BY DEF TlsInv
<1>2. /\ op[h].kind \in {"write", "flush", "shutdown"} /\ op[h].result = "none"
      /\ op[h].next \in {"write", "written", "flush", "shutdown"}
      /\ op[h].kind = "write" => op[h].next \in {"write", "written"}
      /\ ~Ended /\ sess.write # "Closed" /\ op[h] \in OpStates
      /\ sess \in Sessions /\ Sound(sess) /\ Fed /\ Numbered(rustls) /\ Grown(rustls, rustls)
  BY Zenon, <1>0, WriterFacts
<1>3. Fed' /\ adapter' = adapter BY Zenon, <1>0, <1>2 DEF Fed
<1>4. ASSUME NEW result \in Results, Returns(h, result), rustls' = rustls,
              sess' \in Sessions, Sound(sess'), op[h].kind # "write" \/ result # "ok"
       PROVE  TlsInv'
  BY Zenon, <1>0, <1>2, <1>3, <1>4, StepBack
<1>5. ASSUME NEW o \in OpStates, op' = [op EXCEPT ![h] = o], form' = form, SameCall(op[h], o),
             o.at \in {"drain", "t_flush"}, o.at = "t_flush" => o.flying = <<>>, o.next \in {"write", "written", "flush", "shutdown"},
             op[h].kind = "write" => o.at = "drain" /\ o.next \in {"write", "written"},
             o.next = "written" => o.unit \in 1 .. rustls'.made,
             Grown(rustls, rustls'), sess' \in Sessions, Sound(sess'), sess'.write # "Closed",
             form = "engine" /\ o.at \in Awaits => Sound(o.saved) /\ sess' = Abandon(o.saved)
      PROVE  TlsInv'
  <2>1. InPlace(h, o) /\ Encrypted(o, rustls'.made)
    BY Zenon, <1>2, <1>5 DEF InPlace, WriterAt, Encrypted, SameCall
  <2> QED BY Zenon, <1>0, <1>2, <1>3, <1>5, <2>1, StepOn
<1>6. CASE form = "split" /\ WriteFailed(sess)
  <2> DEFINE f == WriteFailure(sess)
             u == [sess EXCEPT !.write = f]
  <2>1. sess' = u /\ Returns(h, f) /\ UNCHANGED rustls BY <1>6 DEF DrainEnds, DrainError
  <2>2. f \in Failures /\ Failing(sess, u) BY <1>2, <1>6, WriteFailureFacts
  <2> HIDE DEF f, u
  <2>3. f \in Results /\ f # "ok" BY <2>2 DEF Results, Failures
  <2>4. sess' \in Sessions /\ Sound(sess') BY <2>1, <2>2 DEF Failing
  <2> QED BY Zenon, <1>4, <2>1, <2>3, <2>4
<1>7. CASE ~(form = "split" /\ WriteFailed(sess))
  <2>0. AfterDrain(h) BY <1>7 DEF DrainEnds
  <2>1. CASE op[h].next = "write"
    <3>1. \/ Returns(h, "broken_pipe") /\ UNCHANGED <<sess, rustls>>
          \/ /\ rustls' = Queue(Touch(rustls))
             /\ op' = [op EXCEPT ![h].next = "written", ![h].unit = rustls'.made]
             /\ UNCHANGED <<form, sess>>
          \/ sess' = FailBoth(sess, "io") /\ Returns(h, "io") /\ UNCHANGED rustls
      BY <2>0, <2>1 DEF AfterDrain
    <3>2. CASE Returns(h, "broken_pipe") /\ UNCHANGED <<sess, rustls>>
      BY <1>2, <1>4, <3>2 DEF Results
    <3>3. CASE sess' = FailBoth(sess, "io") /\ Returns(h, "io") /\ UNCHANGED rustls
      <4>1. "io" \in Failures /\ "io" \in Results BY DEF Failures, Results
      <4>2. Failing(sess, sess') BY <1>2, <3>3, <4>1, FailBothFacts
      <4> QED BY <1>4, <3>3, <4>1, <4>2 DEF Failing
    <3>4. CASE /\ rustls' = Queue(Touch(rustls))
               /\ op' = [op EXCEPT ![h].next = "written", ![h].unit = rustls'.made]
               /\ UNCHANGED <<form, sess>>
      <4> DEFINE u == rustls'.made
                 o == [op[h] EXCEPT !.next = "written", !.unit = u]
      <4>1. Grown(rustls, Touch(rustls)) /\ Numbered(Touch(rustls))
        BY <1>2, TouchGrows DEF Grown
      <4>2. Grown(Touch(rustls), rustls') BY <3>4, <4>1, QueueGrows
      <4>3. Grown(rustls, rustls') BY <1>2, <4>1, <4>2, GrownTwice
      <4>4. u \in Nat /\ u >= 1
        <5>1. Touch(rustls) \in Conns BY <4>1 DEF Numbered
        <5>2. u = Touch(rustls).made + 1 BY <3>4, <5>1 DEF Queue, Conns
        <5>3. Touch(rustls).made \in Nat BY <5>1 DEF Conns
        <5> QED BY <5>2, <5>3
      <4>5. op' = [op EXCEPT ![h] = o] BY Zenon, <1>1, <3>4 DEF TlsTypes
      <4>6. u = rustls'.made OBVIOUS
      <4> HIDE DEF u
      <4>7. /\ o \in OpStates /\ SameCall(op[h], o) /\ o.at = "drain" /\ o.next = "written"
            /\ o.unit = u
        BY Zenon, <1>0, <1>2, <4>4 DEF OpStates, SameCall
      <4>8. o.unit \in 1 .. rustls'.made /\ o.at \notin Awaits BY <4>4, <4>6, <4>7 DEF Awaits
      <4>9. sess' = sess /\ form' = form BY <3>4
      <4> HIDE DEF o
      <4> QED BY Zenon, <1>2, <1>5, <2>1, <4>3, <4>5, <4>7, <4>8, <4>9
    <3> QED BY <3>1, <3>2, <3>3, <3>4
  <2>2. CASE op[h].next = "written"
    <3>1. Returns(h, "ok") /\ UNCHANGED <<sess, rustls>> BY <2>0, <2>2 DEF AfterDrain
    <3>2. Exact BY <1>2 DEF TlsInv
    <3>3. op[h].kind = "write" => \E i \in DOMAIN written : written[i] = op[h].unit
      BY <1>0, <1>7, <2>2, <3>2, DrainedIsWritten
    <3>4. "ok" \in Results BY DEF Results
    <3> QED BY <1>0, <1>2, <1>3, <3>1, <3>3, <3>4, StepBack
  <2>3. CASE op[h].next = "shutdown"
    <3>1. SendCloseNotify /\ GotoThen(h, "drain", "flush") /\ form' = form
      BY <2>0, <2>3 DEF AfterDrain
    <3>2. sess' \in Sessions /\ Sound(sess') /\ sess'.write # "Closed" /\ Grown(rustls, rustls')
      BY <1>2, <3>1, CloseNotifyFacts
    <3>3. PICK o \in OpStates : /\ op' = [op EXCEPT ![h] = o] /\ SameCall(op[h], o) /\ o.at = "drain"
                                /\ o.next = "flush"
      BY <1>0, <1>1, <3>1, GotoThenFacts DEF Ats, Nexts
    <3>4. o.at \notin Awaits BY <3>3 DEF Awaits
    <3> QED BY Zenon, <1>2, <1>5, <2>3, <3>1, <3>2, <3>3, <3>4
  <2>4. CASE op[h].next = "flush"
    <3> DEFINE flying == <<>>
    <3>1. BeginTransportIo(h, "t_flush", flying) /\ UNCHANGED <<form, rustls>> /\ flying \in Seq(Nat)
      BY <2>0, <2>4 DEF AfterDrain
    <3> HIDE DEF flying
    <3>2. PICK o \in OpStates : /\ op' = [op EXCEPT ![h] = o] /\ SameCall(op[h], o) /\ o.at = "t_flush"
                                /\ o.next = op[h].next /\ o.saved = sess /\ o.flying = flying
      BY <1>0, <1>1, <3>1, BeginFacts DEF Ats, Awaits
    <3>3. sess' = IF form = "engine" THEN Abandon(sess) ELSE sess BY <3>1 DEF BeginTransportIo
    <3>4. /\ sess' \in Sessions /\ Sound(sess') /\ sess'.write # "Closed"
          /\ form = "engine" => sess' = Abandon(sess)
      BY <1>2, <3>3, AbandonFacts DEF Failing
    <3>5. o.flying = <<>> BY <3>2 DEF flying
    <3> QED BY Zenon, <1>2, <1>5, <2>4, <3>1, <3>2, <3>4, <3>5
  <2> QED BY <1>2, <2>1, <2>2, <2>3, <2>4
<1> QED BY <1>6, <1>7

-----------------------------------------------------------------------------
(* Steps that write *)

\* A write to the wire keeps the record of the last write.
LEMMA KeptGrows ==
  ASSUME Kept, written \in Seq(Nat), NEW t \in Seq(Nat), written' = written \o t,
         op'["w"].kind = "write" /\ op'["w"].result = "ok" =>
            op["w"].kind = "write" /\ op["w"].result = "ok" /\ op'["w"].unit = op["w"].unit
  PROVE  Kept'
<1> SUFFICES ASSUME op'["w"].kind = "write", op'["w"].result = "ok"
             PROVE  \E i \in DOMAIN written' : written'[i] = op'["w"].unit
  BY DEF Kept
<1> PICK i \in DOMAIN written : written[i] = op["w"].unit BY DEF Kept
<1>1. i \in DOMAIN written' /\ written'[i] = written[i] OBVIOUS
<1> QED BY <1>1

\* Units in order, and then at most the end of the stream.
LEMMA OrderFacts ==
  ASSUME NEW s \in Seq(Nat), Counts(s, 0), NEW end \in {<<>>, <<FIN>>}
  PROVE  /\ s \o end \in Seq(Nat)
         /\ \A i \in DOMAIN (s \o end) : \/ (s \o end)[i] = i
                                         \/ (s \o end)[i] = FIN /\ i = Len(s \o end)
<1>1. \A i \in DOMAIN s : s[i] = i BY DEF Counts
<1>2. CASE end = <<>>
  <2>1. s \o end = s BY <1>2
  <2> QED BY <1>1, <2>1
<1>3. CASE end = <<FIN>>
  <2> DEFINE t == s \o <<FIN>>
  <2>1. /\ t \in Seq(Nat) /\ Len(t) = Len(s) + 1 /\ t[Len(s) + 1] = FIN
        /\ \A i \in 1 .. Len(s) : t[i] = s[i]
    BY DEF FIN
  <2> HIDE DEF t
  <2>2. \A i \in DOMAIN t : i \in 1 .. Len(s) \/ i = Len(s) + 1 BY <2>1
  <2>3. \A i \in DOMAIN t : t[i] = i \/ (t[i] = FIN /\ i = Len(t)) BY <1>1, <2>1, <2>2
  <2> QED BY <1>3, <2>1, <2>3 DEF t
<1> QED BY <1>2, <1>3

\* An operation of the transport ends for good: it failed, it was dropped, or
\* the write side was shut down.
LEMMA EndsStep ==
  ASSUME TlsInv, NEW h \in Halves, NEW result \in Results, Returns(h, result),
         result # "ok" \/ op[h].kind # "write",
         op[h].at \in {"t_write", "t_shutdown"}, op[Other(h)].at \in Awaits \cup {"idle"},
         rustls' = rustls, Fed', NEW t \in Seq(Nat), written' = written \o t, InOrder',
         sess' \in Sessions, Sound(sess'), sess'.write \in Failures \cup {"Closed"},
         h = "r" /\ sess'.write = "Closed" => sess.write = "Closed"
  PROVE  TlsInv'
<1>1. TlsTypes /\ Control /\ Kept BY DEF TlsInv
<1>2. Numbered(rustls) /\ rustls.made \in Nat /\ rustls'.made >= rustls.made
  BY <1>1 DEF TlsTypes, Numbered, Conns
<1>3. Control' /\ op' \in [Halves -> OpStates] /\ form' \in {"engine", "split", "gone"}
  BY <1>1, <1>2, ComesBack
<1>4. written' \in Seq(Nat) /\ written \in Seq(Nat) BY <1>1 DEF TlsTypes
<1>5. TlsTypes' BY <1>1, <1>2, <1>3, <1>4 DEF TlsTypes, Fed
<1>6. /\ \A g \in Halves \ {h} : op'[g] = op[g]
      /\ op'[h].at = "idle" /\ op'[h].kind = op[h].kind /\ op'[h].unit = op[h].unit
      /\ op'[h].result = result
  BY <1>1, ReturnType
<1>7. form # "split" => op[Other(h)].at = "idle" BY <1>1, OtherHalf DEF Control, TlsTypes, Halves
<1>8. h = "w" \/ (h = "r" /\ form # "split")
  <2>1. InPlace(h, op[h]) BY <1>1 DEF Control
  <2> QED BY <1>1, <2>1 DEF Control, InPlace, ReaderAt, Halves
<1>9. op'["w"].at = "idle" BY <1>6, <1>7, <1>8, OtherHalf DEF Halves
<1>10. op'["r"].at # "t_write" /\ (form' # "split" => op'["r"].at = "idle")
  <2>1. form' # "split" => form # "split" \/ op[h].kind = "handshake" BY DEF Returns
  <2>2. op[h].kind = "handshake" => h = "r"
    BY <1>1 DEF Control, InPlace, Halves
  <2>3. CASE h = "r" BY <1>6, <2>3
  <2>4. CASE h = "w" BY Zenon, <1>1, <1>6, <1>7, <2>1, <2>2, <2>4, OtherHalf DEF Control, Halves
  <2> QED BY <1>8, <2>3, <2>4
<1>11. Ended' BY <1>9, <1>10 DEF Ended
<1>12. Kept'
  <2>1. op'["w"].kind = "write" /\ op'["w"].result = "ok" =>
           op["w"].kind = "write" /\ op["w"].result = "ok" /\ op'["w"].unit = op["w"].unit
    BY <1>6 DEF Halves
  <2> QED BY Zenon, <1>1, <1>4, <2>1, KeptGrows
<1> QED BY <1>3, <1>5, <1>11, <1>12 DEF TlsInv

\* The end of the stream is one more unit.
LEMMA FinFacts ==
  /\ \A end \in {<<>>, <<FIN>>} : end \in Seq(Nat)
  /\ \A s \in Seq(Nat) : Append(s, FIN) = s \o <<FIN>>
<1>1. <<>> \in Seq(Nat) OBVIOUS
<1>2. <<FIN>> \in Seq(Nat) /\ FIN \in Nat BY DEF FIN
<1> HIDE DEF FIN
<1>3. ASSUME NEW s \in Seq(Nat) PROVE Append(s, FIN) = s \o <<FIN>> BY <1>2
<1>4. ASSUME NEW end \in {<<>>, <<FIN>>} PROVE end \in Seq(Nat)
  <2>1. CASE end = <<>> BY <1>1, <2>1
  <2>2. CASE end = <<FIN>> BY <1>2, <2>2
  <2> QED BY <2>1, <2>2
<1> QED BY <1>3, <1>4

\* The shutdown of the transport completes.
LEMMA ShutdownDoneStep == ASSUME TlsInv, ShutdownDone PROVE TlsInv'
<1>0. /\ UNCHANGED <<rustls, adapter, peer>> /\ op["w"].at = "t_shutdown" /\ "w" \in Halves
      /\ op["w"].at \in Awaits /\ op[Other("w")].at \in Awaits \cup {"idle"}
  BY DEF ShutdownDone, Runs, Halves, Awaits
<1>1. TlsTypes BY DEF TlsInv
<1>2. op["w"].kind # "write" /\ ~Ended /\ sess.write # "Closed" /\ Fed BY <1>0, WriterFacts
<1>3. Fed' BY <1>0, <1>2 DEF Fed
<1> DEFINE s == Finished("w")
<1>4. s \in Sessions /\ Sound(s) BY <1>0, FinishedFacts
<1>5. Counts(written, 0) /\ written \in Seq(Nat) BY <1>1, <1>2 DEF TlsInv, Exact, TlsTypes
<1>6. ASSUME NEW end \in {<<>>, <<FIN>>}, written' = written \o end, NEW result \in Results,
             Returns("w", result), sess' \in Sessions, Sound(sess'),
             sess'.write \in Failures \cup {"Closed"}
      PROVE  TlsInv'
  <2>1. InOrder' BY Zenon, <1>5, <1>6, OrderFacts DEF InOrder
  <2>2. end \in Seq(Nat) BY Zenon, FinFacts
  <2> QED BY <1>0, <1>2, <1>3, <1>6, <2>1, <2>2, EndsStep
<1>7. CASE /\ sess' = [Finished("w") EXCEPT !.write = "Closed"]
           /\ written' = Append(written, FIN)
           /\ Returns("w", "ok")
  <2>1. written' = written \o <<FIN>> BY <1>5, <1>7, FinFacts
  <2>2. sess' = [s EXCEPT !.write = "Closed"] BY <1>7
  <2> HIDE DEF s
  <2>3. sess' \in Sessions /\ sess'.write = "Closed" BY <1>4, <2>2 DEF Sessions
  <2>4. Sound(sess') BY <2>3 DEF Sound, Failures
  <2>5. "ok" \in Results BY DEF Results
  <2> QED BY <1>6, <1>7, <2>1, <2>3, <2>4, <2>5
<1>8. ASSUME NEW f \in {"io", "canceled"}, NEW end \in {<<>>, <<FIN>>}, sess' = FailBoth(Finished("w"), f),
             written' = written \o end, Returns("w", f)
      PROVE  TlsInv'
  <2>1. f \in Failures /\ f \in Results BY DEF Failures, Results
  <2>2. sess' = FailBoth(s, f) BY <1>8
  <2> HIDE DEF s
  <2>3. Failing(s, sess') /\ sess'.write \in Failures \cup {"Closed"} BY <1>4, <2>1, <2>2, FailBothFacts
  <2> QED BY Zenon, <1>6, <1>8, <2>1, <2>3 DEF Failing
<1> QED BY <1>7, <1>8 DEF ShutdownDone

\* While the transport writes, all is exact, and one half waits for it.
LEMMA FlyingFacts ==
  ASSUME TlsInv, NEW h \in Halves, op[h].at = "t_write"
  PROVE  /\ Exact /\ Pend = op[h].flying /\ op[h].flying \in Seq(Nat) /\ adapter.output = <<>>
         /\ written \in Seq(Nat) /\ Len(written) \in Nat
         /\ op[Other(h)].at # "t_write" /\ (h = "r" => form = "engine")
<1>1. TlsTypes /\ Control BY DEF TlsInv
<1>2. Exact BY DEF TlsInv, Ended, Halves
<1>3. h = "r" => form = "engine" BY <1>1 DEF Control, TlsTypes
<1>4. op[Other(h)].at # "t_write" BY <1>1, OtherHalf DEF Control, Halves, TlsTypes
<1>5. Pend = op[h].flying BY <1>4, OtherHalf DEF Pend, Halves
<1> QED BY SMTT(30), <1>1, <1>2, <1>3, <1>4, <1>5 DEF Exact, TlsTypes, OpStates

\* A write to the transport completes, in part, in full or with an error.
LEMMA WriteDoneStep == ASSUME TlsInv, NEW h \in Halves, WriteDone(h) PROVE TlsInv'
<1>0. /\ UNCHANGED <<rustls, peer>> /\ op[h].at = "t_write" /\ op[h].at \in Awaits
      /\ op[Other(h)].at \in Awaits \cup {"idle"}
  BY DEF WriteDone, Runs, Awaits
<1>1. TlsTypes /\ Control /\ Kept BY DEF TlsInv
<1> DEFINE flying == op[h].flying
           s == Finished(h)
<1>2. /\ Exact /\ Pend = flying /\ flying \in Seq(Nat) /\ adapter.output = <<>>
      /\ written \in Seq(Nat) /\ Len(written) \in Nat
      /\ op[Other(h)].at # "t_write" /\ (h = "r" => form = "engine")
  BY <1>0, FlyingFacts
<1>3. PICK n \in 0..Len(flying), result \in {"ok", "io", "canceled"} :
       /\ written' = written \o SubSeq(flying, 1, n)
       /\ IF result = "ok" /\ n > 0
          THEN /\ adapter' = [adapter EXCEPT !.output = SubSeq(flying, n + 1, Len(flying))]
               /\ sess' = s /\ Goto(h, "drain") /\ UNCHANGED form
          ELSE /\ adapter' = [adapter EXCEPT !.output = flying]
               /\ DrainError(h, s, IF result = "ok" THEN "io" ELSE result)
  BY Zenon DEF WriteDone
<1>4. /\ s \in Sessions /\ Sound(s) /\ (s.write = "Closed" <=> sess.write = "Closed")
  BY <1>0, FinishedFacts
<1>5. InPlace(h, op[h]) /\ Encrypted(op[h], rustls.made) BY <1>1 DEF Control
<1> DEFINE head == SubSeq(flying, 1, n)
           rest == SubSeq(flying, n + 1, Len(flying))
<1>6. /\ Counts(flying, Len(written)) /\ Counts(written, 0)
      /\ Handed(rustls) = Len(written) + Len(flying)
  BY <1>2 DEF Exact
<1> HIDE DEF flying, s
<1>7. /\ head \in Seq(Nat) /\ Len(head) = n /\ Counts(head, Len(written))
      /\ rest \in Seq(Nat) /\ Len(rest) = Len(flying) - n /\ Counts(rest, Len(written) + n)
  BY <1>2, <1>6, CountsCut
<1>8. written' = written \o head BY <1>3
<1> HIDE DEF head, rest
<1>9. written' \in Seq(Nat) /\ Len(written') = Len(written) + n /\ Counts(written', 0)
  <2>1. Counts(head, 0 + Len(written)) BY <1>2, <1>7
  <2>2. Counts(written \o head, 0) BY <1>2, <1>6, <1>7, <2>1, CountsConcat
  <2>3. written \o head \in Seq(Nat) /\ Len(written \o head) = Len(written) + Len(head)
    BY <1>2, <1>7
  <2> QED BY <1>7, <1>8, <2>2, <2>3
<1>10. CASE /\ adapter' = [adapter EXCEPT !.output = rest]
            /\ sess' = s /\ Goto(h, "drain") /\ UNCHANGED form
  <2>1. PICK o \in OpStates : /\ op' = [op EXCEPT ![h] = o] /\ SameCall(op[h], o) /\ o.at = "drain"
                              /\ o.next = op[h].next /\ o.unit = op[h].unit
    BY <1>1, <1>10, GotoFacts DEF Ats
  <2>2. InPlace(h, o) /\ Encrypted(o, rustls'.made)
    BY <1>0, <1>5, <2>1 DEF InPlace, WriterAt, ReaderAt, Encrypted, SameCall
  <2>3. o.at \notin Awaits BY <2>1 DEF Awaits
  <2>4. rustls'.made \in Nat /\ rustls'.made >= rustls.made
    <3>1. rustls.made \in Nat BY <1>1 DEF TlsTypes, Numbered, Conns
    <3>2. rustls' = rustls BY <1>0
    <3> QED BY <3>1, <3>2
  <2>5. h = "w" => sess.write # "Closed" BY <1>0, <1>1 DEF Control, Writing
  <2>6. Control' /\ op' \in [Halves -> OpStates]
    BY Zenon, <1>0, <1>1, <1>2, <1>4, <1>10, <2>1, <2>2, <2>3, <2>4, <2>5, GoesOn DEF SameCall
  <2>7. adapter' \in Adapters /\ adapter'.output = rest /\ adapter'.input = adapter.input
    BY Zenon, <1>1, <1>7, <1>10 DEF TlsTypes, Adapters
  <2>8. TlsTypes' BY <1>0, <1>1, <1>4, <1>9, <1>10, <2>6, <2>7 DEF TlsTypes, Numbered, Handed
  <2>9. op'[h] = o /\ \A g \in Halves \ {h} : op'[g] = op[g] BY <1>1, <2>1 DEF TlsTypes
  <2>10. \A g \in Halves : op'[g].at # "t_write" BY <1>2, <2>1, <2>9, OtherHalf DEF Halves
  <2>11. Pend' = rest BY <2>7, <2>10 DEF Pend, Halves
  <2>12. Handed(rustls') = Len(written') + Len(rest)
    BY <1>0, <1>2, <1>6, <1>7, <1>9 DEF Handed
  <2>13. Exact' BY Zenon, <1>7, <1>9, <2>10, <2>11, <2>12 DEF Exact
  <2>14. Kept'
    <3>1. op[h].result = "none" BY <1>0, <1>5 DEF InPlace
    <3>2. op'["w"].kind = "write" /\ op'["w"].result = "ok" =>
             op["w"].kind = "write" /\ op["w"].result = "ok" /\ op'["w"].unit = op["w"].unit
      BY <2>1, <2>9, <3>1 DEF Halves, SameCall
    <3> QED BY Zenon, <1>1, <1>2, <1>7, <1>8, <3>2, KeptGrows
  <2> QED BY <2>6, <2>8, <2>13, <2>14 DEF TlsInv
<1>11. ASSUME NEW f \in {"io", "canceled"}, adapter' = [adapter EXCEPT !.output = flying],
              DrainError(h, s, f)
       PROVE  TlsInv'
  <2>1. adapter' \in Adapters /\ adapter'.input = adapter.input BY Zenon, <1>1, <1>2, <1>11 DEF TlsTypes, Adapters
  <2>2. Fed' BY <1>0, <1>1, <2>1 DEF Fed, TlsTypes
  <2>3. InOrder' BY <1>9 DEF InOrder, Counts
  <2>4. ASSUME NEW g \in Failures, Returns(h, g), Failing(s, sess'),
               sess'.write \in Failures \cup {"Closed"}
        PROVE  TlsInv'
    <3>1. g \in Results /\ g # "ok" BY DEF Results, Failures
    <3> QED BY Zenon, <1>0, <1>4, <1>7, <1>8, <2>2, <2>3, <2>4, <3>1, EndsStep DEF Failing
  <2>5. CASE form = "split" /\ WriteFailed(s)
    <3> DEFINE u == [s EXCEPT !.write = WriteFailure(s)]
    <3>1. sess' = u /\ Returns(h, WriteFailure(s)) BY <1>11, <2>5 DEF DrainError
    <3>2. WriteFailure(s) \in Failures /\ Failing(s, u) /\ u.write \in Failures
      BY <1>4, <2>5, WriteFailureFacts
    <3> HIDE DEF u
    <3> QED BY <2>4, <3>1, <3>2
  <2>6. CASE ~(form = "split" /\ WriteFailed(s))
    <3> DEFINE g == IF op[h].next = "alert" THEN "protocol" ELSE f
    <3>1. sess' = FailBoth(s, g) /\ Returns(h, g) BY <1>11, <2>6 DEF DrainError
    <3>2. g \in Failures BY DEF Failures
    <3> HIDE DEF g
    <3>3. Failing(s, sess') /\ sess'.write \in Failures \cup {"Closed"}
      BY <1>4, <3>1, <3>2, FailBothFacts
    <3> QED BY <2>4, <3>1, <3>2, <3>3
  <2> QED BY <2>5, <2>6
<1>12. \/ /\ adapter' = [adapter EXCEPT !.output = rest]
          /\ sess' = s /\ Goto(h, "drain") /\ UNCHANGED form
       \/ \E f \in {"io", "canceled"} :
             adapter' = [adapter EXCEPT !.output = flying] /\ DrainError(h, s, f)
  <2>1. CASE result = "ok" /\ n > 0 BY <1>3, <2>1 DEF rest
  <2>2. CASE ~(result = "ok" /\ n > 0)
    <3> DEFINE f == IF result = "ok" THEN "io" ELSE result
    <3>1. f \in {"io", "canceled"} OBVIOUS
    <3>2. adapter' = [adapter EXCEPT !.output = flying] /\ DrainError(h, s, f) BY <1>3, <2>2
    <3> HIDE DEF f
    <3> QED BY <3>1, <3>2
  <2> QED BY <2>1, <2>2
<1> QED BY <1>10, <1>11, <1>12

\* A future is dropped before it returned.
LEMMA DropFutureStep == ASSUME TlsInv, NEW h \in Halves, DropFuture(h) PROVE TlsInv'
<1>0. /\ UNCHANGED <<rustls, adapter>> /\ op[h].at \in Awaits /\ Returns(h, "dropped")
      /\ op[Other(h)].at \in Awaits \cup {"idle"}
      /\ sess' = IF form = "split" THEN Abandon(sess) ELSE sess
  BY DEF DropFuture, Runs
<1>1. TlsTypes /\ Control BY DEF TlsInv
<1> DEFINE flying == op[h].flying
<1>2. PICK n \in 0..Len(flying), m \in 0..(Len(peer.script) - peer.at), end \in {<<>>, <<FIN>>} :
       /\ op[h].at # "t_shutdown" => end = <<>>
       /\ written' = written \o SubSeq(flying, 1, n) \o end
       /\ peer' = [peer EXCEPT !.at = @ + m]
  BY Zenon DEF DropFuture
<1>3. /\ peer.at \in Nat /\ peer.script \in Seq(PeerUnits)
      /\ m \in Nat /\ peer.at + m \in Nat /\ peer.at + m <= Len(peer.script)
  BY <1>1, <1>2 DEF TlsTypes
<1>4. /\ peer' \in [script : Seq(PeerUnits), at : Nat] /\ peer'.at <= Len(peer'.script)
      /\ peer'.script = peer.script
  BY Zenon, <1>1, <1>2, <1>3 DEF TlsTypes
<1>5. Fed' BY <1>0, <1>1, <1>4 DEF Fed, TlsTypes
<1>6. sess \in Sessions /\ Sound(sess) /\ Numbered(rustls) /\ written \in Seq(Nat)
  BY <1>1 DEF TlsTypes, Control
<1>7. Grown(rustls, rustls')
  <2>1. rustls' = rustls BY <1>0
  <2>2. rustls.made >= rustls.made BY <1>6 DEF Numbered, Conns
  <2>3. Grown(rustls, rustls) BY <1>6, <2>2 DEF Grown
  <2> QED BY Zenon, <2>1, <2>3
<1>8. /\ sess' \in Sessions /\ Sound(sess') /\ (sess.write = "Closed" <=> sess'.write = "Closed")
      /\ sess.write \in Failures => sess'.write \in Failures
  BY Zenon, <1>0, <1>6, AbandonFacts DEF Failing
<1>9. sess'.write \in Failures \cup {"Closed"}
  <2>1. CASE form = "split" BY <1>0, <1>6, <2>1, AbandonFacts
  <2>2. CASE form = "engine"
    <3>1. sess = Abandon(op[h].saved) /\ op[h].saved \in Sessions
      BY Zenon, <1>0, <1>1, <2>2 DEF Control, Marked, TlsTypes, OpStates
    <3> QED BY <1>0, <2>2, <3>1, AbandonFacts
  <2>3. form # "gone" BY <1>0, <1>1 DEF Control, Awaits, Halves
  <2> QED BY <1>1, <2>1, <2>2, <2>3 DEF TlsTypes
<1>10. "dropped" \in Results /\ "dropped" # "ok" BY DEF Results
<1>11. InPlace(h, op[h]) BY <1>1 DEF Control
<1>12. CASE op[h].at \in {"t_read", "t_flush"}
  <2>1. flying = <<>> /\ n = 0 /\ end = <<>> BY <1>2, <1>11, <1>12 DEF InPlace
  <2> DEFINE none == SubSeq(flying, 1, n)
  <2>2. none = <<>> BY <2>1
  <2>a. written' = written \o none \o end BY <1>2
  <2> HIDE DEF none, flying
  <2>3. written' = written BY <1>6, <2>1, <2>2, <2>a
  <2> QED BY Zenon, <1>0, <1>5, <1>7, <1>8, <1>9, <1>10, <1>12, <2>3, StepBack
<1>13. CASE op[h].at = "t_shutdown"
  <2>1. flying = <<>> /\ n = 0 BY <1>2, <1>11, <1>13 DEF InPlace
  <2>2. written' = written \o <<>> \o end BY <1>2, <2>1
  <2>3. written' = written \o end BY <1>6, <2>2
  <2>4. ~Ended BY <1>13, WriterFacts
  <2>5. Counts(written, 0) BY <2>4 DEF TlsInv, Exact
  <2>6. InOrder' BY Zenon, <1>6, <2>3, <2>5, OrderFacts DEF InOrder
  <2>7. end \in Seq(Nat) BY Zenon, FinFacts
  <2> QED BY <1>0, <1>5, <1>8, <1>9, <1>10, <1>13, <2>3, <2>6, <2>7, EndsStep
<1>14. CASE op[h].at = "t_write"
  <2>1. Exact /\ Pend = flying /\ flying \in Seq(Nat) /\ Len(written) \in Nat
    BY <1>14, FlyingFacts
  <2>2. Counts(flying, Len(written)) /\ Counts(written, 0) BY <2>1 DEF Exact
  <2> DEFINE head == SubSeq(flying, 1, n)
  <2> HIDE DEF flying
  <2>3. head \in Seq(Nat) /\ Counts(head, Len(written)) BY <2>1, <2>2, CountsCut
  <2>4. end = <<>> /\ written' = written \o head \o end BY <1>2, <1>14
  <2> HIDE DEF head
  <2>5. written' = written \o head \o <<>> BY <2>4
  <2>6. written' = written \o head BY <1>6, <2>3, <2>5
  <2>7. Counts(head, 0 + Len(written)) BY <2>1, <2>3
  <2>8. Counts(written', 0) BY <1>6, <2>2, <2>3, <2>6, <2>7, CountsConcat
  <2>9. written' \in Seq(Nat) BY <1>6, <2>3, <2>6
  <2>10. InOrder' BY <2>8, <2>9 DEF InOrder, Counts
  <2> QED BY Zenon, <1>0, <1>5, <1>8, <1>9, <1>10, <1>14, <2>3, <2>6, <2>10, EndsStep
<1> QED BY <1>0, <1>12, <1>13, <1>14 DEF Awaits

\* The drain hands output to the transport.
LEMMA DrainWritesStep == ASSUME TlsInv, NEW h \in Halves, DrainWrites(h) PROVE TlsInv'
<1> DEFINE room == IF Len(rustls.queue) < OutCapacity THEN Len(rustls.queue) ELSE OutCapacity
           q == rustls.queue
           filled == IF adapter.output # <<>> THEN adapter.output ELSE SubSeq(q, 1, room)
           left == SubSeq(q, room + 1, Len(q))
<1>0. /\ UNCHANGED <<form, peer, written>> /\ op[h].at = "drain" /\ ~NothingToWrite
      /\ rustls' = IF adapter.output # <<>> THEN rustls ELSE [rustls EXCEPT !.queue = left]
      /\ adapter' = [adapter EXCEPT !.output = <<>>]
      /\ BeginTransportIo(h, "t_write", filled)
  BY DEF DrainWrites, Runs
<1>1. TlsTypes /\ Control /\ Kept BY DEF TlsInv
<1>2. h = "r" => form = "engine" BY <1>0, <1>1 DEF Control, TlsTypes
<1>3. Exact
  <2>1. ~Ended
    <3>1. CASE h = "w" BY <1>0, <3>1 DEF Ended
    <3>2. CASE h = "r" BY <1>0, <1>2, <3>2 DEF Ended, NothingToWrite
    <3> QED BY <3>1, <3>2 DEF Halves
  <2> QED BY <2>1 DEF TlsInv
<1>4. \A g \in Halves : op[g].at # "t_write"
  BY <1>0, <1>1, <1>2 DEF Control, Halves, TlsTypes
<1>5. /\ Counts(written, 0) /\ Counts(adapter.output, Len(written)) /\ written \in Seq(Nat)
      /\ Handed(rustls) = Len(written) + Len(adapter.output) /\ adapter.output \in Seq(Nat)
  <2>1. Pend = adapter.output BY <1>4 DEF Pend, Halves
  <2> QED BY <1>1, <1>3, <2>1 DEF Exact, TlsTypes, Adapters
<1>6. rustls \in Conns /\ q \in Seq(Nat) /\ Counts(q, Handed(rustls)) /\ Numbered(rustls)
      /\ Handed(rustls) \in Nat
  BY <1>1 DEF TlsTypes, Numbered, Conns
<1>7. room \in 0 .. Len(q) BY <1>6, TlsAssumption
<1>8. sess \in Sessions /\ Sound(sess) BY <1>1 DEF TlsTypes, Control
<1> HIDE DEF room
<1>9. /\ filled \in Seq(Nat) /\ Counts(filled, Len(written)) /\ Numbered(rustls')
      /\ Handed(rustls') = Len(written) + Len(filled) /\ rustls'.made = rustls.made
  <2>1. CASE adapter.output # <<>>
    <3>1. filled = adapter.output /\ rustls' = rustls BY <1>0, <2>1
    <3> QED BY Zenon, <1>5, <1>6, <3>1
  <2>2. CASE adapter.output = <<>>
    <3>1. filled = SubSeq(q, 1, room) /\ rustls' = [rustls EXCEPT !.queue = left] BY <1>0, <2>2
    <3>2. /\ filled \in Seq(Nat) /\ Len(filled) = room /\ Counts(filled, Handed(rustls))
          /\ left \in Seq(Nat) /\ Len(left) = Len(q) - room /\ Counts(left, Handed(rustls) + room)
      BY ZenonT(40), <1>6, <1>7, <3>1, CountsCut
    <3>3. Handed(rustls) = Len(written) BY <1>5, <2>2
    <3> HIDE DEF left, filled, q
    <3>4. rustls' \in Conns /\ rustls'.queue = left /\ rustls'.made = rustls.made
      BY Zenon, <1>6, <3>1, <3>2 DEF Conns
    <3>5. Handed(rustls') = Handed(rustls) + room
      <4>1. rustls.made \in Nat /\ Len(q) \in Nat BY <1>6 DEF Conns
      <4> QED BY <1>6, <1>7, <3>2, <3>4, <4>1 DEF Handed, q
    <3>6. Numbered(rustls') BY <1>6, <1>7, <3>2, <3>4, <3>5 DEF Numbered
    <3> QED BY <3>2, <3>3, <3>4, <3>5, <3>6
  <2> QED BY <2>1, <2>2
<1> HIDE DEF filled, left, q
<1>10. PICK o \in OpStates : /\ op' = [op EXCEPT ![h] = o] /\ SameCall(op[h], o) /\ o.at = "t_write"
                             /\ o.next = op[h].next /\ o.unit = op[h].unit
                             /\ o.saved = sess /\ o.flying = filled
  BY <1>0, <1>1, <1>9, BeginFacts DEF Ats, Awaits
<1>11. InPlace(h, op[h]) /\ Encrypted(op[h], rustls.made) BY <1>1 DEF Control
<1>12. InPlace(h, o) /\ Encrypted(o, rustls'.made)
  BY <1>0, <1>9, <1>10, <1>11 DEF InPlace, WriterAt, ReaderAt, Encrypted, SameCall
<1>13. sess' = IF form = "engine" THEN Abandon(sess) ELSE sess BY <1>0 DEF BeginTransportIo
<1>14. /\ sess' \in Sessions /\ Sound(sess') /\ (sess.write = "Closed" <=> sess'.write = "Closed")
       /\ form = "engine" => sess' = Abandon(sess)
  BY <1>8, <1>13, AbandonFacts DEF Failing
<1>15. h = "w" => sess.write # "Closed" BY <1>0, <1>1 DEF Control, Writing
<1>16. rustls'.made \in Nat /\ rustls'.made >= rustls.made BY <1>6, <1>9 DEF Conns
<1>17. Control' /\ op' \in [Halves -> OpStates]
  BY Zenon, <1>0, <1>1, <1>2, <1>8, <1>10, <1>12, <1>14, <1>15, <1>16, GoesOn DEF SameCall
<1>18. adapter' \in Adapters /\ adapter'.output = <<>> /\ adapter'.input = adapter.input
  <2> DEFINE none == <<>>
  <2>1. none \in Seq(Nat) /\ adapter' = [adapter EXCEPT !.output = none] /\ none = <<>> BY <1>0
  <2> HIDE DEF none
  <2> QED BY Zenon, <1>1, <2>1 DEF TlsTypes, Adapters
<1>19. TlsTypes' BY <1>0, <1>1, <1>9, <1>14, <1>17, <1>18 DEF TlsTypes
<1>20. op'[h] = o /\ \A g \in Halves \ {h} : op'[g] = op[g] BY <1>1, <1>10 DEF TlsTypes
<1>21. Pend' = filled BY <1>4, <1>10, <1>20 DEF Pend, Halves
<1>22. Exact' BY <1>0, <1>5, <1>9, <1>18, <1>21 DEF Exact
<1>23. Kept'
  <2>1. op[h].result = "none" BY <1>0, <1>11 DEF InPlace
  <2>2. op'["w"].kind = "write" /\ op'["w"].result = "ok" =>
           op["w"].kind = "write" /\ op["w"].result = "ok" /\ op'["w"].unit = op["w"].unit
    BY <1>10, <1>20, <2>1 DEF Halves, SameCall
  <2> QED BY <1>0, <1>1, <2>2, KeptFrame
<1> QED BY <1>17, <1>19, <1>22, <1>23 DEF TlsInv

-----------------------------------------------------------------------------
(* The theorem *)

\* The invariant holds of a new stream.
LEMMA TlsStarts == ASSUME TlsInit PROVE TlsInv
<1> USE DEF Halves
<1>1. /\ form = "engine" /\ sess = [read |-> "Open", write |-> "Open"]
      /\ adapter = [input |-> <<>>, eof |-> FALSE, output |-> <<>>] /\ written = <<>>
  BY DEF TlsInit
<1> DEFINE o == [IdleOp(0) EXCEPT !.kind = "handshake", !.at = "drain", !.next = "handshake"]
<1>2. op = [h \in Halves |-> IF h = "r" THEN o ELSE IdleOp(0)] BY DEF TlsInit
<1>3. sess \in Sessions /\ Sound(sess) /\ sess.write = "Open" BY <1>1 DEF Sessions, Sound, Failures
<1>4. IdleOp(0) \in OpStates
  <2>1. <<>> \in Seq(Nat) /\ 0 \in Nat /\ [read |-> "Open", write |-> "Open"] \in Sessions
    BY <1>1, <1>3
  <2> QED BY <2>1 DEF IdleOp, OpStates, Results
<1>5. o \in OpStates BY Zenon, <1>4 DEF OpStates
<1>6. /\ o.kind = "handshake" /\ o.at = "drain" /\ o.next = "handshake" /\ o.result = "none"
      /\ IdleOp(0).kind = "none" /\ IdleOp(0).at = "idle" /\ IdleOp(0).next = "none"
      /\ IdleOp(0).result = "none"
  BY DEF IdleOp
<1>7. op \in [Halves -> OpStates] /\ op["r"] = o /\ op["w"] = IdleOp(0) BY <1>2, <1>4, <1>5
<1> HIDE DEF o
<1>8. /\ op["r"].kind = "handshake" /\ op["r"].at = "drain" /\ op["r"].next = "handshake"
      /\ op["r"].result = "none" /\ op["w"].kind = "none" /\ op["w"].at = "idle"
      /\ op["w"].next = "none" /\ op["w"].result = "none"
  BY <1>6, <1>7
<1>9. Numbered(rustls) /\ Handed(rustls) = 0
  <2> PICK hello \in {<<>>, <<1>>} :
        rustls = [plain |-> <<>>, queue |-> hello, made |-> Len(hello), update |-> FALSE,
                  handshaking |-> TRUE, closed |-> FALSE, eof |-> FALSE, broken |-> FALSE]
    BY Zenon DEF TlsInit
  <2>1. hello \in Seq(Nat) /\ Counts(hello, 0) /\ Len(hello) \in Nat
    <3>1. CASE hello = <<>>
      <4>1. hello \in Seq(Nat) /\ Len(hello) = 0 BY <3>1
      <4> QED BY <4>1 DEF Counts
    <3>2. CASE hello = <<1>>
      <4>1. hello \in Seq(Nat) /\ Len(hello) = 1 /\ hello[1] = 1 BY <3>2
      <4> QED BY <4>1 DEF Counts
    <3> QED BY <3>1, <3>2
  <2>2. <<>> \in Seq(Nat) OBVIOUS
  <2>3. rustls \in Conns BY <2>1, <2>2 DEF Conns
  <2>4. Handed(rustls) = 0 /\ rustls.queue = hello BY <2>1 DEF Handed
  <2> QED BY <2>1, <2>3, <2>4 DEF Numbered
<1>10. Fed
  <2>1. PICK s \in PeerScripts : peer = [script |-> s, at |-> 0] BY DEF TlsInit
  <2>2. s \in Seq(PeerUnits) BY TlsAssumption
  <2>3. <<>> \in Seq(Nat) OBVIOUS
  <2>4. adapter \in Adapters /\ Len(adapter.input) = 0 BY <1>1, <2>3 DEF Adapters
  <2> QED BY <2>1, <2>2, <2>4 DEF Fed
<1>11. TlsTypes
  <2>1. written \in Seq(Nat) BY <1>1
  <2> QED BY <1>1, <1>3, <1>7, <1>9, <1>10, <2>1 DEF TlsTypes, Fed
<1>12. Control
  <2>1. \A h \in Halves : InPlace(h, op[h]) /\ Encrypted(op[h], rustls.made) /\ Marked(op[h])
    BY <1>8 DEF InPlace, Encrypted, Marked, Awaits, ReaderAt, WriterAt
  <2> QED BY <1>1, <1>3, <1>8, <2>1 DEF Control, Writing
<1>13. Exact
  <2>1. Pend = <<>> BY <1>1, <1>8 DEF Pend
  <2>2. Counts(<<>>, 0) /\ Len(<<>>) = 0 BY DEF Counts
  <2>3. Counts(written, 0) /\ Len(written) = 0 BY <1>1, <2>2
  <2>4. Counts(Pend, Len(written)) /\ Len(Pend) = 0 BY <2>1, <2>2, <2>3
  <2>5. Handed(rustls) = Len(written) + Len(Pend) BY <1>9, <2>3, <2>4
  <2>6. \A h \in Halves : op[h].at # "t_write" BY <1>8
  <2> QED BY <2>3, <2>4, <2>5, <2>6 DEF Exact
<1>14. Kept BY <1>8 DEF Kept
<1> QED BY <1>11, <1>12, <1>13, <1>14 DEF TlsInv

\* Every step keeps the invariant.
LEMMA TlsInvariance == TlsInv /\ [TlsNext]_tlsVars => TlsInv'
<1> SUFFICES ASSUME TlsInv, [TlsNext]_tlsVars PROVE TlsInv' OBVIOUS
<1>1. CASE UNCHANGED tlsVars
  <2>1. UNCHANGED <<form, sess, rustls, adapter, op, peer, written>> BY <1>1 DEF tlsVars
  <2>2. TlsTypes' BY Zenon, <2>1 DEF TlsInv, TlsTypes, Numbered, Handed
  <2>3. Control'
    <3>1. \A h \in Halves : InPlace(h, op[h])' /\ Encrypted(op[h], rustls.made)'
      BY Zenon, <2>1 DEF TlsInv, Control, InPlace, Encrypted
    <3>2. form = "engine" => \A h \in Halves : Marked(op[h])' BY Zenon, <2>1 DEF TlsInv, Control, Marked
    <3> QED BY <2>1, <3>1, <3>2 DEF TlsInv, Control, Sound
  <2>4. Exact => Exact' BY <2>1, ExactFrame
  <2>5. Ended => Ended' BY <2>1, EndedFrame DEF Ended
  <2>6. Kept' BY <2>1, KeptFrame DEF TlsInv
  <2> QED BY <2>2, <2>3, <2>4, <2>5, <2>6 DEF TlsInv
<1>2. ASSUME NEW h \in Halves,
             \/ DrainWrites(h) \/ WriteDone(h) \/ DrainEnds(h) \/ DropFuture(h) \/ DropHalf(h)
             \/ Receive(h) \/ ReadDone(h) \/ Process(h) \/ ProcessFails(h) \/ Plaintext(h)
             \/ WaitForPlaintext(h)
      PROVE  TlsInv'
  <2>1. CASE DrainEnds(h) BY <2>1, ReaderDrained, WriterDrained DEF Halves
  <2>2. CASE DrainWrites(h) \/ WriteDone(h) \/ DropFuture(h) \/ DropHalf(h)
    BY <2>2, DrainWritesStep, WriteDoneStep, DropFutureStep, DropHalfStep
  <2>3. CASE \/ Receive(h) \/ ReadDone(h) \/ Process(h) \/ ProcessFails(h) \/ Plaintext(h)
             \/ WaitForPlaintext(h)
    BY <2>3, ReceiveStep, ReadDoneStep, ProcessStep, ProcessFailsStep, PlaintextStep, WaitStep
  <2> QED BY <1>2, <2>1, <2>2, <2>3
<1>3. CASE CallRead BY <1>3, CallStep
<1>4. ASSUME NEW kind \in {"write", "flush", "shutdown"}, CallWriter(kind) PROVE TlsInv'
  BY <1>4, CallStep
<1>5. CASE EnterWriter \/ FlushDone \/ Shut \/ ShutdownDone
  BY <1>5, EnterWriterStep, FlushDoneStep, ShutStep, ShutdownDoneStep
<1>6. CASE SplitStream \/ ReuniteHalves \/ IntoParts BY <1>6, FormStep
<1> QED BY <1>1, <1>2, <1>3, <1>4, <1>5, <1>6 DEF TlsNext

\* What reaches the transport is what Rustls produced, in order, each unit once and
\* nothing after the end of the stream, and a write that returned Ok is among it,
\* whatever the transport takes, whichever futures are dropped and whatever the peer
\* sends (the drain of tls/engine.rs and tls/split.rs).
THEOREM WireStaysFaithful == TlsSpec => []WireFaithful
<1>1. TlsInit => TlsInv BY TlsStarts
<1>2. TlsInv => WireFaithful
  <2> SUFFICES ASSUME TlsInv PROVE WireFaithful OBVIOUS
  <2>1. \A i \in DOMAIN written : written[i] = i \/ (written[i] = FIN /\ i = Len(written))
    <3>1. CASE Exact
      <4>1. written \in Seq(Nat) BY DEF TlsInv, TlsTypes
      <4> QED BY <3>1, <4>1 DEF Exact, Counts
    <3>2. CASE Ended BY <3>2 DEF Ended, InOrder
    <3> QED BY <3>1, <3>2 DEF TlsInv
  <2>2. op["r"].kind # "write" BY DEF TlsInv, Control, InPlace, Halves
  <2> QED BY <2>1, <2>2 DEF WireFaithful, TlsInv, Kept, Halves
<1> QED BY <1>1, <1>2, TlsInvariance, PTL DEF TlsSpec
=============================================================================
