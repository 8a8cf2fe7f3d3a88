------------------------------ MODULE KcpProofs ------------------------------
(***************************************************************************)
(* Proofs about Kcp, for windows and numberings of any size and any network: *)
(* what ikcp_recv returns is what ikcp_send was given, a packet the sender   *)
(* lets go is at the receiver, both windows are kept and neither end moves   *)
(* back.                                                                     *)
(***************************************************************************)
EXTENDS Kcp, FiniteSetTheorems, SequenceTheorems, WellFoundedInduction, TLAPS

-----------------------------------------------------------------------------
(* The inductive invariant, by the values of the variables.                 *)

Half == SnMod \div 2

\* How far number n is from number f, the first of the conversation.
Turn(f, n) == IF f <= n THEN n - f ELSE n - f + SnMod

SndFields == {"queue", "buf", "una", "nxt", "rmt_wnd", "cwnd", "ssthresh", "probing", "updated"}
RcvFields == {"nxt", "queue", "buf", "acklist", "tell", "read"}

CwndMax == Larger(RcvWnd, Larger(ThreshMin, SndWnd \div 2) + FastResend)
ThreshMax == Larger(ThreshMin, SndWnd \div 2)

BufTypes(buf) == DOMAIN buf \subseteq Sns /\ \A n \in DOMAIN buf : buf[n] \in Sending

SndTypes(s) ==
  /\ DOMAIN s = SndFields
  /\ s.queue \in Seq(Packets) /\ BufTypes(s.buf)
  /\ s.una \in Sns /\ s.nxt \in Sns
  /\ s.rmt_wnd \in 0..RcvWnd /\ s.cwnd \in 0..CwndMax /\ s.ssthresh \in ThreshMin..ThreshMax
  /\ s.probing \in BOOLEAN /\ s.updated \in BOOLEAN

RcvTypes(r) ==
  /\ DOMAIN r = RcvFields
  /\ r.nxt \in Sns /\ r.queue \in Seq(Packets) /\ r.read \in Seq(Packets)
  /\ DOMAIN r.buf \subseteq Sns /\ \A n \in DOMAIN r.buf : r.buf[n] \in Packets
  /\ r.acklist \subseteq Sns /\ r.tell \in BOOLEAN

NetTypes(net) == net \subseteq {Push(n, p) : n \in Sns, p \in Packets} \cup {Wask}

\* b packets had been given before the first number: number n stands for this packet.
PacketOf(f, b, n) == b + Turn(f, n) + 1

\* The sender: what is in snd_queue has no number yet; snd_una is the first number in
\* snd_buf, and snd_nxt is within the window of it.
SenderFits(f, b, g, s) ==
  /\ g = b + Turn(f, s.nxt) + Len(s.queue)
  /\ \A k \in 1..Len(s.queue) : s.queue[k] = b + Turn(f, s.nxt) + k
  /\ \A n \in DOMAIN s.buf : /\ s.buf[n].data = PacketOf(f, b, n)
                             /\ Turn(f, s.una) <= Turn(f, n) /\ Turn(f, n) < Turn(f, s.nxt)
  /\ Turn(f, s.una) <= Turn(f, s.nxt) /\ Turn(f, s.nxt) <= Turn(f, s.una) + SndWnd
  /\ s.una # s.nxt => s.una \in DOMAIN s.buf

\* The receiver, when m numbers have been used: it has read and queued the packets before
\* rcv_nxt, and holds packets of the window behind it.
ReceiverFits(f, b, m, r) ==
  /\ Len(r.read) + Len(r.queue) = b + Turn(f, r.nxt)
  /\ \A k \in 1..Len(r.read) : r.read[k] = k
  /\ \A k \in 1..Len(r.queue) : r.queue[k] = Len(r.read) + k
  /\ Turn(f, r.nxt) <= m /\ Len(r.queue) <= RcvWnd
  /\ \A n \in DOMAIN r.buf : /\ r.buf[n] = PacketOf(f, b, n)
                             /\ Turn(f, r.nxt) <= Turn(f, n) /\ Turn(f, n) < m
                             /\ Turn(f, n) < Turn(f, r.nxt) + RcvWnd

\* Segments under way are what the sender made of them.
NetFits(f, b, m, net) ==
  \A d \in net : d.cmd = "push" => d.data = PacketOf(f, b, d.sn) /\ Turn(f, d.sn) < m

\* The places, counted from the first number, of the segments in rcv_buf.
Waiting(f, r) == {Turn(f, n) : n \in DOMAIN r.buf}

\* The receiver that goes on to read has something to read; queue and buffer hold one
\* window, and one packet more until it has read.
Reads(f, r) ==
  /\ r.queue # <<>> /\ IsFiniteSet(Waiting(f, r))
  /\ Len(r.queue) + Cardinality(Waiting(f, r)) <= RcvWnd + 1

\* Otherwise it waits for rcv_nxt, which a full queue does not hold back, and the
\* viewer has read everything.
Rests(h, f, r) ==
  /\ r.nxt \notin DOMAIN r.buf /\ (h = "viewer" => r.queue = <<>>)
  /\ IsFiniteSet(Waiting(f, r))
  /\ Len(r.queue) + Cardinality(Waiting(f, r)) <= RcvWnd

QueueFits(h, f, rd, r) == (rd => Reads(f, r)) /\ (~rd => Rests(h, f, r))

\* n is at the receiver.
Received(f, r, n) == Turn(f, n) < Turn(f, r.nxt) \/ n \in DOMAIN r.buf

\* What the receiver acknowledges, now or on the way, it has.
AnswersTrue(f, r, ans) ==
  /\ \A n \in r.acklist : Received(f, r, n)
  /\ \A d \in ans : /\ Turn(f, d.una) <= Turn(f, r.nxt)
                    /\ \A n \in d.acks : Received(f, r, n)

\* Each number that was used is outstanding or at the receiver.
NoneMissing(f, s, r) ==
  \A n \in Sns : Turn(f, n) < Turn(f, s.nxt) => n \in DOMAIN s.buf \/ Received(f, r, n)

\* Some number up to rcv_nxt is not acknowledged, neither at the sender nor on the way.
Owed(f, s, r, ans, n) ==
  /\ n \in Sns /\ Turn(f, n) <= Turn(f, r.nxt)
  /\ n \in DOMAIN s.buf \/ Turn(f, s.nxt) <= Turn(f, n)
  /\ \A d \in ans : Turn(f, d.una) <= Turn(f, n) /\ n \notin d.acks

SomeOwed(f, s, r, ans) == \E n \in Sns : Owed(f, s, r, ans, n)

Types ==
  /\ hop \in Hops /\ first \in FirstSns /\ given \in 0..MaxPackets
  /\ SndTypes(snd) /\ RcvTypes(rcv) /\ reading \in BOOLEAN
  /\ NetTypes(toRcv) /\ toSnd \subseteq Answers /\ calm \in BOOLEAN

PlacedFrom(b) ==
  /\ SenderFits(first, b, given, snd)
  /\ ReceiverFits(first, b, Turn(first, snd.nxt), rcv)
  /\ NetFits(first, b, Turn(first, snd.nxt), toRcv)

InPlace == \E b \in Nat : PlacedFrom(b)

IInv ==
  /\ Types /\ InPlace
  /\ QueueFits(hop, first, reading, rcv)
  /\ AnswersTrue(first, rcv, toSnd)
  /\ NoneMissing(first, snd, rcv)
  /\ SomeOwed(first, snd, rcv, toSnd)

-----------------------------------------------------------------------------
(* Numbers and their places.                                                *)

\* The bounds as the proofs use them.
LEMMA Bounds ==
  /\ SnMod \in Nat /\ SnMod >= 1 /\ Half \in Nat
  /\ Half <= SnMod - Half
  /\ RcvWnd \in Nat /\ RcvWnd >= 1 /\ SndWnd \in Nat /\ SndWnd >= 1 /\ SndWnd < Half
  /\ MaxPackets \in Nat /\ MaxPackets + RcvWnd <= Half
  /\ FirstSns \subseteq Sns
<1>1. /\ SnMod \in Nat /\ SnMod >= 1
      /\ RcvWnd \in Nat /\ RcvWnd >= 1 /\ SndWnd \in Nat /\ SndWnd >= 1
  BY NumbersSuffice, WindowsPositive
<1>2. Half \in Nat /\ 2 * Half <= SnMod /\ SnMod <= 2 * Half + 1
  BY <1>1 DEF Half
<1>3. SnMod > 2 * (SndWnd + RcvWnd)
  BY NumbersSuffice
<1>4. SndWnd < Half
  BY <1>1, <1>2, <1>3
<1>5. MaxPackets + RcvWnd <= Half
  BY OneTurn DEF Half
<1> QED  BY <1>1, <1>2, <1>4, <1>5, BoundsOk, FirstSnsOk DEF Sns

\* Every number has a place, and no two have the same.
LEMMA TurnOf ==
  ASSUME NEW f \in Sns, NEW n \in Sns
  PROVE  /\ Turn(f, n) \in Nat /\ Turn(f, n) < SnMod
         /\ Turn(f, f) = 0
         /\ \A k \in Sns : Turn(f, k) = Turn(f, n) => k = n
<1>1. SnMod \in Nat
  BY Bounds
<1> QED  BY <1>1 DEF Sns, Turn

\* k numbers further is k places further.
LEMMA TurnAhead ==
  ASSUME NEW f \in Sns, NEW n \in Sns, NEW k \in Nat, Turn(f, n) + k < SnMod
  PROVE  /\ (n + k) % SnMod \in Sns
         /\ Turn(f, (n + k) % SnMod) = Turn(f, n) + k
<1>1. SnMod \in Nat /\ SnMod >= 1 /\ f \in Int /\ n \in Int
      /\ 0 <= f /\ f < SnMod /\ 0 <= n /\ n < SnMod
  BY Bounds DEF Sns
<1>2. k < SnMod
  BY <1>1 DEF Turn
<1>3. CASE n + k < SnMod
  <2>1. n + k \in 0..(SnMod - 1)
    BY <1>1, <1>3
  <2>2. (n + k) % SnMod = n + k
    BY <1>1, <2>1
  <2> QED  BY <1>1, <2>1, <2>2 DEF Turn, Sns
<1>4. CASE ~(n + k < SnMod)
  <2>1. n + k - SnMod \in 0..(SnMod - 1)
    BY <1>1, <1>2, <1>4
  <2>2. (n + k) % SnMod = n + k - SnMod
    BY <1>1, <2>1
  <2> QED  BY <1>1, <1>4, <2>1, <2>2 DEF Turn, Sns
<1> QED  BY <1>3, <1>4

\* The difference of two numbers modulo SnMod is that of their places.
LEMMA TurnDifference ==
  ASSUME NEW f \in Sns, NEW a \in Sns, NEW b \in Sns
  PROVE  (a - b) % SnMod = IF Turn(f, b) <= Turn(f, a) THEN Turn(f, a) - Turn(f, b)
                           ELSE Turn(f, a) - Turn(f, b) + SnMod
<1> DEFINE x == Turn(f, a)
           y == Turn(f, b)
<1>1. SnMod \in Nat /\ SnMod >= 1 /\ a - b \in Int /\ a - b < SnMod /\ -SnMod < a - b
  BY Bounds DEF Sns
<1>2. x \in Nat /\ y \in Nat /\ x < SnMod /\ y < SnMod
  BY TurnOf
<1>3. \/ a - b = x - y
      \/ a - b = (x - y) + SnMod
      \/ a - b = (x - y) - SnMod
  BY <1>1 DEF Turn, Sns
<1>4. a - b >= 0 => (a - b) % SnMod = a - b
  <2>1. a - b >= 0 => a - b \in 0..(SnMod - 1)
    BY <1>1
  <2> QED  BY <1>1, <2>1
<1>5. a - b < 0 => (a - b) % SnMod = (a - b) + SnMod
  <2>1. a - b < 0 => (a - b) + SnMod \in 0..(SnMod - 1)
    BY <1>1
  <2> QED  BY <1>1, <2>1
<1> HIDE DEF x, y
<1>6. CASE y <= x
  <2>1. (a - b) % SnMod = x - y
    BY <1>1, <1>2, <1>3, <1>4, <1>5, <1>6
  <2> QED  BY <1>6, <2>1 DEF x, y
<1>7. CASE ~(y <= x)
  <2>1. (a - b) % SnMod = (x - y) + SnMod
    BY <1>1, <1>2, <1>3, <1>4, <1>5, <1>7
  <2> QED  BY <1>7, <2>1 DEF x, y
<1> QED  BY <1>6, <1>7

\* Less than half a turn apart, _itimediff is the difference of the places.
LEMMA DiffOfPlaces ==
  ASSUME NEW f \in Sns, NEW a \in Sns, NEW b \in Sns,
         Turn(f, a) - Turn(f, b) < Half, Turn(f, b) - Turn(f, a) <= Half
  PROVE  itimediff(a, b) = Turn(f, a) - Turn(f, b)
<1> DEFINE x == Turn(f, a)
           y == Turn(f, b)
           d == (a - b) % SnMod
<1>1. x \in Nat /\ y \in Nat
  BY TurnOf
<1>2. d = IF y <= x THEN x - y ELSE x - y + SnMod
  BY TurnDifference
<1>3. itimediff(a, b) = IF d < Half THEN d ELSE d - SnMod
  BY DEF itimediff, Half
<1>4. x - y < Half /\ y - x <= Half /\ SnMod \in Nat /\ Half \in Nat /\ Half <= SnMod - Half
  BY Bounds
<1> HIDE DEF x, y, d
<1>5. itimediff(a, b) = x - y
  BY <1>1, <1>2, <1>3, <1>4
<1> QED  BY <1>5 DEF x, y

\* The m numbers from n on are those of the m places from n's.
LEMMA NumbersFrom ==
  ASSUME NEW f \in Sns, NEW n \in Sns, NEW m \in Nat, Turn(f, n) + m <= SnMod
  PROVE  \A x : x \in Following(n, m) <=>
                  x \in Sns /\ Turn(f, n) <= Turn(f, x) /\ Turn(f, x) < Turn(f, n) + m
<1> DEFINE S == Following(n, m)
<1>1. Turn(f, n) \in Nat /\ SnMod \in Nat
  BY TurnOf, Bounds
<1>2. ASSUME NEW k \in 0..(m - 1)
      PROVE  /\ (n + k) % SnMod \in Sns
             /\ Turn(f, (n + k) % SnMod) = Turn(f, n) + k
  <2>1. k \in Nat /\ k < m
    OBVIOUS
  <2>2. Turn(f, n) + k < SnMod
    BY <1>1, <2>1
  <2> QED  BY <2>1, <2>2, TurnAhead
<1>3. ASSUME NEW x \in S
      PROVE  x \in Sns /\ Turn(f, n) <= Turn(f, x) /\ Turn(f, x) < Turn(f, n) + m
  <2>1. PICK k \in 0..(m - 1) : x = (n + k) % SnMod
    BY DEF Following
  <2>2. k \in Nat /\ k < m
    OBVIOUS
  <2>3. x \in Sns /\ Turn(f, x) = Turn(f, n) + k
    BY <1>2, <2>1
  <2> QED  BY <1>1, <2>2, <2>3
<1>4. ASSUME NEW x \in Sns, Turn(f, n) <= Turn(f, x), Turn(f, x) < Turn(f, n) + m
      PROVE  x \in S
  <2> DEFINE k == Turn(f, x) - Turn(f, n)
  <2>1. Turn(f, x) \in Nat
    BY TurnOf
  <2>2. k \in 0..(m - 1) /\ Turn(f, x) = Turn(f, n) + k
    BY <1>1, <1>4, <2>1
  <2> HIDE DEF k
  <2>3. Turn(f, (n + k) % SnMod) = Turn(f, x) /\ (n + k) % SnMod \in Sns
    BY <1>2, <2>2
  <2>4. (n + k) % SnMod = x
    BY <2>3, TurnOf
  <2> QED  BY <2>2, <2>4 DEF Following
<1> QED  BY <1>3, <1>4

\* A set of naturals has a least element.
LEMMA MinProperties ==
  ASSUME NEW S, S \subseteq Nat, S # {}
  PROVE  Min(S) \in S /\ \A y \in S : Min(S) <= y
<1>1. PICK x \in S : \A y \in S : <<y, x>> \notin OpToRel(<, Nat)
  BY NatLessThanWellFounded, WFMin
<1>2. \A y \in S : ~ (y < x)
  BY <1>1 DEF OpToRel
<1>3. \A y \in S : x <= y
  BY <1>2
<1> QED  BY <1>3 DEF Min

\* What is left of a sequence without its first n.
LEMMA Without ==
  ASSUME NEW T, NEW q \in Seq(T), NEW n \in 0..Len(q)
  PROVE  /\ SubSeq(q, n + 1, Len(q)) \in Seq(T)
         /\ Len(SubSeq(q, n + 1, Len(q))) = Len(q) - n
         /\ \A k \in 1..(Len(q) - n) : SubSeq(q, n + 1, Len(q))[k] = q[n + k]
<1>1. Len(q) \in Nat /\ DOMAIN q = 1..Len(q) /\ q \in [1..Len(q) -> T]
  BY LenProperties
<1>2. n \in Nat /\ n <= Len(q) /\ n + 1 \in Int
  BY <1>1
<1>3. \A k \in (n + 1)..Len(q) : q[k] \in T
  BY <1>1, <1>2
<1>4. /\ SubSeq(q, n + 1, Len(q)) \in Seq(T)
      /\ Len(SubSeq(q, n + 1, Len(q))) = IF n + 1 <= Len(q) THEN Len(q) - (n + 1) + 1 ELSE 0
      /\ \A k \in 1..(Len(q) - (n + 1) + 1) :
           SubSeq(q, n + 1, Len(q))[k] = q[(n + 1) + k - 1]
  BY <1>1, <1>2, <1>3, SubSeqProperties
<1>5. Len(q) - (n + 1) + 1 = Len(q) - n
  BY <1>1, <1>2
<1>6. \A k \in 1..(Len(q) - n) : (n + 1) + k - 1 = n + k
  BY <1>2
<1>7. Len(SubSeq(q, n + 1, Len(q))) = Len(q) - n
  <2> DEFINE l == Len(q)
  <2>0. l \in Nat /\ n \in Nat /\ n <= l
    BY <1>1, <1>2
  <2>1. n + 1 <= l \/ l = n
    <3> HIDE DEF l
    <3> QED  BY <2>0
  <2>2. Len(q) = n => ~(n + 1 <= Len(q)) /\ Len(q) - n = 0
    BY <2>0
  <2> QED  BY <1>4, <1>5, <2>1, <2>2
<1>8. ASSUME NEW k \in 1..(Len(q) - n)
      PROVE  SubSeq(q, n + 1, Len(q))[k] = q[n + k]
  <2>1. SubSeq(q, n + 1, Len(q))[k] = q[(n + 1) + k - 1]
    BY <1>4, <1>5
  <2> QED  BY <1>6, <2>1
<1> QED  BY <1>4, <1>7, <1>8

-----------------------------------------------------------------------------
(* The sender.                                                              *)

\* Smaller and Larger of integers.
LEMMA SmallerLarger ==
  ASSUME NEW a \in Int, NEW b \in Int
  PROVE  /\ Smaller(a, b) \in Int /\ Smaller(a, b) <= a /\ Smaller(a, b) <= b
         /\ Smaller(a, b) = a \/ Smaller(a, b) = b
         /\ Larger(a, b) \in Int /\ Larger(a, b) >= a /\ Larger(a, b) >= b
         /\ Larger(a, b) = a \/ Larger(a, b) = b
BY DEF Smaller, Larger

\* The bounds of cwnd and ssthresh.
LEMMA CwndBounds ==
  /\ CwndMax \in Nat /\ CwndMax >= RcvWnd /\ CwndMax >= 1
  /\ ThreshMax \in Nat /\ ThreshMax >= ThreshMin /\ ThreshMin = 2
  /\ ThreshMax + FastResend <= CwndMax
  /\ \A n \in 0..SndWnd : HalfOf(n) \in ThreshMin..ThreshMax
<1>1. RcvWnd \in Nat /\ RcvWnd >= 1 /\ SndWnd \in Nat /\ FastResend \in Nat /\ ThreshMin = 2
  BY Bounds, FastNat DEF ThreshMin
<1>2. SndWnd \div 2 \in Nat
  BY <1>1
<1>3. \A n \in 0..SndWnd : n \in Nat /\ n \div 2 \in Nat /\ n \div 2 <= SndWnd \div 2
  BY <1>1
<1>4. ThreshMax \in Nat /\ ThreshMax >= ThreshMin /\ ThreshMax >= SndWnd \div 2
  BY <1>1, <1>2 DEF ThreshMax, Larger
<1>5. \A n \in 0..SndWnd : HalfOf(n) \in ThreshMin..ThreshMax
  <2> TAKE n \in 0..SndWnd
  <2>1. n \div 2 \in Nat /\ n \div 2 <= ThreshMax
    BY <1>2, <1>3, <1>4
  <2> HIDE DEF ThreshMin
  <2> QED  BY <1>1, <1>4, <2>1 DEF HalfOf, Larger
<1>6. CwndMax = Larger(RcvWnd, ThreshMax + FastResend)
  BY DEF CwndMax, ThreshMax
<1>7. CwndMax \in Nat /\ CwndMax >= RcvWnd /\ CwndMax >= 1 /\ ThreshMax + FastResend <= CwndMax
  BY <1>1, <1>4, <1>6 DEF Larger
<1> QED  BY <1>1, <1>4, <1>5, <1>7

\* The effective window is no more than snd_wnd.
LEMMA EffectiveWndBound ==
  ASSUME NEW s, SndTypes(s)
  PROVE  EffectiveWnd(s) \in 0..SndWnd
<1>1. s.cwnd \in Nat /\ s.rmt_wnd \in Nat /\ SndWnd \in Nat
  BY CwndBounds, Bounds DEF SndTypes
<1> QED  BY <1>1 DEF EffectiveWnd, Smaller

\* The places the sender uses, and how they compare.
LEMMA SenderPlaces ==
  ASSUME NEW f \in Sns, NEW b \in Nat, NEW g \in 0..MaxPackets, NEW s,
         SndTypes(s), SenderFits(f, b, g, s)
  PROVE  /\ s.una \in Sns /\ s.nxt \in Sns
         /\ Turn(f, s.una) \in Nat /\ Turn(f, s.nxt) \in Nat /\ Len(s.queue) \in Nat
         /\ (b + Turn(f, s.nxt)) + Len(s.queue) <= MaxPackets
         /\ Turn(f, s.nxt) <= MaxPackets
         /\ \A n \in DOMAIN s.buf : n \in Sns /\ Turn(f, n) \in Nat
         /\ itimediff(s.nxt, s.una) = Turn(f, s.nxt) - Turn(f, s.una)
         /\ itimediff(s.nxt, s.una) \in 0..SndWnd
<1>1. s.una \in Sns /\ s.nxt \in Sns /\ Len(s.queue) \in Nat /\ DOMAIN s.buf \subseteq Sns
  BY LenProperties DEF SndTypes, BufTypes
<1>2. Turn(f, s.una) \in Nat /\ Turn(f, s.nxt) \in Nat
  BY <1>1, TurnOf
<1>3. g = b + Turn(f, s.nxt) + Len(s.queue) /\ g \in Nat /\ g <= MaxPackets
  BY Bounds DEF SenderFits
<1>4. /\ Turn(f, s.una) <= Turn(f, s.nxt) /\ Turn(f, s.nxt) <= Turn(f, s.una) + SndWnd
  BY DEF SenderFits
<1>5. SndWnd \in Nat /\ SndWnd < Half /\ Half \in Nat /\ MaxPackets \in Nat
  BY Bounds
<1>6. itimediff(s.nxt, s.una) = Turn(f, s.nxt) - Turn(f, s.una)
  <2>1. Turn(f, s.nxt) - Turn(f, s.una) < Half /\ Turn(f, s.una) - Turn(f, s.nxt) <= Half
    BY <1>2, <1>4, <1>5
  <2> QED  BY <1>1, <2>1, DiffOfPlaces
<1>7. itimediff(s.nxt, s.una) \in 0..SndWnd
  BY <1>2, <1>4, <1>5, <1>6
<1>8. (b + Turn(f, s.nxt)) + Len(s.queue) <= MaxPackets /\ Turn(f, s.nxt) <= MaxPackets
  BY <1>1, <1>2, <1>3, <1>5
<1>9. \A n \in DOMAIN s.buf : n \in Sns /\ Turn(f, n) \in Nat
  BY <1>1, TurnOf
<1> QED  BY <1>1, <1>2, <1>6, <1>7, <1>8, <1>9

\* t is s when the first n packets of snd_queue, with the numbers S, are in snd_buf.
FillsTo(s, t, n, S) ==
  /\ S = Following(s.nxt, n)
  /\ DOMAIN t = SndFields
  /\ t.queue = SubSeq(s.queue, n + 1, Len(s.queue))
  /\ t.buf = [x \in DOMAIN s.buf \cup S |->
                IF x \in S
                THEN [data |-> s.queue[((x - s.nxt) % SnMod) + 1], xmit |-> 0, fastack |-> 0]
                ELSE s.buf[x]]
  /\ t.nxt = (s.nxt + n) % SnMod /\ t.una = s.una
  /\ t.rmt_wnd = s.rmt_wnd /\ t.cwnd = s.cwnd /\ t.ssthresh = s.ssthresh
  /\ t.probing = s.probing /\ t.updated = s.updated

\* Filling snd_buf gives the first packets of snd_queue the next numbers.
LEMMA FilledFields ==
  ASSUME NEW f \in Sns, NEW b \in Nat, NEW g \in 0..MaxPackets, NEW s,
         SndTypes(s), SenderFits(f, b, g, s)
  PROVE  \E n \in 0..Len(s.queue) : \E S :
           /\ FillsTo(s, FillSndBuf(s), n, S)
           /\ n = 0 \/ (Turn(f, s.nxt) - Turn(f, s.una)) + n <= SndWnd
<1> DEFINE room == EffectiveWnd(s) - itimediff(s.nxt, s.una)
           n == Larger(0, Smaller(Len(s.queue), room))
           S == Following(s.nxt, n)
<1>1. /\ EffectiveWnd(s) \in 0..SndWnd /\ itimediff(s.nxt, s.una) \in 0..SndWnd
      /\ itimediff(s.nxt, s.una) = Turn(f, s.nxt) - Turn(f, s.una)
      /\ Len(s.queue) \in Nat /\ SndWnd \in Nat
  BY EffectiveWndBound, SenderPlaces, Bounds
<1>2. n \in 0..Len(s.queue) /\ (n = 0 \/ n <= room)
  BY <1>1 DEF Larger, Smaller
<1>3. n = 0 \/ itimediff(s.nxt, s.una) + n <= SndWnd
  <2> HIDE DEF n
  <2> QED  BY <1>1, <1>2
<1>4. FillSndBuf(s) =
        [s EXCEPT !.queue = SubSeq(s.queue, n + 1, Len(s.queue)),
                  !.buf = [x \in DOMAIN s.buf \cup S |->
                         IF x \in S
                         THEN [data |-> s.queue[((x - s.nxt) % SnMod) + 1],
                               xmit |-> 0, fastack |-> 0]
                         ELSE s.buf[x]],
                  !.nxt = (s.nxt + n) % SnMod]
  BY DEF FillSndBuf
<1>5. DOMAIN s = SndFields
  BY DEF SndTypes
<1> HIDE DEF n, S
<1>6. LET t == FillSndBuf(s) IN
           /\ DOMAIN t = SndFields
           /\ t.queue = SubSeq(s.queue, n + 1, Len(s.queue))
           /\ t.buf = [x \in DOMAIN s.buf \cup S |->
                         IF x \in S
                         THEN [data |-> s.queue[((x - s.nxt) % SnMod) + 1],
                               xmit |-> 0, fastack |-> 0]
                         ELSE s.buf[x]]
           /\ t.nxt = (s.nxt + n) % SnMod
  BY <1>4, <1>5 DEF SndFields
<1>7. LET t == FillSndBuf(s) IN
           /\ t.una = s.una
           /\ t.rmt_wnd = s.rmt_wnd /\ t.cwnd = s.cwnd /\ t.ssthresh = s.ssthresh
           /\ t.probing = s.probing /\ t.updated = s.updated
  BY <1>4, <1>5 DEF SndFields
<1>8. S = Following(s.nxt, n)
  BY DEF S
<1>9. FillsTo(s, FillSndBuf(s), n, S)
  BY <1>6, <1>7, <1>8 DEF FillsTo
<1>10. n = 0 \/ (Turn(f, s.nxt) - Turn(f, s.una)) + n <= SndWnd
  BY <1>1, <1>3
<1> QED  BY <1>2, <1>9, <1>10

\* The sender keeps its shape, and the numbers it hands out are outstanding.
LEMMA Filled ==
  ASSUME NEW f \in Sns, NEW b \in Nat, NEW g \in 0..MaxPackets, NEW s,
         SndTypes(s), SenderFits(f, b, g, s), NEW t, t = FillSndBuf(s)
  PROVE  /\ SndTypes(t) /\ SenderFits(f, b, g, t) /\ t.una = s.una
         /\ Turn(f, s.nxt) <= Turn(f, t.nxt)
         /\ \A x : x \in DOMAIN t.buf <=>
              \/ x \in DOMAIN s.buf
              \/ x \in Sns /\ Turn(f, s.nxt) <= Turn(f, x) /\ Turn(f, x) < Turn(f, t.nxt)
<1>a. PICK n \in 0..Len(s.queue) :
        \E S : /\ FillsTo(s, t, n, S)
               /\ n = 0 \/ (Turn(f, s.nxt) - Turn(f, s.una)) + n <= SndWnd
  BY FilledFields
<1>0. PICK S :
        /\ FillsTo(s, t, n, S)
        /\ n = 0 \/ (Turn(f, s.nxt) - Turn(f, s.una)) + n <= SndWnd
  BY <1>a
<1>1. /\ S = Following(s.nxt, n)
      /\ t.nxt = (s.nxt + n) % SnMod /\ t.una = s.una
      /\ DOMAIN t.buf = DOMAIN s.buf \cup S
  BY <1>0 DEF FillsTo
<1> DEFINE w == Turn(f, s.nxt)
           v == Turn(f, s.una)
<1>2. /\ s.una \in Sns /\ s.nxt \in Sns /\ v \in Nat /\ w \in Nat /\ Len(s.queue) \in Nat
      /\ (b + w) + Len(s.queue) <= MaxPackets
      /\ \A x \in DOMAIN s.buf : x \in Sns /\ Turn(f, x) \in Nat
  BY SenderPlaces
<1>3. MaxPackets \in Nat /\ MaxPackets < SnMod /\ SnMod \in Nat /\ SndWnd \in Nat
  BY Bounds
<1>4. n \in Nat /\ n <= Len(s.queue) /\ w + n < SnMod
  <2> DEFINE l == Len(s.queue)
  <2>1. n \in Nat /\ n <= l /\ w \in Nat /\ l \in Nat /\ b \in Nat
    BY <1>2
  <2>2. (b + w) + l <= MaxPackets
    BY <1>2
  <2> HIDE DEF w, l
  <2>3. w + n < SnMod
    BY <1>3, <2>1, <2>2
  <2> QED  BY <2>1, <2>3 DEF l
<1>5. t.nxt \in Sns /\ Turn(f, t.nxt) = w + n
  BY <1>1, <1>2, <1>4, TurnAhead
<1>6. \A x : x \in S <=> x \in Sns /\ w <= Turn(f, x) /\ Turn(f, x) < w + n
  <2>1. w + n <= SnMod
    <3>1. w \in Nat /\ n \in Nat /\ SnMod \in Nat /\ w + n < SnMod
      BY <1>2, <1>3, <1>4
    <3> HIDE DEF w
    <3> QED  BY <3>1
  <2>2. s.nxt \in Sns /\ n \in Nat
    BY <1>2, <1>4
  <2> QED  BY <1>1, <2>1, <2>2, NumbersFrom
<1>7. DOMAIN t.buf = DOMAIN s.buf \cup S
  BY <1>1
<1>8. \A x : x \in DOMAIN t.buf <=>
         \/ x \in DOMAIN s.buf
         \/ x \in Sns /\ w <= Turn(f, x) /\ Turn(f, x) < Turn(f, t.nxt)
  BY <1>5, <1>6, <1>7
<1>9. /\ t.queue \in Seq(Packets) /\ Len(t.queue) = Len(s.queue) - n
      /\ \A k \in 1..(Len(s.queue) - n) : t.queue[k] = s.queue[n + k]
  <2>1. t.queue = SubSeq(s.queue, n + 1, Len(s.queue)) /\ s.queue \in Seq(Packets)
    BY <1>0 DEF FillsTo, SndTypes
  <2> QED  BY <2>1, Without
<1>10. /\ \A k \in 1..Len(s.queue) : s.queue[k] = b + w + k
       /\ g = b + w + Len(s.queue)
       /\ \A x \in DOMAIN s.buf :
            s.buf[x].data = PacketOf(f, b, x) /\ v <= Turn(f, x) /\ Turn(f, x) < w
       /\ v <= w /\ w <= v + SndWnd
       /\ s.una # s.nxt => s.una \in DOMAIN s.buf
  BY DEF SenderFits
<1>11. ASSUME NEW x \in S
       PROVE  /\ t.buf[x] \in Sending /\ t.buf[x].data = PacketOf(f, b, x)
              /\ x \in Sns /\ w <= Turn(f, x) /\ Turn(f, x) < w + n
  <2>1. x \in Sns /\ w <= Turn(f, x) /\ Turn(f, x) < w + n /\ Turn(f, x) \in Nat
    BY <1>6, TurnOf
  <2>2. (x - s.nxt) % SnMod = Turn(f, x) - w
    BY <1>2, <2>1, TurnDifference
  <2> DEFINE k == (Turn(f, x) - w) + 1
  <2>3. k \in 1..Len(s.queue) /\ b + w + k = PacketOf(f, b, x)
    <3> DEFINE l == Len(s.queue)
               y == Turn(f, x)
    <3>1. w \in Nat /\ n \in Nat /\ l \in Nat /\ y \in Nat /\ b \in Nat
      BY <1>2, <1>4, <2>1
    <3>2. n <= l /\ w <= y /\ y < w + n
      BY <1>4, <2>1
    <3>3. k = (y - w) + 1
      OBVIOUS
    <3> HIDE DEF k, l, w, y
    <3>4. k \in 1..l
      BY <3>1, <3>2, <3>3
    <3>5. b + w + k = b + y + 1
      BY <3>1, <3>3
    <3> QED  BY <3>4, <3>5 DEF PacketOf, l, y
  <2>4. t.buf[x] = [data |-> s.queue[k], xmit |-> 0, fastack |-> 0]
    BY <1>0, <2>2 DEF FillsTo
  <2>5. s.queue[k] = PacketOf(f, b, x) /\ s.queue[k] \in Packets
    <3>1. s.queue \in [1..Len(s.queue) -> Packets]
      BY LenProperties DEF SndTypes
    <3> QED  BY <1>10, <2>3, <3>1
  <2>6. 0 \in 0..(FastLimit + 1) /\ 0 \in 0..FastResend
    BY FastNat
  <2> HIDE DEF k
  <2> QED  BY <2>1, <2>4, <2>5, <2>6 DEF Sending
<1>12. ASSUME NEW x \in DOMAIN s.buf, x \notin S
       PROVE  t.buf[x] = s.buf[x]
  BY <1>0, <1>1, <1>12 DEF FillsTo
<1>13. BufTypes(t.buf)
  <2>1. DOMAIN t.buf \subseteq Sns
    BY <1>2, <1>6, <1>7
  <2>2. ASSUME NEW x \in DOMAIN t.buf
        PROVE  t.buf[x] \in Sending
    <3>1. CASE x \in S
      BY <1>11, <3>1
    <3>2. CASE x \notin S
      BY <1>7, <1>12, <3>2 DEF SndTypes, BufTypes
    <3> QED  BY <3>1, <3>2
  <2> QED  BY <2>1, <2>2 DEF BufTypes
<1>14. SndTypes(t)
  BY <1>0, <1>2, <1>5, <1>9, <1>13 DEF SndTypes, FillsTo
<1>15. w <= Turn(f, t.nxt)
  BY <1>2, <1>4, <1>5
<1>16. ASSUME NEW x \in DOMAIN t.buf
       PROVE  /\ t.buf[x].data = PacketOf(f, b, x)
              /\ Turn(f, t.una) <= Turn(f, x) /\ Turn(f, x) < Turn(f, t.nxt)
  <2>1. CASE x \in S
    <3>1. x \in Sns /\ w <= Turn(f, x) /\ Turn(f, x) < w + n /\ Turn(f, x) \in Nat
      BY <1>11, <2>1, TurnOf
    <3>2. v <= Turn(f, x)
      BY <1>2, <1>10, <3>1
    <3> QED  BY <1>1, <1>5, <1>11, <2>1, <3>1, <3>2
  <2>2. CASE x \notin S
    <3>1. x \in DOMAIN s.buf /\ t.buf[x] = s.buf[x]
      BY <1>7, <1>12, <2>2
    <3>2. /\ s.buf[x].data = PacketOf(f, b, x)
          /\ v <= Turn(f, x) /\ Turn(f, x) < w /\ Turn(f, x) \in Nat
      BY <1>2, <1>10, <3>1
    <3>3. Turn(f, x) < Turn(f, t.nxt)
      BY <1>2, <1>4, <1>5, <3>2
    <3> QED  BY <1>1, <3>1, <3>2, <3>3
  <2> QED  BY <2>1, <2>2
<1>17. /\ g = b + Turn(f, t.nxt) + Len(t.queue)
       /\ \A k \in 1..Len(t.queue) : t.queue[k] = b + Turn(f, t.nxt) + k
  <2>1. g = b + Turn(f, t.nxt) + Len(t.queue)
    <3> DEFINE l == Len(s.queue)
    <3>1. g = b + w + l /\ Turn(f, t.nxt) = w + n /\ Len(t.queue) = l - n
      BY <1>5, <1>9, <1>10
    <3>2. w \in Nat /\ l \in Nat /\ n \in Nat /\ b \in Nat
      BY <1>2, <1>4
    <3> HIDE DEF w, l
    <3>3. b + w + l = b + (w + n) + (l - n)
      BY <3>2
    <3> QED  BY <3>1, <3>3
  <2>2. ASSUME NEW k \in 1..Len(t.queue)
        PROVE  t.queue[k] = b + Turn(f, t.nxt) + k
    <3>1. k \in 1..(Len(s.queue) - n) /\ n + k \in 1..Len(s.queue)
      BY <1>2, <1>4, <1>9
    <3>2. t.queue[k] = b + w + (n + k)
      BY <1>9, <1>10, <3>1
    <3> HIDE DEF w
    <3> QED  BY <1>2, <1>4, <1>5, <3>1, <3>2
  <2> QED  BY <2>1, <2>2
<1>18. Turn(f, t.una) <= Turn(f, t.nxt) /\ Turn(f, t.nxt) <= Turn(f, t.una) + SndWnd
  <2>1. Turn(f, t.una) = v
    BY <1>1
  <2>2. v \in Nat /\ w \in Nat /\ n \in Nat /\ SndWnd \in Nat /\ Turn(f, t.nxt) = w + n
    BY <1>2, <1>3, <1>4, <1>5
  <2>3. v <= w /\ w <= v + SndWnd /\ (n = 0 \/ (w - v) + n <= SndWnd)
    BY <1>0, <1>10
  <2> HIDE DEF v, w
  <2> QED  BY <2>1, <2>2, <2>3
<1>19. t.una # t.nxt => t.una \in DOMAIN t.buf
  <2> SUFFICES ASSUME t.una # t.nxt
               PROVE  t.una \in DOMAIN t.buf
    OBVIOUS
  <2>1. CASE s.una \in DOMAIN s.buf
    BY <1>1, <1>7, <2>1
  <2>2. CASE s.una = s.nxt
    <3>1. Turn(f, t.nxt) # v
      BY <1>1, <1>2, <1>5, TurnOf
    <3>2. w < Turn(f, t.nxt)
      BY <1>2, <1>4, <1>5, <2>2, <3>1
    <3> QED  BY <1>1, <1>2, <1>8, <2>2, <3>2
  <2> QED  BY <1>10, <2>1, <2>2
<1>20. SenderFits(f, b, g, t)
  BY <1>16, <1>17, <1>18, <1>19 DEF SenderFits
<1> QED  BY <1>1, <1>8, <1>14, <1>15, <1>20

\* What decides the sender's shape are its packets, numbers and outstanding segments.
LEMMA SameShape ==
  ASSUME NEW f, NEW b, NEW g, NEW s, NEW t, SenderFits(f, b, g, s),
         t.queue = s.queue, t.una = s.una, t.nxt = s.nxt, DOMAIN t.buf = DOMAIN s.buf,
         \A n \in DOMAIN s.buf : t.buf[n].data = s.buf[n].data
  PROVE  SenderFits(f, b, g, t)
BY DEF SenderFits

\* The probe's timer is all that ProbeTimer changes.
LEMMA ProbeTimerFields ==
  ASSUME NEW s, SndTypes(s), NEW due, NEW t, t = ProbeTimer(s, due)
  PROVE  /\ SndTypes(t)
         /\ t.queue = s.queue /\ t.una = s.una /\ t.nxt = s.nxt /\ t.buf = s.buf
<1>1. DOMAIN s = SndFields
  BY DEF SndTypes
<1>2. /\ DOMAIN t = SndFields /\ t.queue = s.queue /\ t.una = s.una /\ t.nxt = s.nxt
      /\ t.buf = s.buf /\ t.rmt_wnd = s.rmt_wnd /\ t.cwnd = s.cwnd
      /\ t.ssthresh = s.ssthresh /\ t.updated = s.updated
  BY <1>1 DEF ProbeTimer, SndFields
<1>3. t.probing = (s.rmt_wnd = 0)
  BY <1>1 DEF ProbeTimer, SndFields
<1>4. t.probing \in BOOLEAN
  BY <1>3
<1> QED  BY <1>2, <1>4 DEF SndTypes

\* Marking segments as sent changes neither their numbers nor their data.
LEMMA TransmitFields ==
  ASSUME NEW s, SndTypes(s), NEW late, NEW t, t = Transmit(s, late)
  PROVE  /\ SndTypes(t)
         /\ t.queue = s.queue /\ t.una = s.una /\ t.nxt = s.nxt
         /\ DOMAIN t.buf = DOMAIN s.buf
         /\ \A n \in DOMAIN s.buf : t.buf[n].data = s.buf[n].data
<1>1. DOMAIN s = SndFields /\ BufTypes(s.buf)
  BY DEF SndTypes
<1> DEFINE z == [n \in DOMAIN s.buf |-> Sent(n, s.buf[n], late)]
<1>0. t = [s EXCEPT !.buf = z]
  BY DEF Transmit
<1>2. t.buf = z
  <2> HIDE DEF z
  <2> QED  BY <1>0, <1>1 DEF SndFields
<1>3. /\ DOMAIN t = SndFields /\ t.queue = s.queue /\ t.una = s.una /\ t.nxt = s.nxt
      /\ t.rmt_wnd = s.rmt_wnd /\ t.cwnd = s.cwnd /\ t.ssthresh = s.ssthresh
      /\ t.updated = s.updated /\ t.probing = s.probing
  <2> HIDE DEF z
  <2> QED  BY <1>0, <1>1 DEF SndFields
<1>4. DOMAIN t.buf = DOMAIN s.buf
  BY <1>2
<1>5. ASSUME NEW n \in DOMAIN s.buf
      PROVE  t.buf[n] \in Sending /\ t.buf[n].data = s.buf[n].data
  <2> DEFINE e == s.buf[n]
             x == Smaller(e.xmit + 1, FastLimit + 1)
             y == IF IsSkipped(n, e, late) THEN 0 ELSE e.fastack
  <2>1. e \in Sending
    BY <1>1 DEF BufTypes
  <2>2. t.buf[n] = IF NeedSend(n, e, late) THEN [e EXCEPT !.xmit = x, !.fastack = y] ELSE e
    BY <1>2 DEF Sent
  <2>3. e.data \in Packets /\ e.xmit \in 0..(FastLimit + 1) /\ e.fastack \in 0..FastResend
        /\ DOMAIN e = {"data", "xmit", "fastack"}
    BY <2>1 DEF Sending
  <2>4. x \in 0..(FastLimit + 1) /\ y \in 0..FastResend
    BY <2>3, FastNat DEF Smaller
  <2> HIDE DEF e, x, y
  <2>5. [e EXCEPT !.xmit = x, !.fastack = y] \in Sending
    BY <2>1, <2>4 DEF Sending
  <2>6. [e EXCEPT !.xmit = x, !.fastack = y].data = e.data
    BY <2>3
  <2>7. t.buf[n] \in Sending /\ t.buf[n].data = e.data
    BY <2>1, <2>2, <2>5, <2>6
  <2> QED  BY <2>7 DEF e
<1>6. BufTypes(t.buf)
  BY <1>1, <1>4, <1>5 DEF BufTypes
<1> QED  BY <1>3, <1>4, <1>5, <1>6 DEF SndTypes

\* The end of a flush changes cwnd and ssthresh, within their bounds.
LEMMA AdjustFields ==
  ASSUME NEW s, SndTypes(s), NEW q, SndTypes(q), itimediff(q.nxt, q.una) \in 0..SndWnd,
         NEW late, NEW t, t = AdjustCwnd(s, q, late)
  PROVE  /\ SndTypes(t)
         /\ t.queue = s.queue /\ t.una = s.una /\ t.nxt = s.nxt /\ t.buf = s.buf
<1> DEFINE fast == HalfOf(itimediff(q.nxt, q.una))
           slow == HalfOf(EffectiveWnd(q))
<1>1. DOMAIN s = SndFields /\ s.cwnd \in 0..CwndMax /\ s.ssthresh \in ThreshMin..ThreshMax
  BY DEF SndTypes
<1>2. \/ t = [s EXCEPT !.ssthresh = slow, !.cwnd = 1]
      \/ t = [s EXCEPT !.ssthresh = fast, !.cwnd = fast + FastResend]
      \/ t = [s EXCEPT !.cwnd = Larger(1, s.cwnd)]
  BY DEF AdjustCwnd
<1>3. fast \in ThreshMin..ThreshMax /\ slow \in ThreshMin..ThreshMax
  BY EffectiveWndBound, CwndBounds
<1> HIDE DEF fast, slow
<1>4. /\ DOMAIN t = SndFields /\ t.queue = s.queue /\ t.una = s.una /\ t.nxt = s.nxt
      /\ t.buf = s.buf /\ t.rmt_wnd = s.rmt_wnd
      /\ t.updated = s.updated /\ t.probing = s.probing
  BY <1>1, <1>2 DEF SndFields
<1>5. \/ t.ssthresh = slow /\ t.cwnd = 1
      \/ t.ssthresh = fast /\ t.cwnd = fast + FastResend
      \/ t.ssthresh = s.ssthresh /\ t.cwnd = Larger(1, s.cwnd)
  BY <1>1, <1>2 DEF SndFields
<1>6. CwndMax \in Nat /\ CwndMax >= 1 /\ ThreshMax \in Nat /\ ThreshMin = 2
      /\ ThreshMax + FastResend <= CwndMax /\ FastResend \in Nat
  BY CwndBounds, FastNat
<1>7. t.cwnd \in 0..CwndMax /\ t.ssthresh \in ThreshMin..ThreshMax
  <2>1. 1 \in 0..CwndMax /\ fast + FastResend \in 0..CwndMax
    BY <1>3, <1>6
  <2>2. Larger(1, s.cwnd) \in 0..CwndMax
    BY <1>1, <2>1 DEF Larger
  <2> QED  BY <1>1, <1>3, <1>5, <2>1, <2>2
<1> QED  BY <1>4, <1>7 DEF SndTypes

\* A flush hands out numbers, keeps what is outstanding, and sends nothing else.
LEMMA Flushed ==
  ASSUME NEW f \in Sns, NEW b \in Nat, NEW g \in 0..MaxPackets, NEW s,
         SndTypes(s), SenderFits(f, b, g, s), NEW due, NEW late,
         NEW q, q = FillSndBuf(ProbeTimer(s, due)),
         NEW t, t = AdjustCwnd(Transmit(q, late), q, late)
  PROVE  /\ SndTypes(t) /\ SenderFits(f, b, g, t) /\ t.una = s.una
         /\ Turn(f, s.nxt) <= Turn(f, t.nxt)
         /\ \A x : x \in DOMAIN t.buf <=>
              \/ x \in DOMAIN s.buf
              \/ x \in Sns /\ Turn(f, s.nxt) <= Turn(f, x) /\ Turn(f, x) < Turn(f, t.nxt)
         /\ \A d \in FlushOut(s, q, due, late) :
              d = Wask \/ \E n \in DOMAIN t.buf : d = Push(n, t.buf[n].data)
<1> DEFINE p == ProbeTimer(s, due)
           u == Transmit(q, late)
<1>1. /\ SndTypes(p) /\ p.queue = s.queue /\ p.una = s.una /\ p.nxt = s.nxt /\ p.buf = s.buf
  BY ProbeTimerFields
<1>2. SenderFits(f, b, g, p)
  BY <1>1, SameShape
<1> HIDE DEF p
<1>3. q = FillSndBuf(p)
  BY DEF p
<1>4. SndTypes(q) /\ SenderFits(f, b, g, q) /\ q.una = s.una /\ Turn(f, s.nxt) <= Turn(f, q.nxt)
  BY <1>1, <1>2, <1>3, Filled
<1>5. \A x : x \in DOMAIN q.buf <=>
         \/ x \in DOMAIN s.buf
         \/ x \in Sns /\ Turn(f, s.nxt) <= Turn(f, x) /\ Turn(f, x) < Turn(f, q.nxt)
  BY <1>1, <1>2, <1>3, Filled
<1>6. /\ SndTypes(u) /\ u.queue = q.queue /\ u.una = q.una /\ u.nxt = q.nxt
      /\ DOMAIN u.buf = DOMAIN q.buf /\ \A n \in DOMAIN q.buf : u.buf[n].data = q.buf[n].data
  BY <1>4, TransmitFields
<1> HIDE DEF u
<1>7. itimediff(q.nxt, q.una) \in 0..SndWnd
  BY <1>4, SenderPlaces
<1>8. SndTypes(t) /\ t.queue = q.queue /\ t.una = q.una /\ t.nxt = q.nxt /\ t.buf = u.buf
  <2>1. t = AdjustCwnd(u, q, late)
    BY DEF u
  <2> QED  BY <1>4, <1>6, <1>7, <2>1, AdjustFields
<1>9. DOMAIN t.buf = DOMAIN q.buf /\ \A n \in DOMAIN q.buf : t.buf[n].data = q.buf[n].data
  BY <1>6, <1>8
<1>10. SenderFits(f, b, g, t)
  BY <1>4, <1>8, <1>9, SameShape
<1>11. ASSUME NEW d \in FlushOut(s, q, due, late)
       PROVE  d = Wask \/ \E n \in DOMAIN t.buf : d = Push(n, t.buf[n].data)
  <2>1. d = Wask \/ \E n \in DOMAIN q.buf : d = Push(n, q.buf[n].data)
    BY DEF FlushOut
  <2> QED  BY <1>9, <2>1
<1> QED  BY <1>4, <1>5, <1>8, <1>9, <1>10, <1>11

\* The first number in snd_buf is there, and no place is before its place.
LEMMA FirstOutstanding ==
  ASSUME NEW f \in Sns, NEW K, K \subseteq Sns, K # {}, \A n \in K : Turn(f, n) <= MaxPackets,
         NEW v, v = CHOOSE n \in K : \A o \in K : itimediff(n, o) <= 0
  PROVE  v \in K /\ \A o \in K : Turn(f, v) <= Turn(f, o)
<1> DEFINE P == {Turn(f, n) : n \in K}
<1>1. \A n \in K : Turn(f, n) \in Nat
  BY TurnOf
<1>2. Min(P) \in P /\ \A y \in P : Min(P) <= y
  <2>1. P \subseteq Nat /\ P # {}
    BY <1>1
  <2> HIDE DEF P
  <2> QED  BY <2>1, MinProperties
<1>3. PICK n \in K : \A o \in K : Turn(f, n) <= Turn(f, o)
  BY <1>2
<1>4. MaxPackets \in Nat /\ MaxPackets < Half /\ Half \in Nat
  BY Bounds
<1>5. ASSUME NEW a \in K, NEW o \in K
      PROVE  itimediff(a, o) = Turn(f, a) - Turn(f, o)
  <2>1. a \in Sns /\ o \in Sns /\ Turn(f, a) \in Nat /\ Turn(f, o) \in Nat
        /\ Turn(f, a) <= MaxPackets /\ Turn(f, o) <= MaxPackets
    BY <1>1
  <2>2. Turn(f, a) - Turn(f, o) < Half /\ Turn(f, o) - Turn(f, a) <= Half
    BY <1>4, <2>1
  <2> QED  BY <2>1, <2>2, DiffOfPlaces
<1>6. \A o \in K : itimediff(n, o) <= 0
  BY <1>1, <1>3, <1>5
<1>7. v \in K /\ \A o \in K : itimediff(v, o) <= 0
  BY <1>6
<1>8. ASSUME NEW o \in K
      PROVE  Turn(f, v) <= Turn(f, o)
  <2>1. Turn(f, v) - Turn(f, o) <= 0 /\ Turn(f, v) \in Nat /\ Turn(f, o) \in Nat
    BY <1>1, <1>5, <1>7
  <2> QED  BY <2>1
<1> QED  BY <1>7, <1>8

\* When some segments have left snd_buf, snd_una is the first of the others.
LEMMA Shrunk ==
  ASSUME NEW f \in Sns, NEW b \in Nat, NEW g \in 0..MaxPackets, NEW s,
         SndTypes(s), SenderFits(f, b, g, s), NEW K, K \subseteq DOMAIN s.buf,
         NEW t, t = ikcp_shrink_buf([s EXCEPT !.buf = Restrict(s.buf, K)])
  PROVE  /\ SndTypes(t) /\ SenderFits(f, b, g, t) /\ t.nxt = s.nxt
         /\ DOMAIN t.buf = K /\ Turn(f, s.una) <= Turn(f, t.una)
<1> DEFINE u == [s EXCEPT !.buf = Restrict(s.buf, K)]
<1>1. DOMAIN s = SndFields /\ BufTypes(s.buf)
  BY DEF SndTypes
<1>2. /\ DOMAIN u = SndFields /\ u.queue = s.queue /\ u.nxt = s.nxt
      /\ u.buf = Restrict(s.buf, K)
      /\ u.rmt_wnd = s.rmt_wnd /\ u.cwnd = s.cwnd /\ u.ssthresh = s.ssthresh
      /\ u.updated = s.updated /\ u.probing = s.probing
  BY <1>1 DEF SndFields
<1> HIDE DEF u
<1>3. t = [u EXCEPT !.una = IF DOMAIN u.buf = {} THEN u.nxt
                            ELSE CHOOSE n \in DOMAIN u.buf :
                                   \A o \in DOMAIN u.buf : itimediff(n, o) <= 0]
  BY DEF u, ikcp_shrink_buf
<1>4. /\ DOMAIN t = SndFields /\ t.queue = s.queue /\ t.nxt = s.nxt
      /\ t.buf = Restrict(s.buf, K)
      /\ t.rmt_wnd = s.rmt_wnd /\ t.cwnd = s.cwnd /\ t.ssthresh = s.ssthresh
      /\ t.updated = s.updated /\ t.probing = s.probing
  BY <1>2, <1>3 DEF SndFields
<1>5. DOMAIN t.buf = K /\ DOMAIN u.buf = K /\ \A n \in K : t.buf[n] = s.buf[n]
  BY <1>2, <1>4 DEF Restrict
<1>6. t.una = IF K = {} THEN s.nxt
              ELSE CHOOSE n \in K : \A o \in K : itimediff(n, o) <= 0
  <2>1. t.una = IF DOMAIN u.buf = {} THEN u.nxt
                ELSE CHOOSE n \in DOMAIN u.buf :
                       \A o \in DOMAIN u.buf : itimediff(n, o) <= 0
    BY <1>2, <1>3 DEF SndFields
  <2> QED  BY <1>2, <1>5, <2>1
<1>7. /\ s.una \in Sns /\ s.nxt \in Sns /\ Turn(f, s.una) \in Nat /\ Turn(f, s.nxt) \in Nat
      /\ Turn(f, s.nxt) <= MaxPackets
      /\ \A n \in DOMAIN s.buf : n \in Sns /\ Turn(f, n) \in Nat
  BY SenderPlaces
<1>8. /\ \A n \in DOMAIN s.buf : /\ s.buf[n].data = PacketOf(f, b, n)
                                 /\ Turn(f, s.una) <= Turn(f, n) /\ Turn(f, n) < Turn(f, s.nxt)
      /\ Turn(f, s.una) <= Turn(f, s.nxt) /\ Turn(f, s.nxt) <= Turn(f, s.una) + SndWnd
      /\ g = b + Turn(f, s.nxt) + Len(s.queue)
      /\ \A k \in 1..Len(s.queue) : s.queue[k] = b + Turn(f, s.nxt) + k
  BY DEF SenderFits
<1>9. /\ t.una \in Sns /\ (t.una # t.nxt => t.una \in K)
      /\ Turn(f, s.una) <= Turn(f, t.una) /\ Turn(f, t.una) <= Turn(f, s.nxt)
      /\ \A n \in K : Turn(f, t.una) <= Turn(f, n)
  <2>1. CASE K = {}
    BY <1>4, <1>6, <1>7, <1>8, <2>1
  <2>2. CASE K # {}
    <3>1. K \subseteq Sns
      BY <1>7
    <3>2. MaxPackets \in Nat
      BY Bounds
    <3>3. \A n \in K : Turn(f, n) <= MaxPackets
      BY <1>7, <1>8, <3>2
    <3>4. t.una \in K /\ \A o \in K : Turn(f, t.una) <= Turn(f, o)
      BY <1>6, <2>2, <3>1, <3>3, FirstOutstanding
    <3>5. t.una \in DOMAIN s.buf /\ t.una \in Sns
      BY <1>7, <3>4
    <3>6. Turn(f, s.una) <= Turn(f, t.una) /\ Turn(f, t.una) < Turn(f, s.nxt)
      BY <1>8, <3>5
    <3>7. Turn(f, t.una) \in Nat
      BY <1>7, <3>5
    <3>8. Turn(f, t.una) <= Turn(f, s.nxt)
      BY <1>7, <3>6, <3>7
    <3> QED  BY <3>4, <3>5, <3>6, <3>8
  <2> QED  BY <2>1, <2>2
<1>10. SndTypes(t)
  <2>1. BufTypes(t.buf)
    BY <1>1, <1>5 DEF BufTypes
  <2> QED  BY <1>4, <1>9, <2>1 DEF SndTypes
<1>11. Turn(f, t.nxt) <= Turn(f, t.una) + SndWnd
  <2>1. Turn(f, t.una) \in Nat /\ SndWnd \in Nat
    BY <1>9, TurnOf, Bounds
  <2> QED  BY <1>4, <1>7, <1>8, <1>9, <2>1
<1>12. SenderFits(f, b, g, t)
  BY <1>4, <1>5, <1>8, <1>9, <1>11 DEF SenderFits
<1> QED  BY <1>4, <1>5, <1>9, <1>10, <1>12

\* Counting the segments that were passed keeps the sender's shape.
LEMMA FastackFields ==
  ASSUME NEW s, SndTypes(s), NEW maxack, NEW skipped,
         NEW t, t = ikcp_parse_fastack(s, maxack, skipped)
  PROVE  /\ SndTypes(t)
         /\ t.queue = s.queue /\ t.una = s.una /\ t.nxt = s.nxt
         /\ DOMAIN t.buf = DOMAIN s.buf
         /\ \A n \in DOMAIN s.buf : t.buf[n].data = s.buf[n].data
<1> DEFINE z == [n \in DOMAIN s.buf |-> Passed(n, s.buf[n], maxack, skipped)]
<1>1. DOMAIN s = SndFields /\ BufTypes(s.buf)
  BY DEF SndTypes
<1>2. t = s \/ t = [s EXCEPT !.buf = z]
  BY DEF ikcp_parse_fastack
<1>3. CASE t = s
  BY <1>3
<1>4. CASE t = [s EXCEPT !.buf = z]
  <2>1. /\ DOMAIN t = SndFields /\ t.queue = s.queue /\ t.una = s.una /\ t.nxt = s.nxt
        /\ t.rmt_wnd = s.rmt_wnd /\ t.cwnd = s.cwnd /\ t.ssthresh = s.ssthresh
        /\ t.updated = s.updated /\ t.probing = s.probing /\ t.buf = z
    <3> HIDE DEF z
    <3> QED  BY <1>1, <1>4 DEF SndFields
  <2>2. DOMAIN t.buf = DOMAIN s.buf
    BY <2>1
  <2>3. ASSUME NEW n \in DOMAIN s.buf
        PROVE  t.buf[n] \in Sending /\ t.buf[n].data = s.buf[n].data
    <3> DEFINE e == s.buf[n]
               y == Smaller(e.fastack + 1, FastResend)
    <3>1. e \in Sending
      BY <1>1 DEF BufTypes
    <3>2. t.buf[n] = e \/ t.buf[n] = [e EXCEPT !.fastack = y]
      BY <2>1 DEF Passed
    <3>3. e.fastack \in 0..FastResend /\ DOMAIN e = {"data", "xmit", "fastack"}
      BY <3>1 DEF Sending
    <3>4. y \in 0..FastResend
      BY <3>3, FastNat DEF Smaller
    <3> HIDE DEF e, y
    <3>5. [e EXCEPT !.fastack = y] \in Sending /\ [e EXCEPT !.fastack = y].data = e.data
      BY <3>1, <3>3, <3>4 DEF Sending
    <3>6. t.buf[n] \in Sending /\ t.buf[n].data = e.data
      BY <3>1, <3>2, <3>5
    <3> QED  BY <3>6 DEF e
  <2>4. BufTypes(t.buf)
    BY <1>1, <2>2, <2>3 DEF BufTypes
  <2> QED  BY <2>1, <2>2, <2>3, <2>4 DEF SndTypes
<1> QED  BY <1>2, <1>3, <1>4

\* cwnd grows up to the receiver's window.
LEMMA GrowFields ==
  ASSUME NEW s, SndTypes(s), NEW una0, NEW more \in 0..2,
         NEW t, t = GrowCwnd(s, una0, more)
  PROVE  /\ SndTypes(t)
         /\ t.queue = s.queue /\ t.una = s.una /\ t.nxt = s.nxt /\ t.buf = s.buf
<1> DEFINE c == Smaller(s.rmt_wnd, s.cwnd + IF s.cwnd < s.ssthresh THEN 1 ELSE more)
<1>1. DOMAIN s = SndFields /\ s.cwnd \in 0..CwndMax /\ s.rmt_wnd \in 0..RcvWnd
  BY DEF SndTypes
<1>2. t = s \/ t = [s EXCEPT !.cwnd = c]
  BY DEF GrowCwnd
<1>3. CASE t = s
  BY <1>3
<1>4. CASE t = [s EXCEPT !.cwnd = c]
  <2>1. c \in 0..CwndMax
    BY <1>1, CwndBounds, Bounds DEF Smaller
  <2> HIDE DEF c
  <2>2. /\ DOMAIN t = SndFields /\ t.queue = s.queue /\ t.una = s.una /\ t.nxt = s.nxt
        /\ t.rmt_wnd = s.rmt_wnd /\ t.cwnd = c /\ t.ssthresh = s.ssthresh
        /\ t.updated = s.updated /\ t.probing = s.probing /\ t.buf = s.buf
    BY <1>1, <1>4 DEF SndFields
  <2> QED  BY <2>1, <2>2 DEF SndTypes
<1> QED  BY <1>2, <1>3, <1>4

\* What an answer makes of the sender.
InputAnswer(s, d, maxack, skipped, more) ==
  LET s1 == ikcp_shrink_buf(ikcp_parse_una([s EXCEPT !.rmt_wnd = d.wnd], d.una))
      s2 == ikcp_shrink_buf(ikcp_parse_ack(s1, d.acks))
      s3 == IF d.acks # {} THEN ikcp_parse_fastack(s2, maxack, skipped) ELSE s2
  IN GrowCwnd(s3, s.una, more)

\* An answer takes out of snd_buf what it acknowledges, and nothing else.
LEMMA Answering ==
  ASSUME NEW f \in Sns, NEW b \in Nat, NEW g \in 0..MaxPackets, NEW s,
         SndTypes(s), SenderFits(f, b, g, s), NEW d \in Answers,
         NEW maxack, NEW skipped, NEW more \in 0..2,
         NEW t, t = InputAnswer(s, d, maxack, skipped, more)
  PROVE  /\ SndTypes(t) /\ SenderFits(f, b, g, t) /\ t.nxt = s.nxt
         /\ Turn(f, s.una) <= Turn(f, t.una)
         /\ \A n : n \in DOMAIN t.buf <=>
              n \in DOMAIN s.buf /\ itimediff(d.una, n) <= 0 /\ n \notin d.acks
<1> DEFINE K1 == {n \in DOMAIN s.buf : itimediff(d.una, n) <= 0}
           s0 == [s EXCEPT !.rmt_wnd = d.wnd]
           s1 == ikcp_shrink_buf(ikcp_parse_una(s0, d.una))
           s2 == ikcp_shrink_buf(ikcp_parse_ack(s1, d.acks))
           s3 == IF d.acks # {} THEN ikcp_parse_fastack(s2, maxack, skipped) ELSE s2
<1>1. t = GrowCwnd(s3, s.una, more)
  BY DEF InputAnswer
<1> HIDE DEF s1, s2, s3
<1>2. DOMAIN s = SndFields /\ d.wnd \in 0..RcvWnd
  BY DEF SndTypes, Answers
<1>3. /\ DOMAIN s0 = SndFields /\ s0.queue = s.queue /\ s0.una = s.una /\ s0.nxt = s.nxt
      /\ s0.rmt_wnd = d.wnd /\ s0.cwnd = s.cwnd /\ s0.ssthresh = s.ssthresh
      /\ s0.updated = s.updated /\ s0.probing = s.probing /\ s0.buf = s.buf
  BY <1>2 DEF SndFields
<1>4. SndTypes(s0)
  <2> HIDE DEF s0
  <2> QED  BY <1>2, <1>3 DEF SndTypes
<1>5. SenderFits(f, b, g, s0)
  BY <1>3, SameShape
<1>6. s1 = ikcp_shrink_buf([s0 EXCEPT !.buf = Restrict(s0.buf, K1)])
  <2>1. ikcp_parse_una(s0, d.una) =
          [s0 EXCEPT !.buf = Restrict(s0.buf, {n \in DOMAIN s0.buf : itimediff(d.una, n) <= 0})]
    BY DEF ikcp_parse_una
  <2> HIDE DEF s0
  <2>2. {n \in DOMAIN s0.buf : itimediff(d.una, n) <= 0} = K1
    BY <1>3
  <2>3. s1 = ikcp_shrink_buf(ikcp_parse_una(s0, d.una))
    BY DEF s1
  <2> QED  BY <2>1, <2>2, <2>3
<1> HIDE DEF s0
<1>7. /\ SndTypes(s1) /\ SenderFits(f, b, g, s1) /\ s1.nxt = s0.nxt
      /\ DOMAIN s1.buf = K1 /\ Turn(f, s0.una) <= Turn(f, s1.una)
  <2>1. K1 \subseteq DOMAIN s0.buf
    BY <1>3
  <2> HIDE DEF K1
  <2> QED  BY <1>4, <1>5, <1>6, <2>1, Shrunk
<1>8. s2 = ikcp_shrink_buf([s1 EXCEPT !.buf = Restrict(s1.buf, DOMAIN s1.buf \ d.acks)])
  BY DEF ikcp_parse_ack, s2
<1>9. /\ SndTypes(s2) /\ SenderFits(f, b, g, s2) /\ s2.nxt = s1.nxt
      /\ DOMAIN s2.buf = K1 \ d.acks /\ Turn(f, s1.una) <= Turn(f, s2.una)
  <2>1. DOMAIN s1.buf \ d.acks \subseteq DOMAIN s1.buf
    OBVIOUS
  <2> HIDE DEF K1
  <2> QED  BY <1>7, <1>8, <2>1, Shrunk
<1>10. /\ SndTypes(s3) /\ s3.queue = s2.queue /\ s3.una = s2.una /\ s3.nxt = s2.nxt
      /\ DOMAIN s3.buf = DOMAIN s2.buf
      /\ \A n \in DOMAIN s2.buf : s3.buf[n].data = s2.buf[n].data
  <2>1. CASE s3 = s2
    BY <1>9, <2>1
  <2>2. CASE s3 = ikcp_parse_fastack(s2, maxack, skipped)
    BY <1>9, <2>2, FastackFields
  <2> QED  BY <2>1, <2>2 DEF s3
<1>11. SenderFits(f, b, g, s3)
  BY <1>9, <1>10, SameShape
<1>12. SndTypes(t) /\ t.queue = s3.queue /\ t.una = s3.una /\ t.nxt = s3.nxt /\ t.buf = s3.buf
  BY <1>10, <1>1, GrowFields
<1>13. SenderFits(f, b, g, t)
  BY <1>11, <1>12, SameShape
<1>14. Turn(f, s.una) <= Turn(f, t.una)
  <2>1. s.una \in Sns /\ s1.una \in Sns /\ s2.una \in Sns
    BY <1>7, <1>9 DEF SndTypes
  <2>2. Turn(f, s.una) \in Nat /\ Turn(f, s1.una) \in Nat /\ Turn(f, s2.una) \in Nat
    BY <2>1, TurnOf
  <2> QED  BY <1>3, <1>7, <1>9, <1>10, <1>12, <2>2
<1>15. \A n : n \in DOMAIN t.buf <=>
         n \in DOMAIN s.buf /\ itimediff(d.una, n) <= 0 /\ n \notin d.acks
  BY <1>9, <1>10, <1>12
<1> QED  BY <1>3, <1>7, <1>9, <1>10, <1>12, <1>13, <1>14, <1>15

-----------------------------------------------------------------------------
(* The receiver.                                                            *)

\* Taking an interval out of a finite set takes out that many.
LEMMA WithoutInterval ==
  ASSUME NEW W, IsFiniteSet(W), NEW a \in Nat, NEW n \in Nat, a..(a + n - 1) \subseteq W
  PROVE  /\ IsFiniteSet(W \ (a..(a + n - 1)))
         /\ n + Cardinality(W \ (a..(a + n - 1))) = Cardinality(W)
<1> DEFINE I == a..(a + n - 1)
           V == W \ I
<1>1. IsFiniteSet(I) /\ Cardinality(I) = n
  <2>1. a \in Int /\ a + n - 1 \in Int
    OBVIOUS
  <2>2. IsFiniteSet(I) /\ Cardinality(I) = IF a > a + n - 1 THEN 0 ELSE (a + n - 1) - a + 1
    BY <2>1, FS_Interval
  <2>3. (a + n - 1) - a + 1 = n /\ (a > a + n - 1 => n = 0)
    OBVIOUS
  <2> QED  BY <2>2, <2>3
<1>2. IsFiniteSet(V)
  BY FS_Subset
<1>3. V \cup I = W /\ V \cap I = {}
  OBVIOUS
<1> HIDE DEF I, V
<1>4. Cardinality(V \cup I) = Cardinality(V) + Cardinality(I) - Cardinality(V \cap I)
  BY <1>1, <1>2, FS_Union
<1>5. Cardinality(V) \in Nat /\ Cardinality({}) = 0
  BY <1>2, FS_CardinalityType, FS_EmptySet
<1>6. n + Cardinality(V) = Cardinality(W)
  <2> DEFINE c == Cardinality(V)
             w == Cardinality(W)
  <2>1. w = c + n - 0 /\ c \in Nat
    BY <1>1, <1>3, <1>4, <1>5
  <2> HIDE DEF c, w
  <2>2. n + c = w
    BY <2>1
  <2> QED  BY <2>2 DEF c, w
<1> QED  BY <1>2, <1>6 DEF I, V

\* There is one number of segments that move up: as many as follow on, no more.
LEMMA MovesSome ==
  ASSUME NEW r, Len(r.queue) \in Nat
  PROVE  \E k \in 0..RcvWnd : Movable(r, k) /\ ~Movable(r, k + 1)
<1> DEFINE U == {k \in Nat : ~Movable(r, k + 1)}
<1>1. RcvWnd \in Nat
  BY Bounds
<1>2. RcvWnd \in U
  <2>1. RcvWnd \in 0..((RcvWnd + 1) - 1) /\ ~(Len(r.queue) + RcvWnd < RcvWnd)
    BY <1>1
  <2> QED  BY <1>1, <2>1 DEF Movable
<1>3. Min(U) \in U /\ \A y \in U : Min(U) <= y
  <2>1. U \subseteq Nat
    OBVIOUS
  <2> HIDE DEF U
  <2> QED  BY <1>2, <2>1, MinProperties
<1>4. PICK k \in U : \A y \in U : k <= y
  BY <1>3
<1>5. k \in 0..RcvWnd
  BY <1>1, <1>2, <1>4
<1>6. Movable(r, k)
  <2>1. CASE k = 0
    <3>1. 0..(k - 1) = {}
      BY <2>1
    <3> QED  BY <3>1 DEF Movable
  <2>2. CASE k # 0
    <3>1. k - 1 \in Nat /\ ~(k <= k - 1) /\ (k - 1) + 1 = k
      BY <1>5, <2>2
    <3>2. k - 1 \notin U
      BY <1>4, <3>1
    <3> QED  BY <3>1, <3>2
  <2> QED  BY <2>1, <2>2
<1> QED  BY <1>4, <1>5, <1>6

\* t is r when its next n segments have moved up.
MovesTo(r, t, n) ==
  /\ Movable(r, n) /\ ~Movable(r, n + 1)
  /\ DOMAIN t = RcvFields
  /\ t.queue = r.queue \o [j \in 1..n |-> r.buf[(r.nxt + j - 1) % SnMod]]
  /\ t.buf = Restrict(r.buf, DOMAIN r.buf \ Following(r.nxt, n))
  /\ t.nxt = (r.nxt + n) % SnMod
  /\ t.acklist = r.acklist /\ t.tell = r.tell /\ t.read = r.read

LEMMA MoveFields ==
  ASSUME NEW r, RcvTypes(r)
  PROVE  \E n \in 0..RcvWnd : MovesTo(r, MoveToQueue(r), n)
<1> DEFINE n == CHOOSE k \in 0..RcvWnd : Movable(r, k) /\ ~Movable(r, k + 1)
           z == [j \in 1..n |-> r.buf[(r.nxt + j - 1) % SnMod]]
           t == MoveToQueue(r)
<1>1. DOMAIN r = RcvFields /\ Len(r.queue) \in Nat
  BY LenProperties DEF RcvTypes
<1>2. n \in 0..RcvWnd /\ Movable(r, n) /\ ~Movable(r, n + 1)
  BY <1>1, MovesSome
<1>3. t = [r EXCEPT !.queue = r.queue \o z,
                    !.buf = Restrict(r.buf, DOMAIN r.buf \ Following(r.nxt, n)),
                    !.nxt = (r.nxt + n) % SnMod]
  BY DEF MoveToQueue
<1> HIDE DEF n, z, t
<1>4. /\ DOMAIN t = RcvFields /\ t.queue = r.queue \o z
      /\ t.buf = Restrict(r.buf, DOMAIN r.buf \ Following(r.nxt, n))
      /\ t.nxt = (r.nxt + n) % SnMod
      /\ t.acklist = r.acklist /\ t.tell = r.tell /\ t.read = r.read
  BY <1>1, <1>3 DEF RcvFields
<1>5. MovesTo(r, t, n)
  BY <1>2, <1>4 DEF MovesTo, z
<1> QED  BY <1>2, <1>5 DEF t

\* The places the receiver uses.
LEMMA ReceiverPlaces ==
  ASSUME NEW f \in Sns, NEW b \in Nat, NEW m \in 0..MaxPackets, NEW r,
         RcvTypes(r), ReceiverFits(f, b, m, r)
  PROVE  /\ r.nxt \in Sns /\ Turn(f, r.nxt) \in Nat /\ Turn(f, r.nxt) <= MaxPackets
         /\ m \in Nat /\ m <= MaxPackets
         /\ Len(r.queue) \in Nat /\ Len(r.read) \in Nat
         /\ \A n \in DOMAIN r.buf : n \in Sns /\ Turn(f, n) \in Nat
         /\ \A k \in 0..RcvWnd :
              /\ (r.nxt + k) % SnMod \in Sns
              /\ Turn(f, (r.nxt + k) % SnMod) = Turn(f, r.nxt) + k
<1>1. r.nxt \in Sns /\ Len(r.queue) \in Nat /\ Len(r.read) \in Nat /\ DOMAIN r.buf \subseteq Sns
  BY LenProperties DEF RcvTypes
<1>2. Turn(f, r.nxt) \in Nat /\ \A n \in DOMAIN r.buf : n \in Sns /\ Turn(f, n) \in Nat
  BY <1>1, TurnOf
<1>3. Turn(f, r.nxt) <= m
  BY DEF ReceiverFits
<1>4. MaxPackets \in Nat /\ RcvWnd \in Nat /\ MaxPackets + RcvWnd < SnMod /\ SnMod \in Nat
  BY Bounds
<1>5. m \in Nat /\ m <= MaxPackets
  BY <1>4
<1>6. Turn(f, r.nxt) <= MaxPackets
  BY <1>2, <1>3, <1>4, <1>5
<1>7. ASSUME NEW k \in 0..RcvWnd
      PROVE  /\ (r.nxt + k) % SnMod \in Sns
             /\ Turn(f, (r.nxt + k) % SnMod) = Turn(f, r.nxt) + k
  <2>1. k \in Nat /\ Turn(f, r.nxt) + k < SnMod
    BY <1>2, <1>4, <1>6
  <2> QED  BY <1>1, <2>1, TurnAhead
<1> QED  BY <1>1, <1>2, <1>5, <1>6, <1>7

\* A sequence of packets given place by place.
LEMMA PacketSeq ==
  ASSUME NEW n \in Nat, NEW z, z = [j \in 1..n |-> z[j]], \A j \in 1..n : z[j] \in Packets
  PROVE  z \in Seq(Packets) /\ Len(z) = n
<1>1. z \in [1..n -> Packets]
  OBVIOUS
<1> QED  BY <1>1

\* Segments that follow on move to the queue, as many as it takes; the receiver keeps its
\* shape, and what it has received.
LEMMA Moved ==
  ASSUME NEW f \in Sns, NEW b \in Nat, NEW m \in 0..MaxPackets, NEW r,
         RcvTypes(r), ReceiverFits(f, b, m, r), NEW t, t = MoveToQueue(r)
  PROVE  /\ RcvTypes(t) /\ ReceiverFits(f, b, m, t)
         /\ t.acklist = r.acklist /\ t.tell = r.tell /\ t.read = r.read
         /\ Turn(f, r.nxt) <= Turn(f, t.nxt) /\ Len(r.queue) <= Len(t.queue)
         /\ \A x \in Sns : Received(f, t, x) <=> Received(f, r, x)
         /\ t.nxt \notin DOMAIN t.buf \/ Len(t.queue) = RcvWnd
         /\ IsFiniteSet(Waiting(f, r)) =>
              /\ IsFiniteSet(Waiting(f, t))
              /\ Len(t.queue) + Cardinality(Waiting(f, t))
                   = Len(r.queue) + Cardinality(Waiting(f, r))
<1>0. PICK n \in 0..RcvWnd : MovesTo(r, t, n)
  BY MoveFields
<1> DEFINE w == Turn(f, r.nxt)
           l == Len(r.queue)
           z == [j \in 1..n |-> r.buf[(r.nxt + j - 1) % SnMod]]
<1>1. /\ t.queue = r.queue \o z
      /\ t.buf = Restrict(r.buf, DOMAIN r.buf \ Following(r.nxt, n))
      /\ t.nxt = (r.nxt + n) % SnMod
      /\ t.acklist = r.acklist /\ t.tell = r.tell /\ t.read = r.read
      /\ DOMAIN t = RcvFields
  BY <1>0 DEF MovesTo
<1>2. /\ r.nxt \in Sns /\ w \in Nat /\ w <= MaxPackets /\ m \in Nat /\ m <= MaxPackets
      /\ l \in Nat /\ Len(r.read) \in Nat
      /\ \A x \in DOMAIN r.buf : x \in Sns /\ Turn(f, x) \in Nat
  BY ReceiverPlaces
<1>3. \A k \in 0..RcvWnd : /\ (r.nxt + k) % SnMod \in Sns
                           /\ Turn(f, (r.nxt + k) % SnMod) = w + k
  BY ReceiverPlaces
<1>4. RcvWnd \in Nat /\ MaxPackets \in Nat /\ SnMod \in Nat /\ MaxPackets + RcvWnd < SnMod
      /\ n \in Nat /\ n <= RcvWnd
  BY Bounds
<1>5. /\ Len(r.read) + l = b + w
      /\ \A k \in 1..Len(r.read) : r.read[k] = k
      /\ \A k \in 1..l : r.queue[k] = Len(r.read) + k
      /\ w <= m /\ l <= RcvWnd
  BY DEF ReceiverFits
<1>6. \A x \in DOMAIN r.buf : /\ r.buf[x] = PacketOf(f, b, x)
                              /\ w <= Turn(f, x) /\ Turn(f, x) < m
                              /\ Turn(f, x) < w + RcvWnd
  BY DEF ReceiverFits
<1>7. t.nxt \in Sns /\ Turn(f, t.nxt) = w + n
  BY <1>1, <1>3, <1>4
<1>8. \A j \in 0..(n - 1) : (r.nxt + j) % SnMod \in DOMAIN r.buf /\ l + j < RcvWnd
  BY <1>0 DEF MovesTo, Movable
<1>9. \A x : x \in Following(r.nxt, n) <=> x \in Sns /\ w <= Turn(f, x) /\ Turn(f, x) < w + n
  <2>1. w + n <= SnMod
    <3>1. w \in Nat /\ w <= MaxPackets
      BY <1>2
    <3> HIDE DEF w
    <3> QED  BY <1>4, <3>1
  <2> QED  BY <1>2, <1>4, <2>1, NumbersFrom
<1>10. w + n <= m /\ l + n <= RcvWnd
  <2>1. CASE n = 0
    BY <1>2, <1>5, <2>1
  <2>2. CASE n # 0
    <3> DEFINE x == (r.nxt + (n - 1)) % SnMod
    <3>1. n - 1 \in 0..(n - 1) /\ n - 1 \in 0..RcvWnd
      BY <1>4, <2>2
    <3>2. x \in DOMAIN r.buf /\ l + (n - 1) < RcvWnd /\ Turn(f, x) = w + (n - 1)
      BY <1>3, <1>8, <3>1
    <3>3. w + (n - 1) < m
      BY <1>6, <3>2
    <3> HIDE DEF x, w, l
    <3> QED  BY <1>2, <1>4, <3>2, <3>3
  <2> QED  BY <2>1, <2>2
<1>11. DOMAIN t.buf = DOMAIN r.buf \ Following(r.nxt, n)
       /\ \A x \in DOMAIN t.buf : t.buf[x] = r.buf[x]
  BY <1>1 DEF Restrict
<1>12. \A x : x \in DOMAIN t.buf <=> x \in DOMAIN r.buf /\ w + n <= Turn(f, x)
  <2>1. ASSUME NEW x \in DOMAIN r.buf
        PROVE  x \in Following(r.nxt, n) <=> ~(w + n <= Turn(f, x))
    <3>1. x \in Sns /\ Turn(f, x) \in Nat /\ w <= Turn(f, x) /\ w \in Nat
      BY <1>2, <1>6
    <3>2. x \in Following(r.nxt, n) <=> Turn(f, x) < w + n
      BY <1>9, <3>1
    <3> HIDE DEF w
    <3> QED  BY <1>4, <3>1, <3>2
  <2> QED  BY <1>11, <2>1
<1>13. \A j \in 1..n : z[j] = b + w + j /\ z[j] \in Packets
  <2> TAKE j \in 1..n
  <2>1. j - 1 \in 0..(n - 1) /\ j - 1 \in 0..RcvWnd /\ r.nxt + j - 1 = r.nxt + (j - 1)
    BY <1>2, <1>4 DEF Sns
  <2>2. (r.nxt + (j - 1)) % SnMod \in DOMAIN r.buf
        /\ Turn(f, (r.nxt + (j - 1)) % SnMod) = w + (j - 1)
    BY <1>3, <1>8, <2>1
  <2>3. z[j] = b + (w + (j - 1)) + 1
    BY <1>6, <2>1, <2>2 DEF PacketOf
  <2>4. z[j] \in Packets
    BY <2>1, <2>2 DEF RcvTypes
  <2>5. b + (w + (j - 1)) + 1 = b + w + j
    <3>1. w \in Nat
      BY <1>2
    <3> HIDE DEF w
    <3> QED  BY <3>1
  <2> QED  BY <2>3, <2>4, <2>5
<1>14. z \in Seq(Packets) /\ Len(z) = n
  <2>1. z = [j \in 1..n |-> z[j]]
    OBVIOUS
  <2> HIDE DEF z
  <2> QED  BY <1>4, <1>13, <2>1, PacketSeq
<1>15. /\ t.queue \in Seq(Packets) /\ Len(t.queue) = l + n
       /\ \A k \in 1..(l + n) : t.queue[k] = IF k <= l THEN r.queue[k] ELSE z[k - l]
  <2> HIDE DEF z
  <2>1. r.queue \in Seq(Packets)
    BY DEF RcvTypes
  <2>2. /\ r.queue \o z \in Seq(Packets)
        /\ Len(r.queue \o z) = l + Len(z)
        /\ \A k \in 1..(l + Len(z)) :
             (r.queue \o z)[k] = IF k <= l THEN r.queue[k] ELSE z[k - l]
    BY <1>14, <2>1, ConcatProperties
  <2> HIDE DEF l
  <2> QED  BY <1>1, <1>14, <2>2
<1>16. \A k \in 1..(l + n) : t.queue[k] = Len(r.read) + k
  <2> TAKE k \in 1..(l + n)
  <2>1. CASE k <= l
    <3>1. k \in 1..l
      BY <1>2, <2>1
    <3> QED  BY <1>5, <1>15, <2>1, <3>1
  <2>2. CASE ~(k <= l)
    <3>1. k - l \in 1..n
      BY <1>2, <1>4, <2>2
    <3>2. t.queue[k] = b + w + (k - l)
      BY <1>13, <1>15, <2>2, <3>1
    <3>3. w \in Nat /\ l \in Nat /\ Len(r.read) \in Nat /\ Len(r.read) + l = b + w
      BY <1>2, <1>5
    <3> DEFINE o == Len(r.read)
    <3> HIDE DEF w, l, o
    <3>4. o + l = b + w /\ o \in Nat /\ w \in Nat /\ l \in Nat
      BY <3>3 DEF o
    <3>5. b + w + (k - l) = o + k
      BY <3>4
    <3> QED  BY <3>2, <3>5 DEF o
  <2> QED  BY <2>1, <2>2
<1>17. RcvTypes(t)
  <2>1. DOMAIN t.buf \subseteq Sns /\ \A x \in DOMAIN t.buf : t.buf[x] \in Packets
    BY <1>11 DEF RcvTypes
  <2> QED  BY <1>1, <1>7, <1>15, <2>1 DEF RcvTypes
<1>18. ReceiverFits(f, b, m, t)
  <2>1. /\ Len(t.read) + Len(t.queue) = b + Turn(f, t.nxt)
    <3> DEFINE o == Len(r.read)
    <3>1. o \in Nat /\ w \in Nat /\ l \in Nat /\ o + l = b + w
      BY <1>2, <1>5
    <3>2. Len(t.read) = o /\ Len(t.queue) = l + n /\ Turn(f, t.nxt) = w + n
      BY <1>1, <1>7, <1>15
    <3> HIDE DEF o, w, l
    <3> QED  BY <1>4, <3>1, <3>2
  <2>2. /\ \A k \in 1..Len(t.read) : t.read[k] = k
        /\ \A k \in 1..Len(t.queue) : t.queue[k] = Len(t.read) + k
    BY <1>1, <1>5, <1>15, <1>16
  <2>3. Turn(f, t.nxt) <= m /\ Len(t.queue) <= RcvWnd
    BY <1>7, <1>10, <1>15
  <2>4. ASSUME NEW x \in DOMAIN t.buf
        PROVE  /\ t.buf[x] = PacketOf(f, b, x)
               /\ Turn(f, t.nxt) <= Turn(f, x) /\ Turn(f, x) < m
               /\ Turn(f, x) < Turn(f, t.nxt) + RcvWnd
    <3>1. x \in DOMAIN r.buf /\ w + n <= Turn(f, x) /\ t.buf[x] = r.buf[x]
      BY <1>11, <1>12
    <3>2. /\ r.buf[x] = PacketOf(f, b, x) /\ Turn(f, x) < m /\ Turn(f, x) < w + RcvWnd
          /\ Turn(f, x) \in Nat /\ w \in Nat
      BY <1>2, <1>6, <3>1
    <3>3. Turn(f, x) < (w + n) + RcvWnd
      <4> HIDE DEF w
      <4> QED  BY <1>4, <3>2
    <3> QED  BY <1>7, <3>1, <3>2, <3>3
  <2> QED  BY <2>1, <2>2, <2>3, <2>4 DEF ReceiverFits
<1>19. Turn(f, r.nxt) <= Turn(f, t.nxt) /\ Len(r.queue) <= Len(t.queue)
  BY <1>2, <1>4, <1>7, <1>15
<1>20. ASSUME NEW x \in Sns
       PROVE  Received(f, t, x) <=> Received(f, r, x)
  <2>1. Turn(f, x) \in Nat /\ w \in Nat
    BY <1>2, TurnOf
  <2>2. (w <= Turn(f, x) /\ Turn(f, x) < w + n) => x \in DOMAIN r.buf
    <3> SUFFICES ASSUME w <= Turn(f, x), Turn(f, x) < w + n
                 PROVE  x \in DOMAIN r.buf
      OBVIOUS
    <3>1. x \in Following(r.nxt, n)
      BY <1>9
    <3>2. PICK k \in 0..(n - 1) : x = (r.nxt + k) % SnMod
      BY <3>1 DEF Following
    <3> QED  BY <1>8, <3>2
  <2>3. Received(f, r, x) <=> Turn(f, x) < w \/ x \in DOMAIN r.buf
    BY DEF Received
  <2>4. Received(f, t, x) <=> Turn(f, x) < w + n \/ (x \in DOMAIN r.buf /\ w + n <= Turn(f, x))
    BY <1>7, <1>12 DEF Received
  <2> HIDE DEF w
  <2>5. Turn(f, x) < w => Turn(f, x) < w + n
    BY <1>4, <2>1
  <2>6. Turn(f, x) < w + n \/ w + n <= Turn(f, x)
    BY <1>4, <2>1
  <2>7. Turn(f, x) < w \/ w <= Turn(f, x)
    BY <2>1
  <2> QED  BY <2>2, <2>3, <2>4, <2>5, <2>6, <2>7
<1>21. t.nxt \notin DOMAIN t.buf \/ Len(t.queue) = RcvWnd
  <2>1. ~Movable(r, n + 1)
    BY <1>0 DEF MovesTo
  <2>2. PICK j \in 0..((n + 1) - 1) : ~((r.nxt + j) % SnMod \in DOMAIN r.buf /\ l + j < RcvWnd)
    BY <2>1 DEF Movable
  <2>3. j = n
    <3>1. j \notin 0..(n - 1)
      BY <1>8, <2>2
    <3> QED  BY <1>4, <3>1
  <2>4. t.nxt \notin DOMAIN r.buf \/ ~(l + n < RcvWnd)
    BY <1>1, <2>2, <2>3
  <2>5. ~(l + n < RcvWnd) => l + n = RcvWnd
    <3>1. l \in Nat
      BY <1>2
    <3> HIDE DEF l
    <3> QED  BY <1>4, <1>10, <3>1
  <2> QED  BY <1>11, <1>15, <2>4, <2>5
<1>22. ASSUME IsFiniteSet(Waiting(f, r))
       PROVE  /\ IsFiniteSet(Waiting(f, t))
              /\ Len(t.queue) + Cardinality(Waiting(f, t)) = l + Cardinality(Waiting(f, r))
  <2> DEFINE W == Waiting(f, r)
             I == w..(w + n - 1)
  <2>1. I \subseteq W
    <3> SUFFICES ASSUME NEW y \in I
                 PROVE  y \in W
      OBVIOUS
    <3>1. w \in Nat /\ y \in Nat /\ w <= y /\ y <= w + n - 1
      BY <1>2, <1>4
    <3> DEFINE k == y - w
    <3>2. k \in 0..(n - 1) /\ k \in 0..RcvWnd /\ w + k = y
      <4> HIDE DEF w
      <4> QED  BY <1>4, <3>1
    <3> HIDE DEF k
    <3>3. (r.nxt + k) % SnMod \in DOMAIN r.buf /\ Turn(f, (r.nxt + k) % SnMod) = y
      BY <1>3, <1>8, <3>2
    <3> QED  BY <3>3 DEF Waiting
  <2>2. Waiting(f, t) = W \ I
    <3>1. ASSUME NEW x \in DOMAIN r.buf
          PROVE  x \in DOMAIN t.buf <=> Turn(f, x) \notin I
      <4>1. Turn(f, x) \in Nat /\ w \in Nat /\ w <= Turn(f, x)
        BY <1>2, <1>6
      <4>2. Turn(f, x) \notin I <=> w + n <= Turn(f, x)
        <5> HIDE DEF w
        <5> QED  BY <1>4, <4>1
      <4> QED  BY <1>12, <4>2
    <3>2. DOMAIN t.buf \subseteq DOMAIN r.buf
      BY <1>11
    <3> HIDE DEF I
    <3>3. \A y \in Waiting(f, t) : y \in W \ I
      BY <3>1, <3>2 DEF Waiting
    <3>4. \A y \in W \ I : y \in Waiting(f, t)
      BY <3>1 DEF Waiting
    <3> QED  BY <3>3, <3>4
  <2>3. IsFiniteSet(W \ I) /\ n + Cardinality(W \ I) = Cardinality(W)
    <3>1. w \in Nat
      BY <1>2
    <3> HIDE DEF W, w
    <3> QED  BY <1>4, <1>22, <2>1, <3>1, WithoutInterval DEF W
  <2> DEFINE c == Cardinality(W \ I)
             d == Cardinality(W)
  <2>4. Len(t.queue) = l + n /\ Cardinality(Waiting(f, t)) = c /\ n + c = d /\ l \in Nat
    BY <1>2, <1>15, <2>2, <2>3
  <2>5. c \in Nat
    BY <2>3, FS_CardinalityType
  <2> HIDE DEF c, d, l, W, I
  <2>6. (l + n) + c = l + d
    BY <1>4, <2>4, <2>5
  <2> QED  BY <2>2, <2>3, <2>4, <2>6 DEF d, W
<1> QED  BY <1>1, <1>17, <1>18, <1>19, <1>20, <1>21, <1>22

\* A segment of the window takes its place.
LEMMA Inserted ==
  ASSUME NEW f \in Sns, NEW b \in Nat, NEW m \in 0..MaxPackets, NEW r,
         RcvTypes(r), ReceiverFits(f, b, m, r),
         NEW sn \in Sns, NEW p \in Packets, p = PacketOf(f, b, sn),
         Turn(f, r.nxt) <= Turn(f, sn), Turn(f, sn) < m, Turn(f, sn) < Turn(f, r.nxt) + RcvWnd,
         NEW t, t = InsertSegment(r, sn, p)
  PROVE  /\ RcvTypes(t) /\ ReceiverFits(f, b, m, t)
         /\ t.nxt = r.nxt /\ t.queue = r.queue /\ t.read = r.read /\ t.acklist = r.acklist
         /\ DOMAIN t.buf = DOMAIN r.buf \cup {sn}
         /\ Waiting(f, t) = Waiting(f, r) \cup {Turn(f, sn)}
<1>1. DOMAIN r = RcvFields
  BY DEF RcvTypes
<1>2. /\ DOMAIN t = RcvFields /\ t.nxt = r.nxt /\ t.queue = r.queue /\ t.read = r.read
      /\ t.acklist = r.acklist /\ t.tell = r.tell
  BY <1>1 DEF InsertSegment, RcvFields
<1>3. /\ DOMAIN t.buf = DOMAIN r.buf \cup {sn}
      /\ \A n \in DOMAIN r.buf : n # sn => t.buf[n] = r.buf[n]
      /\ t.buf[sn] = p
  <2>1. CASE sn \in DOMAIN r.buf
    <3>1. t = r /\ r.buf[sn] = p
      BY <2>1 DEF InsertSegment, ReceiverFits
    <3> QED  BY <2>1, <3>1
  <2>2. CASE sn \notin DOMAIN r.buf
    <3> DEFINE z == [n \in DOMAIN r.buf \cup {sn} |-> IF n = sn THEN p ELSE r.buf[n]]
    <3>1. t = [r EXCEPT !.buf = z]
      BY <2>2 DEF InsertSegment
    <3>2. t.buf = z
      <4> HIDE DEF z
      <4> QED  BY <1>1, <3>1 DEF RcvFields
    <3> QED  BY <3>2
  <2> QED  BY <2>1, <2>2
<1>4. RcvTypes(t)
  <2>1. DOMAIN t.buf \subseteq Sns /\ \A n \in DOMAIN t.buf : t.buf[n] \in Packets
    BY <1>3 DEF RcvTypes
  <2> QED  BY <1>2, <2>1 DEF RcvTypes
<1>5. ReceiverFits(f, b, m, t)
  <2>1. ASSUME NEW n \in DOMAIN t.buf
        PROVE  /\ t.buf[n] = PacketOf(f, b, n)
               /\ Turn(f, r.nxt) <= Turn(f, n) /\ Turn(f, n) < m
               /\ Turn(f, n) < Turn(f, r.nxt) + RcvWnd
    <3>1. CASE n = sn
      BY <1>3, <3>1
    <3>2. CASE n # sn
      BY <1>3, <3>2 DEF ReceiverFits
    <3> QED  BY <3>1, <3>2
  <2> QED  BY <1>2, <2>1 DEF ReceiverFits
<1>6. Waiting(f, t) = Waiting(f, r) \cup {Turn(f, sn)}
  BY <1>3 DEF Waiting
<1> QED  BY <1>2, <1>3, <1>4, <1>5, <1>6

\* Before rcv_nxt comes, less than a window of segments waits for it.
LEMMA WaitingForNext ==
  ASSUME NEW f \in Sns, NEW b \in Nat, NEW m \in 0..MaxPackets, NEW r,
         RcvTypes(r), ReceiverFits(f, b, m, r), r.nxt \notin DOMAIN r.buf
  PROVE  Cardinality(Waiting(f, r)) <= RcvWnd - 1
<1> DEFINE w == Turn(f, r.nxt)
           I == (w + 1)..(w + RcvWnd - 1)
<1>1. /\ r.nxt \in Sns /\ w \in Nat /\ RcvWnd \in Nat /\ RcvWnd >= 1
      /\ \A n \in DOMAIN r.buf : n \in Sns /\ Turn(f, n) \in Nat
  BY ReceiverPlaces, Bounds
<1>2. Waiting(f, r) \subseteq I
  <2> SUFFICES ASSUME NEW n \in DOMAIN r.buf
               PROVE  Turn(f, n) \in I
    BY DEF Waiting
  <2>1. n \in Sns /\ Turn(f, n) \in Nat /\ w <= Turn(f, n) /\ Turn(f, n) < w + RcvWnd
    BY <1>1 DEF ReceiverFits
  <2>2. Turn(f, n) # w
    <3>1. n # r.nxt
      OBVIOUS
    <3> QED  BY <1>1, <2>1, <3>1, TurnOf
  <2> HIDE DEF w
  <2> QED  BY <1>1, <2>1, <2>2
<1>3. IsFiniteSet(I) /\ Cardinality(I) = RcvWnd - 1
  <2>1. w + 1 \in Int /\ w + RcvWnd - 1 \in Int
    BY <1>1
  <2>2. IsFiniteSet(I) /\ Cardinality(I) =
          IF w + 1 > w + RcvWnd - 1 THEN 0 ELSE (w + RcvWnd - 1) - (w + 1) + 1
    BY <2>1, FS_Interval
  <2>3. /\ (w + RcvWnd - 1) - (w + 1) + 1 = RcvWnd - 1
        /\ w + 1 > w + RcvWnd - 1 => RcvWnd - 1 = 0
    <3>1. w \in Nat /\ RcvWnd \in Nat /\ RcvWnd >= 1
      BY <1>1
    <3> HIDE DEF w
    <3> QED  BY <3>1
  <2> QED  BY <2>2, <2>3
<1> HIDE DEF I
<1> QED  BY <1>2, <1>3, FS_Subset

\* What a step of the receiver from r to t keeps.
GoesOn(f, b, m, r, t) ==
  /\ RcvTypes(t) /\ ReceiverFits(f, b, m, t)
  /\ Turn(f, r.nxt) <= Turn(f, t.nxt)
  /\ \A x \in Sns : Received(f, r, x) => Received(f, t, x)
  /\ \A x \in t.acklist : x \in r.acklist \/ Received(f, t, x)

\* A PUSH is kept or not; the receiver keeps its shape, acknowledges only what it has,
\* and goes on to read if there is something to read.
LEMMA Pushed ==
  ASSUME NEW f \in Sns, NEW b \in Nat, NEW m \in 0..MaxPackets, NEW r,
         RcvTypes(r), ReceiverFits(f, b, m, r), NEW h, Rests(h, f, r),
         NEW d, d.sn \in Sns, d.data \in Packets, d.data = PacketOf(f, b, d.sn),
         Turn(f, d.sn) < m, NEW t, t = InputPush(r, d)
  PROVE  /\ GoesOn(f, b, m, r, t) /\ t.read = r.read
         /\ t.queue # <<>> => Reads(f, t)
         /\ t.queue = <<>> => Rests(h, f, t)
<1> DEFINE w == Turn(f, r.nxt)
           u == [r EXCEPT !.acklist = r.acklist \cup {d.sn}]
           v == InsertSegment(u, d.sn, d.data)
           top == (r.nxt + RcvWnd) % SnMod
<1>1. /\ r.nxt \in Sns /\ w \in Nat /\ w <= MaxPackets /\ m \in Nat /\ m <= MaxPackets
      /\ Len(r.queue) \in Nat
      /\ \A k \in 0..RcvWnd : (r.nxt + k) % SnMod \in Sns /\ Turn(f, (r.nxt + k) % SnMod) = w + k
  BY ReceiverPlaces
<1>2. /\ RcvWnd \in Nat /\ RcvWnd >= 1 /\ MaxPackets \in Nat /\ Half \in Nat
      /\ MaxPackets + RcvWnd <= Half
  BY Bounds
<1>3. Turn(f, d.sn) \in Nat
  BY TurnOf
<1>4. top \in Sns /\ Turn(f, top) = w + RcvWnd
  BY <1>1, <1>2
<1>5. itimediff(d.sn, r.nxt) = Turn(f, d.sn) - w
  <2>1. Turn(f, d.sn) - w < Half /\ w - Turn(f, d.sn) <= Half
    <3>1. w \in Nat /\ w <= MaxPackets /\ m \in Nat /\ m <= MaxPackets
      BY <1>1
    <3> HIDE DEF w
    <3> QED  BY <1>2, <1>3, <3>1
  <2> QED  BY <1>1, <2>1, DiffOfPlaces
<1>6. itimediff(d.sn, top) = Turn(f, d.sn) - (w + RcvWnd)
  <2>1. Turn(f, d.sn) - Turn(f, top) < Half /\ Turn(f, top) - Turn(f, d.sn) <= Half
    <3>1. w \in Nat /\ w <= MaxPackets /\ m \in Nat /\ m <= MaxPackets
      BY <1>1
    <3> HIDE DEF w, top
    <3> QED  BY <1>2, <1>3, <1>4, <3>1
  <2>2. itimediff(d.sn, top) = Turn(f, d.sn) - Turn(f, top)
    BY <1>4, <2>1, DiffOfPlaces
  <2> QED  BY <1>4, <2>2
<1>7. /\ RcvTypes(u) /\ ReceiverFits(f, b, m, u)
      /\ u.nxt = r.nxt /\ u.queue = r.queue /\ u.read = r.read /\ u.buf = r.buf
      /\ u.acklist = r.acklist \cup {d.sn} /\ Waiting(f, u) = Waiting(f, r)
  <2>1. DOMAIN r = RcvFields
    BY DEF RcvTypes
  <2>2. /\ DOMAIN u = RcvFields
        /\ u.nxt = r.nxt /\ u.queue = r.queue /\ u.read = r.read /\ u.buf = r.buf
        /\ u.acklist = r.acklist \cup {d.sn} /\ u.tell = r.tell
    BY <2>1 DEF RcvFields
  <2> HIDE DEF u
  <2>3. RcvTypes(u)
    BY <2>2 DEF RcvTypes
  <2>4. ReceiverFits(f, b, m, u) /\ Waiting(f, u) = Waiting(f, r)
    BY <2>2 DEF ReceiverFits, Waiting
  <2> QED  BY <2>2, <2>3, <2>4
<1>8. \/ t = r
      \/ itimediff(d.sn, r.nxt) < 0 /\ t = u
      \/ /\ itimediff(d.sn, top) < 0 /\ ~(itimediff(d.sn, r.nxt) < 0)
         /\ t = MoveToQueue(v)
  BY DEF InputPush, InWindow
<1> HIDE DEF u
<1>9. ASSUME NEW a, a \in {r, u}, t = a
      PROVE  (t.queue # <<>> => Reads(f, t)) /\ Rests(h, f, t)
  <2>1. /\ t.nxt = r.nxt /\ t.queue = r.queue /\ t.buf = r.buf /\ Waiting(f, t) = Waiting(f, r)
    BY <1>7, <1>9
  <2>2. /\ r.nxt \notin DOMAIN r.buf /\ IsFiniteSet(Waiting(f, r))
        /\ Len(r.queue) + Cardinality(Waiting(f, r)) <= RcvWnd
    BY DEF Rests
  <2>3. Len(r.queue) + Cardinality(Waiting(f, r)) <= RcvWnd + 1
    <3> DEFINE c == Cardinality(Waiting(f, r))
    <3>1. c \in Nat
      BY <2>2, FS_CardinalityType
    <3> HIDE DEF c
    <3>2. Len(r.queue) + c <= RcvWnd
      BY <2>2 DEF c
    <3>3. Len(r.queue) + c <= RcvWnd + 1
      BY <1>1, <1>2, <3>1, <3>2
    <3> QED  BY <3>3 DEF c
  <2> QED  BY <2>1, <2>2, <2>3 DEF Reads, Rests
<1>10. CASE t = r
  BY <1>1, <1>9, <1>10 DEF GoesOn
<1>11. CASE itimediff(d.sn, r.nxt) < 0 /\ t = u
  <2>1. Received(f, t, d.sn)
    <3>1. Turn(f, d.sn) < w
      <4>1. w \in Nat
        BY <1>1
      <4> HIDE DEF w
      <4> QED  BY <1>3, <1>5, <1>11, <4>1
    <3> QED  BY <1>7, <1>11, <3>1 DEF Received
  <2>2. \A x \in Sns : Received(f, r, x) => Received(f, t, x)
    BY <1>7, <1>11 DEF Received
  <2> QED  BY <1>1, <1>7, <1>9, <1>11, <2>1, <2>2 DEF GoesOn
<1>12. CASE /\ itimediff(d.sn, top) < 0 /\ ~(itimediff(d.sn, r.nxt) < 0)
            /\ t = MoveToQueue(v)
  <2>1. w <= Turn(f, d.sn) /\ Turn(f, d.sn) < w + RcvWnd
    <3>1. w \in Nat
      BY <1>1
    <3> HIDE DEF w
    <3> QED  BY <1>2, <1>3, <1>5, <1>6, <1>12, <3>1
  <2>2. /\ RcvTypes(v) /\ ReceiverFits(f, b, m, v)
        /\ v.nxt = r.nxt /\ v.queue = r.queue /\ v.read = r.read /\ v.acklist = u.acklist
        /\ DOMAIN v.buf = DOMAIN r.buf \cup {d.sn}
        /\ Waiting(f, v) = Waiting(f, r) \cup {Turn(f, d.sn)}
    BY <1>7, <2>1, Inserted
  <2> HIDE DEF v
  <2>3. /\ RcvTypes(t) /\ ReceiverFits(f, b, m, t)
        /\ t.acklist = v.acklist /\ t.read = v.read
        /\ Turn(f, v.nxt) <= Turn(f, t.nxt)
    BY <1>12, <2>2, Moved
  <2>4. \A x \in Sns : Received(f, t, x) <=> Received(f, v, x)
    BY <1>12, <2>2, Moved
  <2>5. t.nxt \notin DOMAIN t.buf \/ Len(t.queue) = RcvWnd
    BY <1>12, <2>2, Moved
  <2>6. \A x \in Sns : Received(f, r, x) => Received(f, t, x)
    BY <2>2, <2>4 DEF Received
  <2>7. Received(f, t, d.sn)
    BY <2>2, <2>4 DEF Received
  <2>8. \A x \in t.acklist : x \in r.acklist \/ Received(f, t, x)
    BY <1>7, <2>2, <2>3, <2>7
  <2>9. /\ IsFiniteSet(Waiting(f, v)) /\ Cardinality(Waiting(f, v)) \in Nat
        /\ Len(r.queue) + Cardinality(Waiting(f, v)) <= RcvWnd + 1
    <3> DEFINE W == Waiting(f, r)
               c == Cardinality(W)
               e == Cardinality(Waiting(f, v))
               l == Len(r.queue)
    <3>1. IsFiniteSet(W) /\ Len(r.queue) + c <= RcvWnd
      BY DEF Rests
    <3>2. c \in Nat
      BY <3>1, FS_CardinalityType
    <3>3. IsFiniteSet(Waiting(f, v)) /\ (e = c \/ e = c + 1)
      BY <2>2, <3>1, FS_AddElement
    <3>4. l \in Nat /\ RcvWnd \in Nat /\ l + c <= RcvWnd
      BY <1>1, <1>2, <3>1
    <3> HIDE DEF c, e, l, W
    <3>5. e \in Nat /\ l + e <= RcvWnd + 1
      BY <3>2, <3>3, <3>4
    <3> QED  BY <3>3, <3>5 DEF e, l
  <2>11. /\ IsFiniteSet(Waiting(f, t))
         /\ Len(t.queue) + Cardinality(Waiting(f, t))
              = Len(v.queue) + Cardinality(Waiting(f, v))
    <3>1. t = MoveToQueue(v) /\ RcvTypes(v) /\ ReceiverFits(f, b, m, v)
      BY <1>12, <2>2
    <3>2. IsFiniteSet(Waiting(f, v)) =>
            /\ IsFiniteSet(Waiting(f, t))
            /\ Len(t.queue) + Cardinality(Waiting(f, t))
                 = Len(v.queue) + Cardinality(Waiting(f, v))
      BY <3>1, Moved
    <3> QED  BY <2>9, <3>2
  <2>10. (t.queue # <<>> => Reads(f, t)) /\ (t.queue = <<>> => Rests(h, f, t))
    <3>1. /\ IsFiniteSet(Waiting(f, t))
          /\ Len(t.queue) + Cardinality(Waiting(f, t)) <= RcvWnd + 1
      BY <2>2, <2>9, <2>11
    <3>2. ASSUME t.queue = <<>>
          PROVE  /\ t.queue = <<>> /\ t.nxt \notin DOMAIN t.buf
                 /\ Len(t.queue) + Cardinality(Waiting(f, t)) <= RcvWnd
      <4>1. t.queue = <<>> /\ Len(t.queue) = 0
        BY <3>2
      <4>2. t.nxt \notin DOMAIN t.buf
        BY <1>2, <2>5, <4>1
      <4>3. Cardinality(Waiting(f, t)) <= RcvWnd - 1
        BY <2>3, <4>2, WaitingForNext
      <4> DEFINE c == Cardinality(Waiting(f, t))
      <4>4. c \in Nat
        BY <3>1, FS_CardinalityType
      <4> HIDE DEF c
      <4>5. c <= RcvWnd - 1
        BY <4>3 DEF c
      <4>6. 0 + c <= RcvWnd
        BY <1>2, <4>4, <4>5
      <4> QED  BY <4>1, <4>2, <4>6 DEF c
    <3> QED  BY <3>1, <3>2 DEF Reads, Rests
  <2> QED  BY <2>2, <2>3, <2>6, <2>8, <2>10 DEF GoesOn
<1> QED  BY <1>8, <1>10, <1>11, <1>12

\* A packet leaves the queue in its turn.
LEMMA Taken ==
  ASSUME NEW f \in Sns, NEW b \in Nat, NEW m \in 0..MaxPackets, NEW r,
         RcvTypes(r), ReceiverFits(f, b, m, r), r.queue # <<>>,
         NEW u, u = TakePacket(r)
  PROVE  /\ RcvTypes(u) /\ ReceiverFits(f, b, m, u)
         /\ u.read = Append(r.read, Len(r.read) + 1) /\ Len(r.queue) = Len(u.queue) + 1
         /\ u.nxt = r.nxt /\ u.buf = r.buf /\ u.acklist = r.acklist /\ u.tell = r.tell
<1>1. /\ DOMAIN r = RcvFields /\ r.queue \in Seq(Packets) /\ r.read \in Seq(Packets)
  BY DEF RcvTypes
<1>2. /\ DOMAIN u = RcvFields /\ u.nxt = r.nxt /\ u.buf = r.buf
      /\ u.acklist = r.acklist /\ u.tell = r.tell
      /\ u.queue = Tail(r.queue) /\ u.read = Append(r.read, r.queue[1])
  BY <1>1 DEF RcvFields, TakePacket
<1> DEFINE q == Len(r.queue)
           l == Len(r.read)
<1>3. q \in Nat /\ q >= 1 /\ l \in Nat
  BY <1>1, EmptySeq, LenProperties
<1>4. r.queue[1] \in Packets /\ r.queue[1] = l + 1
  <2>1. 1 \in 1..Len(r.queue)
    BY <1>3
  <2>2. r.queue[1] \in Packets
    BY <1>1, <2>1, ElementOfSeq
  <2> QED  BY <2>1, <2>2 DEF ReceiverFits
<1>5. /\ u.read \in Seq(Packets) /\ Len(u.read) = l + 1
      /\ \A k \in 1..l : u.read[k] = r.read[k]
      /\ u.read[l + 1] = l + 1 /\ u.read = Append(r.read, l + 1)
  BY <1>1, <1>2, <1>4, AppendProperties
<1>6. /\ u.queue \in Seq(Packets) /\ Len(u.queue) = q - 1
      /\ \A k \in 1..(q - 1) : u.queue[k] = r.queue[k + 1]
  <2>1. r.queue \in Seq(Packets) /\ r.queue # <<>>
    BY <1>1
  <2>2. /\ Tail(r.queue) \in Seq(Packets) /\ Len(Tail(r.queue)) = Len(r.queue) - 1
        /\ \A k \in 1..Len(Tail(r.queue)) : Tail(r.queue)[k] = r.queue[k + 1]
    BY <2>1, HeadTailProperties
  <2> QED  BY <1>2, <2>2
<1>7. RcvTypes(u)
  BY <1>2, <1>5, <1>6 DEF RcvTypes
<1>8. ReceiverFits(f, b, m, u)
  <2>1. /\ l + q = b + Turn(f, r.nxt) /\ Turn(f, r.nxt) <= m /\ q <= RcvWnd
        /\ \A k \in 1..l : r.read[k] = k
        /\ \A k \in 1..q : r.queue[k] = l + k
    BY DEF ReceiverFits
  <2>2. RcvWnd \in Nat /\ Turn(f, r.nxt) \in Nat
    BY Bounds, ReceiverPlaces
  <2> DEFINE w == Turn(f, r.nxt)
             x == Len(u.queue)
             y == Len(u.read)
  <2>3. x = q - 1 /\ y = l + 1
    BY <1>5, <1>6
  <2> HIDE DEF w, x, y, q, l
  <2>4. y + x = b + w /\ x <= RcvWnd
    BY <1>3, <2>1, <2>2, <2>3 DEF w
  <2>5. \A k \in 1..y : u.read[k] = k
    <3> TAKE k \in 1..y
    <3>1. k \in 1..l \/ k = l + 1
      BY <1>3, <2>3
    <3> QED  BY <1>5, <2>1, <3>1
  <2>6. \A k \in 1..x : u.queue[k] = y + k
    <3> TAKE k \in 1..x
    <3>1. k \in 1..(q - 1) /\ k + 1 \in 1..q /\ l + (k + 1) = y + k
      BY <1>3, <2>3
    <3>2. u.queue[k] = r.queue[k + 1] /\ r.queue[k + 1] = l + (k + 1)
      BY <1>6, <2>1, <3>1
    <3> QED  BY <3>1, <3>2
  <2>7. u.nxt = r.nxt /\ u.buf = r.buf
    BY <1>2
  <2> QED  BY <2>1, <2>4, <2>5, <2>6, <2>7 DEF ReceiverFits, w, x, y
<1>9. Len(r.queue) = Len(u.queue) + 1
  BY <1>3, <1>6
<1> QED  BY <1>2, <1>5, <1>7, <1>8, <1>9

\* ikcp_recv: the next packet is read, what waits in rcv_buf moves up, and the receiver
\* reads on if it is the viewer and something is left.
LEMMA Reading ==
  ASSUME NEW f \in Sns, NEW b \in Nat, NEW m \in 0..MaxPackets, NEW r,
         RcvTypes(r), ReceiverFits(f, b, m, r), Reads(f, r),
         NEW h, NEW t, t = ikcp_recv(r)
  PROVE  /\ GoesOn(f, b, m, r, t) /\ t.read = Append(r.read, Len(r.read) + 1)
         /\ h = "viewer" /\ t.queue # <<>> => Reads(f, t)
         /\ ~(h = "viewer" /\ t.queue # <<>>) => Rests(h, f, t)
<1> DEFINE u == TakePacket(r)
           v == MoveToQueue(u)
<1>1. r.queue # <<>> /\ IsFiniteSet(Waiting(f, r))
  BY DEF Reads
<1>2. u = TakePacket(r)
  OBVIOUS
<1>3. \E x : t = [v EXCEPT !.tell = x] /\ (RcvTypes(v) => x \in BOOLEAN)
  <2> DEFINE y == v.tell \/ (Len(r.queue) >= RcvWnd /\ Len(v.queue) < RcvWnd)
  <2>1. t = [v EXCEPT !.tell = y]
    BY DEF ikcp_recv
  <2>2. y \in BOOLEAN
    OBVIOUS
  <2> HIDE DEF v, y
  <2> QED  BY <2>1, <2>2
<1>4. PICK x : t = [v EXCEPT !.tell = x] /\ (RcvTypes(v) => x \in BOOLEAN)
  BY <1>3
<1> HIDE DEF u
<1>5. /\ RcvTypes(u) /\ ReceiverFits(f, b, m, u)
       /\ u.read = Append(r.read, Len(r.read) + 1) /\ Len(r.queue) = Len(u.queue) + 1
       /\ u.nxt = r.nxt /\ u.buf = r.buf /\ u.acklist = r.acklist
  BY <1>1, <1>2, Taken
<1>6. /\ RcvTypes(v) /\ ReceiverFits(f, b, m, v)
      /\ v.acklist = u.acklist /\ v.read = u.read /\ Turn(f, u.nxt) <= Turn(f, v.nxt)
  <2>1. RcvTypes(v) /\ ReceiverFits(f, b, m, v)
    BY <1>5, Moved
  <2>2. v.acklist = u.acklist /\ v.read = u.read /\ Turn(f, u.nxt) <= Turn(f, v.nxt)
    BY <1>5, Moved
  <2> QED  BY <2>1, <2>2
<1>7. \A n \in Sns : Received(f, v, n) <=> Received(f, u, n)
  BY <1>5, Moved
<1>8. v.nxt \notin DOMAIN v.buf \/ Len(v.queue) = RcvWnd
  BY <1>5, Moved
<1>9. /\ IsFiniteSet(Waiting(f, v))
      /\ Len(v.queue) + Cardinality(Waiting(f, v)) = Len(u.queue) + Cardinality(Waiting(f, u))
  <2>1. IsFiniteSet(Waiting(f, u)) =>
          /\ IsFiniteSet(Waiting(f, v))
          /\ Len(v.queue) + Cardinality(Waiting(f, v))
               = Len(u.queue) + Cardinality(Waiting(f, u))
    BY <1>5, Moved
  <2>2. Waiting(f, u) = Waiting(f, r)
    BY <1>5 DEF Waiting
  <2> QED  BY <1>1, <2>1, <2>2
<1> HIDE DEF v
<1>10. /\ DOMAIN t = RcvFields /\ t.nxt = v.nxt /\ t.queue = v.queue /\ t.buf = v.buf
      /\ t.acklist = v.acklist /\ t.read = v.read /\ t.tell \in BOOLEAN
  <2>1. DOMAIN v = RcvFields
    BY <1>6 DEF RcvTypes
  <2> QED  BY <1>4, <1>6, <2>1 DEF RcvFields
<1>11. RcvTypes(t)
  BY <1>6, <1>10 DEF RcvTypes
<1>12. ReceiverFits(f, b, m, t)
  BY <1>6, <1>10 DEF ReceiverFits
<1>13. \A n \in Sns : Received(f, r, n) <=> Received(f, t, n)
  <2>1. \A n \in Sns : Received(f, v, n) <=> Received(f, t, n)
    BY <1>10 DEF Received
  <2>2. \A n \in Sns : Received(f, u, n) <=> Received(f, r, n)
    BY <1>5 DEF Received
  <2> QED  BY <1>7, <2>1, <2>2
<1>14. Len(t.queue) + Cardinality(Waiting(f, t)) <= RcvWnd /\ Len(t.queue) \in Nat
       /\ IsFiniteSet(Waiting(f, t)) /\ Cardinality(Waiting(f, t)) \in Nat
  <2>1. Waiting(f, u) = Waiting(f, r) /\ Waiting(f, t) = Waiting(f, v)
    BY <1>5, <1>10 DEF Waiting
  <2> DEFINE c == Cardinality(Waiting(f, r))
             e == Cardinality(Waiting(f, t))
  <2>2. c \in Nat /\ e \in Nat /\ IsFiniteSet(Waiting(f, t))
    BY <1>1, <1>9, <2>1, FS_CardinalityType
  <2>3. Len(r.queue) + c <= RcvWnd + 1
    BY DEF Reads
  <2>4. Len(t.queue) + e = Len(u.queue) + c
    BY <1>9, <1>10, <2>1
  <2>5. Len(u.queue) \in Nat /\ Len(t.queue) \in Nat /\ RcvWnd \in Nat
    BY <1>5, <1>11, LenProperties, Bounds DEF RcvTypes
  <2> HIDE DEF c, e
  <2>6. Len(t.queue) + e <= RcvWnd
    BY <1>5, <2>2, <2>3, <2>4, <2>5
  <2> QED  BY <2>2, <2>5, <2>6 DEF e
<1>15. t.nxt \notin DOMAIN t.buf
  <2>1. CASE Len(t.queue) = RcvWnd
    <3> DEFINE e == Cardinality(Waiting(f, t))
    <3>1. e \in Nat /\ RcvWnd \in Nat /\ Len(t.queue) + e <= RcvWnd
      BY <1>14, Bounds
    <3> HIDE DEF e
    <3>2. e = 0
      BY <2>1, <3>1
    <3>3. Waiting(f, t) = {}
      BY <1>14, <3>2, FS_EmptySet DEF e
    <3> QED  BY <3>3 DEF Waiting
  <2>2. CASE t.nxt \notin DOMAIN t.buf
    BY <2>2
  <2> QED  BY <1>8, <1>10, <2>1, <2>2
<1>16. /\ h = "viewer" /\ t.queue # <<>> => Reads(f, t)
       /\ ~(h = "viewer" /\ t.queue # <<>>) => Rests(h, f, t)
  <2> DEFINE c == Cardinality(Waiting(f, t))
  <2>1. Len(t.queue) + c <= RcvWnd /\ Len(t.queue) + c <= RcvWnd + 1
    <3>1. Len(t.queue) \in Nat /\ c \in Nat /\ RcvWnd \in Nat /\ Len(t.queue) + c <= RcvWnd
      BY <1>14, Bounds
    <3> HIDE DEF c
    <3> QED  BY <3>1
  <2> QED  BY <1>14, <1>15, <2>1 DEF Reads, Rests
<1> QED  BY <1>5, <1>6, <1>10, <1>11, <1>12, <1>13, <1>16 DEF GoesOn

\* A window probe only makes the receiver tell its window.
LEMMA Asked ==
  ASSUME NEW f \in Sns, NEW b \in Nat, NEW m \in 0..MaxPackets, NEW r,
         RcvTypes(r), ReceiverFits(f, b, m, r), NEW h, Rests(h, f, r),
         NEW t, t = InputWask(r)
  PROVE  /\ GoesOn(f, b, m, r, t) /\ t.read = r.read
         /\ t.queue # <<>> => Reads(f, t)
         /\ t.queue = <<>> => Rests(h, f, t)
<1>1. DOMAIN r = RcvFields
  BY DEF RcvTypes
<1>2. /\ DOMAIN t = RcvFields /\ t.nxt = r.nxt /\ t.queue = r.queue /\ t.buf = r.buf
      /\ t.acklist = r.acklist /\ t.read = r.read /\ t.tell = TRUE
  BY <1>1 DEF InputWask, RcvFields
<1>3. RcvTypes(t) /\ ReceiverFits(f, b, m, t) /\ Waiting(f, t) = Waiting(f, r)
  BY <1>2 DEF RcvTypes, ReceiverFits, Waiting
<1>4. /\ r.nxt \notin DOMAIN r.buf /\ IsFiniteSet(Waiting(f, r))
      /\ Len(r.queue) + Cardinality(Waiting(f, r)) <= RcvWnd
  BY DEF Rests
<1>5. Len(r.queue) + Cardinality(Waiting(f, r)) <= RcvWnd + 1
  <2> DEFINE c == Cardinality(Waiting(f, r))
  <2>1. c \in Nat /\ Len(r.queue) \in Nat /\ RcvWnd \in Nat
    BY <1>4, FS_CardinalityType, ReceiverPlaces, Bounds
  <2>2. Len(r.queue) + c <= RcvWnd
    BY <1>4
  <2> HIDE DEF c
  <2>3. Len(r.queue) + c <= RcvWnd + 1
    BY <2>1, <2>2
  <2> QED  BY <2>3 DEF c
<1>6. (t.queue # <<>> => Reads(f, t)) /\ Rests(h, f, t)
  BY <1>2, <1>3, <1>4, <1>5 DEF Reads, Rests
<1>7. Turn(f, r.nxt) <= Turn(f, t.nxt)
  <2> DEFINE w == Turn(f, r.nxt)
  <2>1. w \in Nat
    BY ReceiverPlaces
  <2> HIDE DEF w
  <2>2. w <= w
    BY <2>1
  <2> QED  BY <1>2, <2>2 DEF w
<1>8. \A x \in Sns : Received(f, r, x) => Received(f, t, x)
  BY <1>2 DEF Received
<1> QED  BY <1>2, <1>3, <1>6, <1>7, <1>8 DEF GoesOn

-----------------------------------------------------------------------------
(* The steps.                                                               *)

\* What the receiver waits for, nobody has acknowledged.
LEMMA OwedNext ==
  ASSUME NEW f, NEW s, NEW r, NEW ans, RcvTypes(r), f \in Sns, SndTypes(s),
         r.nxt \notin DOMAIN r.buf, AnswersTrue(f, r, ans), NoneMissing(f, s, r)
  PROVE  Owed(f, s, r, ans, r.nxt)
<1>1. r.nxt \in Sns /\ s.nxt \in Sns /\ Turn(f, r.nxt) \in Nat /\ Turn(f, s.nxt) \in Nat
  BY TurnOf DEF RcvTypes, SndTypes
<1>2. ~(Turn(f, r.nxt) < Turn(f, r.nxt)) /\ Turn(f, r.nxt) <= Turn(f, r.nxt)
  <2> DEFINE w == Turn(f, r.nxt)
  <2>1. w \in Nat
    BY <1>1
  <2> HIDE DEF w
  <2>2. ~(w < w) /\ w <= w
    BY <2>1
  <2> QED  BY <2>2 DEF w
<1>3. ~Received(f, r, r.nxt)
  BY <1>2 DEF Received
<1>4. r.nxt \in DOMAIN s.buf \/ Turn(f, s.nxt) <= Turn(f, r.nxt)
  <2>1. Turn(f, r.nxt) < Turn(f, s.nxt) => r.nxt \in DOMAIN s.buf
    BY <1>1, <1>3 DEF NoneMissing
  <2> QED  BY <1>1, <2>1
<1>5. \A d \in ans : Turn(f, d.una) <= Turn(f, r.nxt) /\ r.nxt \notin d.acks
  BY <1>3 DEF AnswersTrue
<1> QED  BY <1>1, <1>2, <1>4, <1>5 DEF Owed

\* What was received stays received, and what was answered stays true.
LEMMA AnswersStayTrue ==
  ASSUME NEW f \in Sns, NEW s, NEW r, NEW t, NEW ans, ans \subseteq Answers,
         RcvTypes(r), RcvTypes(t), AnswersTrue(f, r, ans), NoneMissing(f, s, r),
         Turn(f, r.nxt) <= Turn(f, t.nxt),
         \A x \in Sns : Received(f, r, x) => Received(f, t, x),
         \A x \in t.acklist : x \in r.acklist \/ Received(f, t, x)
  PROVE  AnswersTrue(f, t, ans) /\ NoneMissing(f, s, t)
<1>1. \A n \in t.acklist : Received(f, t, n)
  BY DEF AnswersTrue, RcvTypes
<1>2. ASSUME NEW d \in ans
      PROVE  /\ Turn(f, d.una) <= Turn(f, t.nxt)
             /\ \A n \in d.acks : Received(f, t, n)
  <2>1. d.una \in Sns /\ d.acks \subseteq Sns
    BY DEF Answers
  <2>2. /\ Turn(f, d.una) <= Turn(f, r.nxt)
        /\ \A n \in d.acks : Received(f, r, n)
    BY DEF AnswersTrue
  <2>3. Turn(f, d.una) <= Turn(f, t.nxt)
    <3> DEFINE x == Turn(f, d.una)
               y == Turn(f, r.nxt)
               z == Turn(f, t.nxt)
    <3>1. x \in Nat /\ y \in Nat /\ z \in Nat /\ x <= y /\ y <= z
      BY <2>1, <2>2, TurnOf DEF RcvTypes
    <3> HIDE DEF x, y, z
    <3>2. x <= z
      BY <3>1
    <3> QED  BY <3>2 DEF x, z
  <2> QED  BY <2>1, <2>2, <2>3
<1>3. NoneMissing(f, s, t)
  BY DEF NoneMissing
<1> QED  BY <1>1, <1>2, <1>3 DEF AnswersTrue

\* When the sender uses more numbers, what was in place stays in place.
LEMMA MoreNumbers ==
  ASSUME NEW f \in Sns, NEW b \in Nat, NEW m \in Nat, NEW n \in Nat, m <= n,
         NEW r, RcvTypes(r), ReceiverFits(f, b, m, r),
         NEW net, NetTypes(net), NetFits(f, b, m, net)
  PROVE  ReceiverFits(f, b, n, r) /\ NetFits(f, b, n, net)
<1>1. ReceiverFits(f, b, n, r)
  <2>1. r.nxt \in Sns /\ Turn(f, r.nxt) \in Nat /\ Turn(f, r.nxt) <= m
    BY TurnOf DEF RcvTypes, ReceiverFits
  <2>2. Turn(f, r.nxt) <= n
    <3> DEFINE w == Turn(f, r.nxt)
    <3>1. w \in Nat /\ w <= m
      BY <2>1
    <3> HIDE DEF w
    <3>2. w <= n
      BY <3>1
    <3> QED  BY <3>2 DEF w
  <2>3. ASSUME NEW x \in DOMAIN r.buf
        PROVE  Turn(f, x) < n
    <3>1. Turn(f, x) \in Nat /\ Turn(f, x) < m
      BY TurnOf DEF RcvTypes, ReceiverFits
    <3> QED  BY <3>1
  <2> QED  BY <2>2, <2>3 DEF ReceiverFits
<1>2. NetFits(f, b, n, net)
  <2> SUFFICES ASSUME NEW d \in net, d.cmd = "push"
               PROVE  d.data = PacketOf(f, b, d.sn) /\ Turn(f, d.sn) < n
    BY DEF NetFits
  <2>1. d.sn \in Sns
    BY DEF NetTypes, Push, Wask
  <2>2. Turn(f, d.sn) \in Nat /\ Turn(f, d.sn) < m /\ d.data = PacketOf(f, b, d.sn)
    BY <2>1, TurnOf DEF NetFits
  <2> QED  BY <2>2
<1> QED  BY <1>1, <1>2

\* What a flush puts on the way is in place.
LEMMA PutOnTheWay ==
  ASSUME NEW f \in Sns, NEW b \in Nat, NEW g, NEW t, SndTypes(t), SenderFits(f, b, g, t),
         NEW net, NetTypes(net), NetFits(f, b, Turn(f, t.nxt), net),
         NEW out, \A d \in out : d = Wask \/ \E n \in DOMAIN t.buf : d = Push(n, t.buf[n].data),
         NEW cap, NEW both, both = Fits(net, out, cap)
  PROVE  NetTypes(both) /\ NetFits(f, b, Turn(f, t.nxt), both)
<1>1. \A d \in both : d \in net \/ d \in out
  BY DEF Fits
<1>2. ASSUME NEW d \in both
      PROVE  /\ d \in {Push(n, p) : n \in Sns, p \in Packets} \cup {Wask}
             /\ d.cmd = "push" => d.data = PacketOf(f, b, d.sn) /\ Turn(f, d.sn) < Turn(f, t.nxt)
  <2>1. CASE d \in net
    BY <2>1 DEF NetTypes, NetFits
  <2>2. CASE d = Wask
    BY <2>2 DEF Wask
  <2>3. ASSUME NEW n \in DOMAIN t.buf, d = Push(n, t.buf[n].data)
        PROVE  /\ d \in {Push(k, p) : k \in Sns, p \in Packets} \cup {Wask}
               /\ d.data = PacketOf(f, b, d.sn) /\ Turn(f, d.sn) < Turn(f, t.nxt)
    <3>1. n \in Sns /\ t.buf[n].data \in Packets
      BY DEF SndTypes, BufTypes, Sending
    <3>2. d.sn = n /\ d.data = t.buf[n].data
      BY <2>3 DEF Push
    <3> QED  BY <2>3, <3>1, <3>2 DEF SenderFits
  <2> QED  BY <1>1, <2>1, <2>2, <2>3
<1> QED  BY <1>2 DEF NetTypes, NetFits

\* ikcp_send: the packet is queued behind the others.
LEMMA Accepted ==
  ASSUME NEW f \in Sns, NEW b \in Nat, NEW g \in 0..MaxPackets, g < MaxPackets, NEW s,
         SndTypes(s), SenderFits(f, b, g, s), NEW t, t = ikcp_send(s, g + 1)
  PROVE  /\ SndTypes(t) /\ SenderFits(f, b, g + 1, t)
         /\ t.una = s.una /\ t.nxt = s.nxt /\ t.buf = s.buf
<1>1. DOMAIN s = SndFields /\ s.queue \in Seq(Packets)
  BY DEF SndTypes
<1>2. /\ DOMAIN t = SndFields /\ t.una = s.una /\ t.nxt = s.nxt /\ t.buf = s.buf
      /\ t.rmt_wnd = s.rmt_wnd /\ t.cwnd = s.cwnd /\ t.ssthresh = s.ssthresh
      /\ t.updated = s.updated /\ t.probing = s.probing
      /\ t.queue = Append(s.queue, g + 1)
  BY <1>1 DEF ikcp_send, SndFields
<1>3. g + 1 \in Packets
  BY Bounds DEF Packets
<1> DEFINE l == Len(s.queue)
<1>4. l \in Nat
  BY <1>1, LenProperties
<1>5. /\ t.queue \in Seq(Packets) /\ Len(t.queue) = l + 1
      /\ \A k \in 1..l : t.queue[k] = s.queue[k]
      /\ t.queue[l + 1] = g + 1
  <2> DEFINE p == g + 1
             q == Append(s.queue, p)
  <2>1. p \in Packets /\ t.queue = q
    BY <1>2, <1>3
  <2> HIDE DEF p
  <2>2. /\ q \in Seq(Packets) /\ Len(q) = Len(s.queue) + 1
        /\ \A k \in 1..Len(s.queue) : q[k] = s.queue[k]
        /\ q[Len(s.queue) + 1] = p
    BY <1>1, <2>1, AppendProperties
  <2> HIDE DEF q
  <2> QED  BY <2>1, <2>2 DEF p
<1>6. SndTypes(t)
  BY <1>2, <1>5 DEF SndTypes
<1>7. SenderFits(f, b, g + 1, t)
  <2> DEFINE w == Turn(f, s.nxt)
             x == Len(t.queue)
  <2>1. w \in Nat /\ g \in Nat /\ x = l + 1
    BY <1>5, SenderPlaces
  <2>2. g = b + w + l /\ \A k \in 1..l : s.queue[k] = b + w + k
    BY DEF SenderFits
  <2> HIDE DEF w, l, x
  <2>3. g + 1 = b + w + x /\ g + 1 = b + w + (l + 1)
    BY <1>4, <2>1, <2>2
  <2>4. \A k \in 1..x : t.queue[k] = b + w + k
    <3> TAKE k \in 1..x
    <3>1. k \in 1..l \/ k = l + 1
      BY <1>4, <2>1
    <3>2. CASE k \in 1..l
      BY <1>5, <2>2, <3>2
    <3>3. CASE k = l + 1
      BY <1>5, <2>3, <3>3
    <3> QED  BY <3>1, <3>2, <3>3
  <2>5. /\ g + 1 = b + Turn(f, t.nxt) + Len(t.queue)
        /\ \A k \in 1..Len(t.queue) : t.queue[k] = b + Turn(f, t.nxt) + k
    BY <1>2, <2>3, <2>4 DEF w, x
  <2>6. /\ \A n \in DOMAIN t.buf :
             /\ t.buf[n].data = PacketOf(f, b, n)
             /\ Turn(f, t.una) <= Turn(f, n) /\ Turn(f, n) < Turn(f, t.nxt)
        /\ Turn(f, t.una) <= Turn(f, t.nxt) /\ Turn(f, t.nxt) <= Turn(f, t.una) + SndWnd
        /\ t.una # t.nxt => t.una \in DOMAIN t.buf
    BY <1>2 DEF SenderFits
  <2> QED  BY <2>5, <2>6 DEF SenderFits
<1> QED  BY <1>2, <1>6, <1>7

\* What a step of the sender leaves, when g packets are given: more numbers may be used.
SenderWentOn(b, g) ==
  /\ SndTypes(snd') /\ SenderFits(first, b, g, snd') /\ snd'.una = snd.una
  /\ Turn(first, snd.nxt) <= Turn(first, snd'.nxt)
  /\ \A x : x \in DOMAIN snd'.buf <=>
       \/ x \in DOMAIN snd.buf
       \/ x \in Sns /\ Turn(first, snd.nxt) <= Turn(first, x)
                    /\ Turn(first, x) < Turn(first, snd'.nxt)
  /\ NetTypes(toRcv') /\ NetFits(first, b, Turn(first, snd'.nxt), toRcv')

\* Neither end goes back.
Forward ==
  /\ Turn(first, snd.una) <= Turn(first, snd'.una)
  /\ Turn(first, rcv.nxt) <= Turn(first, rcv'.nxt)

\* The numbers a conversation uses.
LEMMA Numbers ==
  ASSUME Types
  PROVE  /\ first \in Sns /\ given \in 0..MaxPackets
         /\ snd.una \in Sns /\ snd.nxt \in Sns /\ rcv.nxt \in Sns
         /\ Turn(first, snd.una) \in Nat /\ Turn(first, snd.nxt) \in Nat
         /\ Turn(first, rcv.nxt) \in Nat
<1>1. first \in Sns
  BY Bounds DEF Types
<1> QED  BY <1>1, TurnOf DEF Types, SndTypes, RcvTypes

\* ikcp_flush.
LEMMA FlushStep ==
  ASSUME Types, NEW b \in Nat, PlacedFrom(b), NEW g \in 0..MaxPackets, NEW s,
         SndTypes(s), SenderFits(first, b, g, s),
         s.una = snd.una, s.nxt = snd.nxt, s.buf = snd.buf,
         NEW due, NEW late, Flush(s, due, late)
  PROVE  SenderWentOn(b, g)
<1> DEFINE q == FillSndBuf(ProbeTimer(s, due))
           t == AdjustCwnd(Transmit(q, late), q, late)
           out == FlushOut(s, q, due, late)
<1>1. snd' = t /\ toRcv' = Fits(toRcv, out, DataCap)
  BY DEF Flush
<1>2. first \in Sns
  BY Numbers
<1>3. /\ SndTypes(t) /\ SenderFits(first, b, g, t) /\ t.una = s.una
      /\ Turn(first, s.nxt) <= Turn(first, t.nxt)
      /\ \A x : x \in DOMAIN t.buf <=>
           \/ x \in DOMAIN s.buf
           \/ x \in Sns /\ Turn(first, s.nxt) <= Turn(first, x)
                        /\ Turn(first, x) < Turn(first, t.nxt)
      /\ \A d \in out : d = Wask \/ \E n \in DOMAIN t.buf : d = Push(n, t.buf[n].data)
  BY <1>2, Flushed
<1> HIDE DEF t, out
<1>4. Turn(first, snd.nxt) \in Nat /\ Turn(first, t.nxt) \in Nat
  BY <1>2, <1>3, Numbers, TurnOf DEF SndTypes
<1>5. RcvTypes(rcv) /\ NetTypes(toRcv)
  BY DEF Types
<1>6. /\ ReceiverFits(first, b, Turn(first, snd.nxt), rcv)
      /\ NetFits(first, b, Turn(first, snd.nxt), toRcv)
  BY DEF PlacedFrom
<1>7. NetFits(first, b, Turn(first, t.nxt), toRcv)
  BY <1>2, <1>3, <1>4, <1>5, <1>6, MoreNumbers
<1>8. NetTypes(toRcv') /\ NetFits(first, b, Turn(first, t.nxt), toRcv')
  BY <1>1, <1>2, <1>3, <1>5, <1>7, PutOnTheWay
<1> QED  BY <1>1, <1>3, <1>8 DEF SenderWentOn

\* After a step of the sender that only uses more numbers.
LEMMA SenderStep ==
  ASSUME IInv, NEW b \in Nat, PlacedFrom(b), NEW g \in 0..MaxPackets, given' = g,
         SenderWentOn(b, g), UNCHANGED <<hop, first, rcv, reading, toSnd, calm>>
  PROVE  IInv' /\ Forward
<1>1. /\ first \in Sns /\ Turn(first, snd.nxt) \in Nat /\ Turn(first, snd'.nxt) \in Nat
      /\ Turn(first, snd.una) \in Nat /\ Turn(first, rcv.nxt) \in Nat
  <2>1. snd'.nxt \in Sns
    BY DEF SenderWentOn, SndTypes
  <2> QED  BY <2>1, Numbers, TurnOf DEF IInv
<1>2. Types'
  BY DEF IInv, Types, SenderWentOn
<1>3. InPlace'
  <2>1. ReceiverFits(first, b, Turn(first, snd'.nxt), rcv)
    <3>1. /\ ReceiverFits(first, b, Turn(first, snd.nxt), rcv)
          /\ NetFits(first, b, Turn(first, snd.nxt), toRcv)
      BY DEF PlacedFrom
    <3>2. RcvTypes(rcv) /\ NetTypes(toRcv)
      BY DEF IInv, Types
    <3>3. Turn(first, snd.nxt) <= Turn(first, snd'.nxt)
      BY DEF SenderWentOn
    <3> QED  BY <1>1, <3>1, <3>2, <3>3, MoreNumbers
  <2>2. PlacedFrom(b)'
    BY <2>1 DEF PlacedFrom, SenderWentOn
  <2> QED  BY <2>2 DEF InPlace
<1>4. QueueFits(hop, first, reading, rcv)'
  BY DEF IInv
<1>5. AnswersTrue(first, rcv, toSnd)'
  BY DEF IInv
<1>6. NoneMissing(first, snd, rcv)'
  <2> SUFFICES ASSUME NEW n \in Sns, Turn(first, n) < Turn(first, snd'.nxt)
               PROVE  n \in DOMAIN snd'.buf \/ Received(first, rcv, n)
    BY DEF NoneMissing
  <2>1. Turn(first, n) < Turn(first, snd.nxt) \/ Turn(first, snd.nxt) <= Turn(first, n)
    BY <1>1, TurnOf
  <2>2. CASE Turn(first, n) < Turn(first, snd.nxt)
    BY <2>2 DEF IInv, NoneMissing, SenderWentOn
  <2>3. CASE Turn(first, snd.nxt) <= Turn(first, n)
    BY <2>3 DEF SenderWentOn
  <2> QED  BY <2>1, <2>2, <2>3
<1>7. SomeOwed(first, snd, rcv, toSnd)'
  <2>1. PICK n \in Sns : Owed(first, snd, rcv, toSnd, n)
    BY DEF IInv, SomeOwed
  <2>2. n \in DOMAIN snd'.buf \/ Turn(first, snd'.nxt) <= Turn(first, n)
    <3>1. CASE n \in DOMAIN snd.buf
      BY <3>1 DEF SenderWentOn
    <3>2. CASE Turn(first, snd.nxt) <= Turn(first, n)
      <4>1. Turn(first, n) < Turn(first, snd'.nxt) \/ Turn(first, snd'.nxt) <= Turn(first, n)
        BY <1>1, TurnOf
      <4> QED  BY <3>2, <4>1 DEF SenderWentOn
    <3> QED  BY <2>1, <3>1, <3>2 DEF Owed
  <2>3. Owed(first, snd', rcv, toSnd, n)
    BY <2>1, <2>2 DEF Owed
  <2> QED  BY <2>3 DEF SomeOwed
<1>8. Forward
  <2>1. snd'.una = snd.una /\ rcv' = rcv
    BY DEF SenderWentOn
  <2> DEFINE x == Turn(first, snd.una)
             y == Turn(first, rcv.nxt)
  <2>2. x \in Nat /\ y \in Nat
    BY <1>1
  <2> HIDE DEF x, y
  <2>3. x <= x /\ y <= y
    BY <2>2
  <2> QED  BY <2>1, <2>3 DEF Forward, x, y
<1> QED  BY <1>2, <1>3, <1>4, <1>5, <1>6, <1>7, <1>8 DEF IInv

\* The segments of an idle step are where they were.
LEMMA StaysPut ==
  ASSUME Types, NEW b \in Nat, PlacedFrom(b), NEW g, NEW t, SndTypes(t),
         SenderFits(first, b, g, t), t.una = snd.una, t.nxt = snd.nxt, t.buf = snd.buf,
         snd' = t, UNCHANGED toRcv
  PROVE  SenderWentOn(b, g)
<1>1. Turn(first, snd.nxt) \in Nat /\ NetTypes(toRcv) /\ BufTypes(snd.buf)
  BY Numbers DEF Types, SndTypes
<1>2. NetFits(first, b, Turn(first, snd.nxt), toRcv)
  BY DEF PlacedFrom
<1> DEFINE x == Turn(first, snd.nxt)
<1>3. x \in Nat /\ \A n \in Sns : Turn(first, n) \in Nat
  BY <1>1, Numbers, TurnOf
<1> HIDE DEF x
<1>4. x <= x /\ \A n \in Sns : ~(x <= Turn(first, n) /\ Turn(first, n) < x)
  BY <1>3
<1> QED  BY <1>1, <1>2, <1>4 DEF SenderWentOn, x

\* ikcp_send, with the flush that follows it at the camera.
LEMMA SendStep ==
  ASSUME IInv, Send
  PROVE  IInv' /\ Forward /\ Channel!Give
<1>1. PICK due \in Dues, late \in SUBSET SentSns : SendPacket(due, late)
  BY DEF Send
<1>2. /\ given \in 0..MaxPackets /\ given < MaxPackets /\ given' = given + 1
      /\ UNCHANGED <<hop, first, rcv, reading, toSnd, calm>>
  BY <1>1 DEF SendPacket, IInv, Types
<1>3. PICK b \in Nat : PlacedFrom(b)
  BY DEF IInv, InPlace
<1> DEFINE s == ikcp_send(snd, given + 1)
<1>4. Types /\ first \in Sns /\ SndTypes(snd) /\ SenderFits(first, b, given, snd)
  BY <1>3, Numbers DEF IInv, Types, PlacedFrom
<1>5. Flush(s, due, late) \/ (snd' = s /\ UNCHANGED toRcv)
  BY <1>1 DEF SendPacket
<1>6. /\ SndTypes(s) /\ SenderFits(first, b, given + 1, s)
      /\ s.una = snd.una /\ s.nxt = snd.nxt /\ s.buf = snd.buf
  BY <1>2, <1>4, Accepted
<1> HIDE DEF s
<1>7. given + 1 \in 0..MaxPackets
  BY <1>2, Bounds
<1>8. SenderWentOn(b, given + 1)
  <2>1. CASE Flush(s, due, late)
    BY <1>3, <1>4, <1>6, <1>7, <2>1, FlushStep
  <2>2. CASE snd' = s /\ UNCHANGED toRcv
    BY <1>3, <1>4, <1>6, <2>2, StaysPut
  <2> QED  BY <1>5, <2>1, <2>2
<1>9. IInv' /\ Forward
  BY <1>2, <1>3, <1>7, <1>8, SenderStep
<1>10. Channel!Give
  BY <1>2 DEF Channel!Give
<1> QED  BY <1>9, <1>10

\* ikcp_update at the sender.
LEMMA UpdateStep ==
  ASSUME IInv, Update
  PROVE  IInv' /\ Forward /\ UNCHANGED <<given, rcv>>
<1>1. PICK due \in Dues, late \in SUBSET SentSns : SenderUpdate(due, late)
  BY DEF Update
<1> DEFINE s == [snd EXCEPT !.updated = TRUE]
<1>2. /\ Flush(s, due, late)
      /\ UNCHANGED <<hop, first, given, rcv, reading, toSnd, calm>>
  BY <1>1 DEF SenderUpdate
<1>3. PICK b \in Nat : PlacedFrom(b)
  BY DEF IInv, InPlace
<1>4. /\ Types /\ first \in Sns /\ SndTypes(snd) /\ SenderFits(first, b, given, snd)
      /\ given \in 0..MaxPackets
  BY <1>3, Numbers DEF IInv, Types, PlacedFrom
<1>5. /\ DOMAIN s = SndFields /\ s.una = snd.una /\ s.nxt = snd.nxt /\ s.buf = snd.buf
      /\ s.queue = snd.queue /\ s.rmt_wnd = snd.rmt_wnd /\ s.cwnd = snd.cwnd
      /\ s.ssthresh = snd.ssthresh /\ s.updated = TRUE /\ s.probing = snd.probing
  <2>1. DOMAIN snd = SndFields
    BY <1>4 DEF SndTypes
  <2> QED  BY <2>1 DEF SndFields
<1> HIDE DEF s
<1>6. SndTypes(s) /\ SenderFits(first, b, given, s)
  <2>1. SndTypes(s)
    BY <1>4, <1>5 DEF SndTypes
  <2> QED  BY <1>4, <1>5, <2>1, SameShape
<1>7. SenderWentOn(b, given)
  BY <1>2, <1>3, <1>4, <1>5, <1>6, FlushStep
<1> QED  BY <1>2, <1>3, <1>4, <1>7, SenderStep

\* Where nothing moves, nothing goes back.
LEMMA Still ==
  ASSUME Types
  PROVE  /\ Turn(first, snd.una) <= Turn(first, snd.una)
         /\ Turn(first, rcv.nxt) <= Turn(first, rcv.nxt)
<1> DEFINE x == Turn(first, snd.una)
           y == Turn(first, rcv.nxt)
<1>1. x \in Nat /\ y \in Nat
  BY Numbers
<1> HIDE DEF x, y
<1>2. x <= x /\ y <= y
  BY <1>1
<1> QED  BY <1>2 DEF x, y

\* Datagrams are lost, and the ends do nothing.
LEMMA NetworkStep ==
  ASSUME IInv, toRcv' \subseteq toRcv, toSnd' \subseteq toSnd, calm' \in BOOLEAN,
         UNCHANGED <<hop, first, given, snd, rcv, reading>>
  PROVE  IInv' /\ Forward
<1>1. Types'
  BY DEF IInv, Types, NetTypes
<1>2. InPlace'
  <2>1. PICK b \in Nat : PlacedFrom(b)
    BY DEF IInv, InPlace
  <2>2. PlacedFrom(b)'
    BY <2>1 DEF PlacedFrom, NetFits
  <2> QED  BY <2>2 DEF InPlace
<1>3. QueueFits(hop, first, reading, rcv)' /\ NoneMissing(first, snd, rcv)'
  BY DEF IInv
<1>4. AnswersTrue(first, rcv, toSnd)'
  BY DEF IInv, AnswersTrue
<1>5. SomeOwed(first, snd, rcv, toSnd)'
  <2>1. PICK n \in Sns : Owed(first, snd, rcv, toSnd, n)
    BY DEF IInv, SomeOwed
  <2>2. Owed(first, snd, rcv, toSnd', n)
    BY <2>1 DEF Owed
  <2> QED  BY <2>2 DEF SomeOwed
<1>6. Forward
  BY Still DEF IInv, Forward
<1> QED  BY <1>1, <1>2, <1>3, <1>4, <1>5, <1>6 DEF IInv

\* After a step of the receiver that keeps its shape and what it has.
LEMMA ReceiverStep ==
  ASSUME IInv, NEW b \in Nat, PlacedFrom(b),
         GoesOn(first, b, Turn(first, snd.nxt), rcv, rcv'),
         QueueFits(hop, first, reading', rcv'),
         reading' \in BOOLEAN, toRcv' \subseteq toRcv,
         UNCHANGED <<hop, first, given, snd, toSnd, calm>>
  PROVE  IInv' /\ Forward
<1>1. Types'
  BY DEF IInv, Types, NetTypes, GoesOn
<1>2. InPlace'
  <2>1. PlacedFrom(b)'
    BY DEF PlacedFrom, NetFits, GoesOn
  <2> QED  BY <2>1 DEF InPlace
<1>3. QueueFits(hop, first, reading, rcv)'
  OBVIOUS
<1>4. AnswersTrue(first, rcv', toSnd) /\ NoneMissing(first, snd, rcv')
  <2>1. first \in Sns /\ toSnd \subseteq Answers /\ RcvTypes(rcv)
    BY Numbers DEF IInv, Types
  <2>2. AnswersTrue(first, rcv, toSnd) /\ NoneMissing(first, snd, rcv)
    BY DEF IInv
  <2> QED  BY <2>1, <2>2, AnswersStayTrue DEF GoesOn
<1>5. SomeOwed(first, snd, rcv', toSnd)
  <2>1. PICK n \in Sns : Owed(first, snd, rcv, toSnd, n)
    BY DEF IInv, SomeOwed
  <2>2. Turn(first, n) <= Turn(first, rcv'.nxt)
    <3> DEFINE x == Turn(first, n)
               y == Turn(first, rcv.nxt)
               z == Turn(first, rcv'.nxt)
    <3>1. x \in Nat /\ y \in Nat /\ z \in Nat
      BY Numbers, TurnOf DEF IInv, RcvTypes, GoesOn
    <3>2. x <= y /\ y <= z
      BY <2>1 DEF Owed, GoesOn
    <3> HIDE DEF x, y, z
    <3>3. x <= z
      BY <3>1, <3>2
    <3> QED  BY <3>3 DEF x, z
  <2>3. Owed(first, snd, rcv', toSnd, n)
    BY <2>1, <2>2 DEF Owed
  <2> QED  BY <2>3 DEF SomeOwed
<1>6. Forward
  BY Still DEF IInv, Forward, GoesOn
<1> QED  BY <1>1, <1>2, <1>3, <1>4, <1>5, <1>6 DEF IInv

\* ikcp_input at the receiver.
LEMMA InputStep ==
  ASSUME IInv, NEW d \in toRcv, Arrive(d)
  PROVE  IInv' /\ Forward /\ rcv'.read = rcv.read /\ UNCHANGED given
<1>1. /\ ~reading
      /\ rcv' = IF d.cmd = "push" THEN InputPush(rcv, d) ELSE InputWask(rcv)
      /\ reading' = (rcv'.queue # <<>>) /\ toRcv' \subseteq toRcv
      /\ UNCHANGED <<hop, first, given, snd, toSnd, calm>>
  BY DEF Arrive, ReceiverInput
<1>2. PICK b \in Nat : PlacedFrom(b)
  BY DEF IInv, InPlace
<1> DEFINE m == Turn(first, snd.nxt)
<1>3. first \in Sns /\ m \in 0..MaxPackets
  <2>1. /\ Types /\ SndTypes(snd) /\ SenderFits(first, b, given, snd)
    BY <1>2 DEF IInv, Types, PlacedFrom
  <2>2. m \in Nat /\ m <= MaxPackets /\ MaxPackets \in Nat
    BY <2>1, Numbers, SenderPlaces, Bounds
  <2> HIDE DEF m
  <2>3. m \in 0..MaxPackets
    BY <2>2
  <2> QED  BY <2>1, <2>3, Numbers
<1>4. /\ RcvTypes(rcv) /\ ReceiverFits(first, b, m, rcv)
      /\ Rests(hop, first, rcv)
  BY <1>1, <1>2 DEF IInv, Types, PlacedFrom, QueueFits
<1>5. CASE d.cmd = "push"
  <2>1. /\ d.sn \in Sns /\ d.data \in Packets
        /\ d.data = PacketOf(first, b, d.sn) /\ Turn(first, d.sn) < m
    <3>1. d \in {Push(n, p) : n \in Sns, p \in Packets} \cup {Wask}
      BY DEF IInv, Types, NetTypes
    <3>2. d.sn \in Sns /\ d.data \in Packets
      BY <1>5, <3>1 DEF Push, Wask
    <3>3. d.data = PacketOf(first, b, d.sn) /\ Turn(first, d.sn) < m
      BY <1>2, <1>5 DEF PlacedFrom, NetFits
    <3> QED  BY <3>2, <3>3
  <2>2. rcv' = InputPush(rcv, d)
    BY <1>1, <1>5
  <2> HIDE DEF m
  <2>3. GoesOn(first, b, m, rcv, rcv') /\ rcv'.read = rcv.read
    BY <1>2, <1>3, <1>4, <2>1, <2>2, Pushed
  <2>4. /\ rcv'.queue # <<>> => Reads(first, rcv')
        /\ rcv'.queue = <<>> => Rests(hop, first, rcv')
    BY <1>2, <1>3, <1>4, <2>1, <2>2, Pushed
  <2>5. reading' \in BOOLEAN /\ QueueFits(hop, first, reading', rcv')
    BY <1>1, <2>4 DEF QueueFits
  <2> QED  BY <1>1, <1>2, <2>3, <2>5, ReceiverStep DEF m
<1>6. CASE d.cmd # "push"
  <2>1. rcv' = InputWask(rcv)
    BY <1>1, <1>6
  <2> HIDE DEF m
  <2>2. GoesOn(first, b, m, rcv, rcv') /\ rcv'.read = rcv.read
    BY <1>2, <1>3, <1>4, <2>1, Asked
  <2>3. /\ rcv'.queue # <<>> => Reads(first, rcv')
        /\ rcv'.queue = <<>> => Rests(hop, first, rcv')
    BY <1>2, <1>3, <1>4, <2>1, Asked
  <2>4. reading' \in BOOLEAN /\ QueueFits(hop, first, reading', rcv')
    BY <1>1, <2>3 DEF QueueFits
  <2> QED  BY <1>1, <1>2, <2>2, <2>4, ReceiverStep DEF m
<1> QED  BY <1>5, <1>6

\* ikcp_recv at the receiver: the next packet, which was sent, is read.
LEMMA RecvStep ==
  ASSUME IInv, Recv
  PROVE  IInv' /\ Forward /\ Channel!Read
<1>1. /\ reading /\ rcv' = ikcp_recv(rcv)
      /\ reading' = (hop = "viewer" /\ rcv'.queue # <<>>)
      /\ UNCHANGED <<hop, first, given, snd, toRcv, toSnd, calm>>
  BY DEF Recv
<1>2. PICK b \in Nat : PlacedFrom(b)
  BY DEF IInv, InPlace
<1> DEFINE m == Turn(first, snd.nxt)
<1>3. /\ Types /\ first \in Sns /\ SndTypes(snd) /\ SenderFits(first, b, given, snd)
      /\ given \in 0..MaxPackets
  BY <1>2, Numbers DEF IInv, Types, PlacedFrom
<1>4. m \in Nat /\ m <= MaxPackets /\ MaxPackets \in Nat /\ Len(snd.queue) \in Nat
  BY <1>3, SenderPlaces, Bounds
<1>5. m \in 0..MaxPackets
  <2> HIDE DEF m
  <2> QED  BY <1>4
<1>6. /\ RcvTypes(rcv) /\ ReceiverFits(first, b, m, rcv)
      /\ Reads(first, rcv)
  BY <1>1, <1>2 DEF IInv, Types, PlacedFrom, QueueFits
<1>7. GoesOn(first, b, m, rcv, rcv') /\ rcv'.read = Append(rcv.read, Len(rcv.read) + 1)
  <2>1. rcv' = ikcp_recv(rcv)
    BY <1>1
  <2> HIDE DEF m
  <2> QED  BY <1>2, <1>3, <1>5, <1>6, <2>1, Reading
<1>8. reading' \in BOOLEAN /\ QueueFits(hop, first, reading', rcv')
  <2>1. rcv' = ikcp_recv(rcv)
    BY <1>1
  <2>2. /\ hop = "viewer" /\ rcv'.queue # <<>> => Reads(first, rcv')
        /\ ~(hop = "viewer" /\ rcv'.queue # <<>>) => Rests(hop, first, rcv')
    <3> HIDE DEF m
    <3> QED  BY <1>2, <1>3, <1>5, <1>6, <2>1, Reading
  <2> QED  BY <1>1, <2>2 DEF QueueFits
<1>9. IInv' /\ Forward
  BY <1>1, <1>2, <1>7, <1>8, ReceiverStep
<1>10. Len(rcv.read) < given
  <2> DEFINE l == Len(rcv.read)
             q == Len(rcv.queue)
             w == Turn(first, rcv.nxt)
             z == Len(snd.queue)
  <2>1. l + q = b + w /\ w <= m /\ given = (b + m) + z
    BY <1>3, <1>6 DEF ReceiverFits, SenderFits
  <2>2. l \in Nat /\ q \in Nat /\ q >= 1 /\ w \in Nat
    <3>1. rcv.queue # <<>> /\ rcv.queue \in Seq(Packets) /\ rcv.read \in Seq(Packets)
      BY <1>6 DEF Reads, RcvTypes
    <3> QED  BY <1>3, <3>1, EmptySeq, LenProperties, Numbers
  <2>3. z \in Nat /\ m \in Nat /\ b \in Nat
    BY <1>2, <1>4
  <2> HIDE DEF l, q, w, m, z
  <2>4. l < (b + m) + z
    BY <2>1, <2>2, <2>3
  <2> QED  BY <2>1, <2>4 DEF l
<1>11. Channel!Read
  BY <1>1, <1>7, <1>10 DEF Channel!Read
<1> QED  BY <1>9, <1>11

\* ikcp_update at the receiver: what it answers is true, and what it waits for next it
\* does not acknowledge.
LEMMA AnswerStep ==
  ASSUME IInv, ReceiverUpdate
  PROVE  IInv' /\ Forward /\ rcv'.read = rcv.read /\ UNCHANGED given
<1> DEFINE a == [acks |-> rcv.acklist, una |-> rcv.nxt, wnd |-> ikcp_wnd_unused(rcv)]
<1>1. /\ ~reading /\ toSnd' = Fits(toSnd, {a}, AckCap)
      /\ rcv' = [rcv EXCEPT !.acklist = {}, !.tell = FALSE]
      /\ UNCHANGED <<hop, first, given, snd, reading, toRcv, calm>>
  BY DEF ReceiverUpdate
<1>2. /\ Types /\ first \in Sns /\ RcvTypes(rcv) /\ SndTypes(snd)
      /\ Turn(first, rcv.nxt) \in Nat
  BY Numbers DEF IInv, Types
<1>3. /\ DOMAIN rcv' = RcvFields /\ rcv'.nxt = rcv.nxt /\ rcv'.queue = rcv.queue
      /\ rcv'.buf = rcv.buf /\ rcv'.acklist = {} /\ rcv'.tell = FALSE
      /\ rcv'.read = rcv.read
  <2>1. DOMAIN rcv = RcvFields
    BY <1>2 DEF RcvTypes
  <2> QED  BY <1>1, <2>1 DEF RcvFields
<1>4. a \in Answers
  <2>1. Len(rcv.queue) \in Nat /\ RcvWnd \in Nat
    BY <1>2, LenProperties, Bounds DEF RcvTypes
  <2>2. ikcp_wnd_unused(rcv) \in 0..RcvWnd
    <3> DEFINE l == Len(rcv.queue)
    <3>1. l \in Nat /\ RcvWnd \in Nat
      BY <2>1
    <3>2. ikcp_wnd_unused(rcv) = Larger(0, RcvWnd - l)
      BY DEF ikcp_wnd_unused
    <3> HIDE DEF l
    <3> QED  BY <3>1, <3>2 DEF Larger
  <2> QED  BY <1>2, <2>2 DEF Answers, RcvTypes
<1>5. \A d \in toSnd' : d \in toSnd \/ d = a
  BY <1>1 DEF Fits
<1>6. Types'
  <2>1. RcvTypes(rcv')
    BY <1>2, <1>3 DEF RcvTypes
  <2>2. toSnd' \subseteq Answers
    BY <1>2, <1>4, <1>5 DEF Types
  <2> QED  BY <1>1, <1>2, <2>1, <2>2 DEF Types
<1>7. InPlace'
  <2>1. PICK b \in Nat : PlacedFrom(b)
    BY DEF IInv, InPlace
  <2>2. ReceiverFits(first, b, Turn(first, snd.nxt), rcv')
    BY <1>3, <2>1 DEF PlacedFrom, ReceiverFits
  <2>3. PlacedFrom(b)'
    BY <1>1, <2>1, <2>2 DEF PlacedFrom
  <2> QED  BY <2>3 DEF InPlace
<1>8. Rests(hop, first, rcv)
  BY <1>1 DEF IInv, QueueFits
<1>9. QueueFits(hop, first, reading, rcv)'
  <2>1. Waiting(first, rcv') = Waiting(first, rcv)
    BY <1>3 DEF Waiting
  <2>2. Rests(hop, first, rcv')
    BY <1>3, <1>8, <2>1 DEF Rests
  <2> QED  BY <1>1, <2>2 DEF QueueFits
<1>10. \A n : Received(first, rcv', n) <=> Received(first, rcv, n)
  BY <1>3 DEF Received
<1>11. AnswersTrue(first, rcv', toSnd')
  <2>1. Turn(first, rcv.nxt) <= Turn(first, rcv.nxt)
    BY <1>2, Still
  <2>2. ASSUME NEW d \in toSnd'
        PROVE  /\ Turn(first, d.una) <= Turn(first, rcv'.nxt)
               /\ \A n \in d.acks : Received(first, rcv', n)
    <3>1. CASE d \in toSnd
      BY <1>3, <1>10, <3>1 DEF IInv, AnswersTrue
    <3>2. CASE d = a
      <4>1. d.una = rcv.nxt /\ d.acks = rcv.acklist
        BY <3>2
      <4> QED  BY <1>3, <1>10, <2>1, <4>1 DEF IInv, AnswersTrue
    <3> QED  BY <1>5, <3>1, <3>2
  <2> QED  BY <1>3, <2>2 DEF AnswersTrue
<1>12. NoneMissing(first, snd, rcv')
  BY <1>10 DEF IInv, NoneMissing
<1>13. SomeOwed(first, snd, rcv', toSnd')
  <2>1. rcv'.nxt \notin DOMAIN rcv'.buf
    BY <1>3, <1>8 DEF Rests
  <2>2. RcvTypes(rcv')
    BY <1>6 DEF Types
  <2>3. Owed(first, snd, rcv', toSnd', rcv'.nxt)
    BY <1>2, <1>11, <1>12, <2>1, <2>2, OwedNext
  <2>4. rcv'.nxt \in Sns
    BY <2>2 DEF RcvTypes
  <2> QED  BY <2>3, <2>4 DEF SomeOwed
<1>14. Forward
  BY <1>1, <1>2, <1>3, Still DEF Forward
<1>15. IInv'
  BY <1>1, <1>6, <1>7, <1>9, <1>11, <1>12, <1>13 DEF IInv
<1> QED  BY <1>1, <1>3, <1>14, <1>15

\* How far an answer's una is from a segment in snd_buf.
LEMMA UnaDiff ==
  ASSUME IInv, NEW d \in toSnd, NEW n \in DOMAIN snd.buf
  PROVE  /\ itimediff(d.una, n) = Turn(first, d.una) - Turn(first, n)
         /\ n \in Sns /\ Turn(first, d.una) \in Nat /\ Turn(first, n) \in Nat
<1>1. PICK b \in Nat : PlacedFrom(b)
  BY DEF IInv, InPlace
<1>2. /\ Types /\ first \in Sns /\ SndTypes(snd) /\ SenderFits(first, b, given, snd)
      /\ given \in 0..MaxPackets /\ RcvTypes(rcv)
  BY <1>1, Numbers DEF IInv, Types, PlacedFrom
<1> DEFINE x == Turn(first, d.una)
           y == Turn(first, n)
           z == Turn(first, rcv.nxt)
           m == Turn(first, snd.nxt)
<1>3. d.una \in Sns /\ n \in Sns
  BY <1>2, SenderPlaces DEF Types, Answers
<1>4. x \in Nat /\ y \in Nat /\ z \in Nat /\ m \in Nat
  BY <1>2, <1>3, TurnOf, Numbers
<1>5. m <= MaxPackets /\ z <= m /\ x <= z /\ y < m
  <2>1. m <= MaxPackets
    BY <1>2, SenderPlaces
  <2>2. z <= m
    BY <1>1 DEF PlacedFrom, ReceiverFits
  <2>3. x <= z
    BY DEF IInv, AnswersTrue
  <2>4. y < m
    BY <1>2 DEF SenderFits
  <2> QED  BY <2>1, <2>2, <2>3, <2>4
<1>6. x - y < Half /\ y - x <= Half
  <2>1. MaxPackets + RcvWnd <= Half /\ RcvWnd >= 1 /\ MaxPackets \in Nat /\ RcvWnd \in Nat
        /\ Half \in Nat
    BY Bounds
  <2> HIDE DEF x, y, z, m
  <2> QED  BY <1>4, <1>5, <2>1
<1>7. itimediff(d.una, n) = x - y
  BY <1>2, <1>3, <1>6, DiffOfPlaces
<1> QED  BY <1>3, <1>4, <1>7

\* ikcp_input at the sender: what it lets go is at the receiver, and what is owed to the
\* receiver stays in snd_buf.
LEMMA AnsweredStep ==
  ASSUME IInv, NEW d \in toSnd, Answered(d)
  PROVE  IInv' /\ Forward /\ UNCHANGED <<given, rcv>>
<1>1. PICK kept \in BOOLEAN, maxack \in Newest(d), more \in Mores :
        \E skipped \in SUBSET Before(maxack) : SenderInput(d, kept, maxack, skipped, more)
  BY DEF Answered
<1>2. PICK skipped \in SUBSET Before(maxack) : SenderInput(d, kept, maxack, skipped, more)
  BY <1>1
<1>3. /\ toSnd' \subseteq toSnd /\ UNCHANGED <<hop, first, given, rcv, reading, toRcv, calm>>
      /\ more \in 0..2
  <2>1. more \in 0..2
    BY <1>1 DEF Mores
  <2> QED  BY <1>2, <2>1 DEF SenderInput
<1>4. PICK b \in Nat : PlacedFrom(b)
  BY DEF IInv, InPlace
<1>5. /\ Types /\ first \in Sns /\ SndTypes(snd) /\ SenderFits(first, b, given, snd)
      /\ given \in 0..MaxPackets /\ d \in Answers
  BY <1>4, Numbers DEF IInv, Types, PlacedFrom
<1> DEFINE t == InputAnswer(snd, d, maxack, skipped, more)
<1>6. snd' = t
  BY <1>2 DEF SenderInput, InputAnswer
<1>7. /\ SndTypes(t) /\ SenderFits(first, b, given, t) /\ t.nxt = snd.nxt
      /\ Turn(first, snd.una) <= Turn(first, t.una)
      /\ \A n : n \in DOMAIN t.buf <=>
           n \in DOMAIN snd.buf /\ itimediff(d.una, n) <= 0 /\ n \notin d.acks
  BY <1>3, <1>5, Answering
<1> HIDE DEF t
<1>8. Types'
  BY <1>3, <1>5, <1>6, <1>7 DEF Types
<1>9. InPlace'
  <2>1. PlacedFrom(b)'
    BY <1>3, <1>4, <1>6, <1>7 DEF PlacedFrom
  <2> QED  BY <2>1 DEF InPlace
<1>10. AnswersTrue(first, rcv, toSnd)' /\ QueueFits(hop, first, reading, rcv)'
  BY <1>3 DEF IInv, AnswersTrue
<1>11. NoneMissing(first, t, rcv)
  <2> SUFFICES ASSUME NEW n \in Sns, Turn(first, n) < Turn(first, snd.nxt),
                      n \notin DOMAIN t.buf
               PROVE  Received(first, rcv, n)
    BY <1>7 DEF NoneMissing
  <2>1. CASE n \notin DOMAIN snd.buf
    BY <2>1 DEF IInv, NoneMissing
  <2>2. CASE n \in d.acks
    BY <2>2 DEF IInv, AnswersTrue
  <2>3. CASE n \in DOMAIN snd.buf /\ ~(itimediff(d.una, n) <= 0)
    <3> DEFINE x == Turn(first, d.una)
               y == Turn(first, n)
               z == Turn(first, rcv.nxt)
    <3>1. itimediff(d.una, n) = x - y /\ x \in Nat /\ y \in Nat
      BY <2>3, UnaDiff
    <3>2. x <= z /\ z \in Nat
      BY <1>5, Numbers DEF IInv, AnswersTrue
    <3> HIDE DEF x, y, z
    <3>3. y < z
      BY <2>3, <3>1, <3>2
    <3> QED  BY <3>3 DEF Received, y, z
  <2> QED  BY <1>7, <2>1, <2>2, <2>3
<1>12. SomeOwed(first, t, rcv, toSnd')
  <2>1. PICK n \in Sns : Owed(first, snd, rcv, toSnd, n)
    BY DEF IInv, SomeOwed
  <2>2. n \in DOMAIN snd.buf => n \in DOMAIN t.buf
    <3> SUFFICES ASSUME n \in DOMAIN snd.buf
                 PROVE  n \in DOMAIN t.buf
      OBVIOUS
    <3> DEFINE x == Turn(first, d.una)
               y == Turn(first, n)
    <3>1. itimediff(d.una, n) = x - y /\ x \in Nat /\ y \in Nat
      BY UnaDiff
    <3>2. x <= y /\ n \notin d.acks
      BY <2>1 DEF Owed
    <3> HIDE DEF x, y
    <3>3. itimediff(d.una, n) <= 0
      BY <3>1, <3>2
    <3> QED  BY <1>7, <3>2, <3>3
  <2>3. Owed(first, t, rcv, toSnd', n)
    BY <1>3, <1>7, <2>1, <2>2 DEF Owed
  <2> QED  BY <2>3 DEF SomeOwed
<1>13. Forward
  BY <1>3, <1>5, <1>6, <1>7, Still DEF Forward
<1>14. IInv'
  BY <1>3, <1>6, <1>8, <1>9, <1>10, <1>11, <1>12 DEF IInv
<1> QED  BY <1>3, <1>13, <1>14

\* A conversation as it is found: the packets before the first number are in the
\* receiver's queue.
LEMMA InitInv == Init => IInv
<1> SUFFICES ASSUME Init PROVE IInv
  OBVIOUS
<1>1. /\ first \in Sns /\ RcvWnd \in Nat /\ MaxPackets \in Nat /\ RcvWnd >= 1
      /\ Turn(first, first) = 0 /\ CwndMax \in Nat /\ CwndMax >= RcvWnd
      /\ ThreshMin \in ThreshMin..ThreshMax
  <2>1. first \in Sns
    BY Bounds DEF Init
  <2>2. ThreshMax \in Nat /\ ThreshMax >= ThreshMin /\ ThreshMin = 2
    BY CwndBounds
  <2> QED  BY <2>1, <2>2, Bounds, CwndBounds, TurnOf
<1>2. /\ given \in Nat /\ given <= RcvWnd /\ given <= MaxPackets
      /\ hop = "viewer" => given = 0
  <2>1. Smaller(RcvWnd, MaxPackets) <= RcvWnd /\ Smaller(RcvWnd, MaxPackets) <= MaxPackets
        /\ Smaller(RcvWnd, MaxPackets) \in Int
    BY <1>1 DEF Smaller
  <2>2. given \in 0..Smaller(RcvWnd, MaxPackets) \/ given = 0
    BY DEF Init
  <2>3. hop = "viewer" => given = 0
    BY DEF Init
  <2> QED  BY <1>1, <2>1, <2>2, <2>3
<1>3. /\ snd = [queue |-> <<>>, buf |-> NoSegments, una |-> first, nxt |-> first,
                rmt_wnd |-> RcvWnd - given, cwnd |-> IF first = 0 THEN 0 ELSE RcvWnd,
                ssthresh |-> ThreshMin, probing |-> FALSE, updated |-> first # 0]
      /\ reading = FALSE /\ toRcv = {} /\ toSnd = {} /\ calm = FALSE
      /\ hop \in Hops /\ first \in FirstSns
  BY DEF Init
<1>4. DOMAIN NoSegments = {}
  BY DEF NoSegments
<1>5. SndTypes(snd)
  <2>1. RcvWnd - given \in 0..RcvWnd
    BY <1>1, <1>2
  <2>2. 0 \in 0..CwndMax /\ RcvWnd \in 0..CwndMax
    BY <1>1
  <2>3. <<>> \in Seq(Packets)
    BY EmptySeq
  <2> QED  BY <1>1, <1>3, <1>4, <2>1, <2>2, <2>3 DEF SndTypes, SndFields, BufTypes
<1> DEFINE q == [k \in 1..given |-> k]
<1>6. rcv = [nxt |-> first, queue |-> q, buf |-> NoSegments, acklist |-> {}, tell |-> FALSE,
             read |-> <<>>]
  BY DEF Init
<1>7. q \in Seq(Packets) /\ Len(q) = given /\ \A k \in 1..given : q[k] = k
  <2>1. \A k \in 1..given : k \in Packets
    BY <1>1, <1>2 DEF Packets
  <2>2. q = [j \in 1..given |-> q[j]] /\ \A j \in 1..given : q[j] \in Packets
    BY <2>1
  <2>3. \A k \in 1..given : q[k] = k
    OBVIOUS
  <2> HIDE DEF q
  <2> QED  BY <1>2, <2>2, <2>3, PacketSeq
<1> HIDE DEF q
<1>8. /\ rcv.nxt = first /\ rcv.queue = q /\ rcv.buf = NoSegments /\ rcv.acklist = {}
      /\ rcv.tell = FALSE /\ rcv.read = <<>> /\ DOMAIN rcv = RcvFields
  BY <1>6 DEF RcvFields
<1>9. RcvTypes(rcv)
  <2>1. <<>> \in Seq(Packets)
    BY EmptySeq
  <2> QED  BY <1>1, <1>4, <1>7, <1>8, <2>1 DEF RcvTypes
<1>10. Types
  <2>1. given \in 0..MaxPackets
    BY <1>1, <1>2
  <2>2. NetTypes(toRcv) /\ toSnd \subseteq Answers
    BY <1>3 DEF NetTypes
  <2>3. reading \in BOOLEAN /\ calm \in BOOLEAN /\ hop \in Hops /\ first \in FirstSns
    BY <1>3
  <2> QED  BY <1>5, <1>9, <2>1, <2>2, <2>3 DEF Types
<1>11. InPlace
  <2>1. /\ snd.queue = <<>> /\ snd.buf = NoSegments /\ snd.una = first /\ snd.nxt = first
        /\ Len(<<>>) = 0
    BY <1>3
  <2>2. SenderFits(first, given, given, snd)
    <3>1. SndWnd \in Nat
      BY Bounds
    <3> QED  BY <1>1, <1>2, <1>4, <2>1, <3>1 DEF SenderFits
  <2>3. ReceiverFits(first, given, Turn(first, snd.nxt), rcv)
    <3>1. 0 + given = given + 0 /\ given <= RcvWnd /\ 0 <= 0
      BY <1>2
    <3>2. \A k \in 1..given : k = 0 + k
      BY <1>2
    <3> QED  BY <1>1, <1>4, <1>7, <1>8, <2>1, <3>1, <3>2 DEF ReceiverFits
  <2>4. PlacedFrom(given)
    BY <1>3, <2>2, <2>3 DEF PlacedFrom, NetFits
  <2> QED  BY <1>2, <2>4 DEF InPlace
<1>12. QueueFits(hop, first, reading, rcv)
  <2>1. Waiting(first, rcv) = {}
    BY <1>4, <1>8 DEF Waiting
  <2>2. IsFiniteSet({}) /\ Cardinality({}) = 0
    BY FS_EmptySet
  <2>3. Len(rcv.queue) + 0 <= RcvWnd
    BY <1>1, <1>2, <1>7, <1>8
  <2>4. hop = "viewer" => rcv.queue = <<>>
    <3> SUFFICES ASSUME given = 0 PROVE q = <<>>
      BY <1>2, <1>8
    <3> QED  BY <1>7, EmptySeq
  <2>5. Rests(hop, first, rcv)
    BY <1>4, <1>8, <2>1, <2>2, <2>3, <2>4 DEF Rests
  <2> QED  BY <1>3, <2>5 DEF QueueFits
<1>13. AnswersTrue(first, rcv, toSnd)
  BY <1>3, <1>8 DEF AnswersTrue
<1>14. snd.nxt = first /\ rcv.nxt = first
  BY <1>3, <1>8
<1>15. NoneMissing(first, snd, rcv)
  <2> SUFFICES ASSUME NEW n \in Sns, Turn(first, n) < 0 PROVE FALSE
    BY <1>1, <1>14 DEF NoneMissing
  <2>1. Turn(first, n) \in Nat
    BY <1>1, TurnOf
  <2> QED  BY <2>1
<1>16. SomeOwed(first, snd, rcv, toSnd)
  <2>1. Turn(first, first) <= Turn(first, first)
    BY <1>1
  <2> QED  BY <1>1, <1>3, <1>14, <2>1 DEF SomeOwed, Owed
<1> QED  BY <1>10, <1>11, <1>12, <1>13, <1>15, <1>16 DEF IInv

\* Every step keeps the invariant, moves neither end back, and is a step of the channel.
LEMMA NextStep ==
  ASSUME IInv, [Next]_vars
  PROVE  IInv' /\ Forward /\ first' = first /\ [Channel!Next]_<<given, rcv.read>>
<1>1. CASE Send
  BY <1>1, SendStep DEF Channel!Next, Send, SendPacket
<1>2. CASE Update
  BY <1>2, UpdateStep DEF Update, SenderUpdate
<1>3. CASE ReceiverUpdate
  BY <1>3, AnswerStep DEF ReceiverUpdate
<1>4. CASE Recv
  BY <1>4, RecvStep DEF Channel!Next, Recv
<1>5. ASSUME NEW d \in toRcv, Arrive(d)
      PROVE  IInv' /\ Forward /\ first' = first /\ [Channel!Next]_<<given, rcv.read>>
  BY <1>5, InputStep DEF Arrive, ReceiverInput
<1>6. ASSUME NEW d \in toSnd, Answered(d)
      PROVE  IInv' /\ Forward /\ first' = first /\ [Channel!Next]_<<given, rcv.read>>
  BY <1>6, AnsweredStep DEF Answered, SenderInput
<1>7. ASSUME toRcv' \subseteq toRcv, toSnd' \subseteq toSnd, calm' \in BOOLEAN,
             UNCHANGED <<hop, first, given, snd, rcv, reading>>
      PROVE  IInv' /\ Forward /\ first' = first /\ [Channel!Next]_<<given, rcv.read>>
  BY <1>7, NetworkStep
<1>8. calm \in BOOLEAN
  BY DEF IInv, Types
<1>9. ASSUME NEW d \in toRcv, LoseData(d)
      PROVE  IInv' /\ Forward /\ first' = first /\ [Channel!Next]_<<given, rcv.read>>
  <2>1. /\ toRcv' \subseteq toRcv /\ toSnd' \subseteq toSnd /\ calm' \in BOOLEAN
        /\ UNCHANGED <<hop, first, given, snd, rcv, reading>>
    BY <1>8, <1>9 DEF LoseData
  <2> QED  BY <1>7, <2>1
<1>10. ASSUME NEW d \in toSnd, LoseAnswer(d)
       PROVE  IInv' /\ Forward /\ first' = first /\ [Channel!Next]_<<given, rcv.read>>
  <2>1. /\ toRcv' \subseteq toRcv /\ toSnd' \subseteq toSnd /\ calm' \in BOOLEAN
        /\ UNCHANGED <<hop, first, given, snd, rcv, reading>>
    BY <1>8, <1>10 DEF LoseAnswer
  <2> QED  BY <1>7, <2>1
<1>11. CASE Calm
  <2>1. /\ toRcv' \subseteq toRcv /\ toSnd' \subseteq toSnd /\ calm' \in BOOLEAN
        /\ UNCHANGED <<hop, first, given, snd, rcv, reading>>
    BY <1>8, <1>11 DEF Calm
  <2> QED  BY <1>7, <2>1
<1>12. CASE UNCHANGED vars
  <2>1. /\ toRcv' \subseteq toRcv /\ toSnd' \subseteq toSnd /\ calm' \in BOOLEAN
        /\ UNCHANGED <<hop, first, given, snd, rcv, reading>>
    BY <1>8, <1>12 DEF vars
  <2> QED  BY <1>7, <2>1
<1> QED  BY <1>1, <1>2, <1>3, <1>4, <1>5, <1>6, <1>9, <1>10, <1>11, <1>12 DEF Next

-----------------------------------------------------------------------------
(* What the invariant says.                                                 *)

\* The places of both ends, and how they compare.
LEMMA Places ==
  ASSUME IInv
  PROVE  /\ Turn(first, snd.una) <= Turn(first, rcv.nxt)
         /\ Turn(first, rcv.nxt) <= Turn(first, snd.nxt)
         /\ Turn(first, snd.una) <= MaxPackets /\ Turn(first, rcv.nxt) <= MaxPackets
         /\ itimediff(snd.nxt, snd.una) = Turn(first, snd.nxt) - Turn(first, snd.una)
         /\ itimediff(snd.nxt, snd.una) \in 0..SndWnd
<1>1. PICK b \in Nat : PlacedFrom(b)
  BY DEF IInv, InPlace
<1>2. PICK n \in Sns : Owed(first, snd, rcv, toSnd, n)
  BY DEF IInv, SomeOwed
<1>3. /\ Types /\ first \in Sns /\ given \in 0..MaxPackets /\ SndTypes(snd)
      /\ SenderFits(first, b, given, snd)
  BY <1>1, Numbers DEF IInv, Types, PlacedFrom
<1> DEFINE x == Turn(first, snd.una)
           y == Turn(first, rcv.nxt)
           z == Turn(first, snd.nxt)
           w == Turn(first, n)
<1>4. x \in Nat /\ y \in Nat /\ z \in Nat /\ w \in Nat /\ MaxPackets \in Nat
  BY <1>3, Numbers, TurnOf, Bounds
<1>5. z <= MaxPackets /\ itimediff(snd.nxt, snd.una) = z - x
      /\ itimediff(snd.nxt, snd.una) \in 0..SndWnd
  BY <1>3, SenderPlaces
<1>6. y <= z /\ x <= z
  BY <1>1, <1>3 DEF PlacedFrom, ReceiverFits, SenderFits
<1>7. w <= y /\ (x <= w \/ z <= w)
  BY <1>2, <1>3 DEF Owed, SenderFits
<1> HIDE DEF x, y, z, w
<1>8. x <= y /\ x <= MaxPackets /\ y <= MaxPackets
  BY <1>4, <1>5, <1>6, <1>7
<1> QED  BY <1>5, <1>6, <1>8 DEF x, y, z

\* The types that the runs check.
LEMMA TypesChecked == Types => TypeOK
BY DEF Types, TypeOK, SndTypes, RcvTypes, NetTypes, BufTypes, CwndMax, ThreshMax

\* The receiver holds at most two windows.
LEMMA ReceiverHolds == IInv => ReceiverBounded
<1> SUFFICES ASSUME IInv PROVE ReceiverBounded
  OBVIOUS
<1>1. PICK b \in Nat : PlacedFrom(b)
  BY DEF IInv, InPlace
<1>2. /\ first \in Sns /\ rcv.nxt \in Sns /\ RcvTypes(rcv)
      /\ ReceiverFits(first, b, Turn(first, snd.nxt), rcv)
  BY <1>1, Numbers DEF IInv, Types, PlacedFrom
<1>3. ASSUME NEW n \in DOMAIN rcv.buf
      PROVE  itimediff(n, rcv.nxt) \in 0..(RcvWnd - 1)
  <2> DEFINE x == Turn(first, n)
             y == Turn(first, rcv.nxt)
  <2>1. n \in Sns
    BY <1>2 DEF RcvTypes
  <2>2. x \in Nat /\ y \in Nat /\ RcvWnd \in Nat /\ RcvWnd >= 1 /\ MaxPackets \in Nat
        /\ MaxPackets + RcvWnd <= Half /\ Half \in Nat
    BY <1>2, <2>1, TurnOf, Bounds
  <2>3. y <= x /\ x < y + RcvWnd
    BY <1>2 DEF ReceiverFits
  <2> HIDE DEF x, y
  <2>4. x - y < Half /\ y - x <= Half /\ x - y \in 0..(RcvWnd - 1)
    BY <2>2, <2>3
  <2>5. itimediff(n, rcv.nxt) = x - y
    BY <1>2, <2>1, <2>4, DiffOfPlaces DEF x, y
  <2> QED  BY <2>4, <2>5
<1>4. hop = "viewer" /\ ~reading => rcv.queue = <<>>
  BY DEF IInv, QueueFits, Rests
<1> QED  BY <1>2, <1>3, <1>4 DEF ReceiverBounded, ReceiverFits

\* The windows meet.
LEMMA WindowsDoMeet == IInv => WindowsMeet
<1> SUFFICES ASSUME IInv PROVE WindowsMeet
  OBVIOUS
<1> DEFINE x == Turn(first, snd.una)
           y == Turn(first, rcv.nxt)
           z == Turn(first, snd.nxt)
<1>1. first \in Sns /\ snd.una \in Sns /\ rcv.nxt \in Sns /\ x \in Nat /\ y \in Nat /\ z \in Nat
  BY Numbers DEF IInv
<1>2. /\ x <= y /\ y <= z /\ y <= MaxPackets
      /\ itimediff(snd.nxt, snd.una) = z - x /\ itimediff(snd.nxt, snd.una) \in 0..SndWnd
  BY Places
<1>3. /\ MaxPackets \in Nat /\ RcvWnd \in Nat /\ RcvWnd >= 1 /\ Half \in Nat
      /\ MaxPackets + RcvWnd <= Half
  BY Bounds
<1> HIDE DEF x, y, z
<1>4. y - x < Half /\ x - y <= Half /\ y - x \in 0..(z - x)
  BY <1>1, <1>2, <1>3
<1>5. itimediff(rcv.nxt, snd.una) = y - x
  BY <1>1, <1>4, DiffOfPlaces DEF x, y
<1> QED  BY <1>2, <1>4, <1>5 DEF WindowsMeet

\* A packet that has a number is in snd_buf or at the receiver.
LEMMA HeldByOne == IInv => AcknowledgedIsHeld
<1> SUFFICES ASSUME IInv, NEW p \in 1..Numbered
             PROVE  \/ \E n \in DOMAIN snd.buf : snd.buf[n].data = p
                    \/ \E k \in DOMAIN rcv.read : rcv.read[k] = p
                    \/ \E k \in DOMAIN rcv.queue : rcv.queue[k] = p
                    \/ \E n \in DOMAIN rcv.buf : rcv.buf[n] = p
  BY DEF AcknowledgedIsHeld
<1>1. PICK b \in Nat : PlacedFrom(b)
  BY DEF IInv, InPlace
<1>2. /\ Types /\ first \in Sns /\ given \in 0..MaxPackets /\ SndTypes(snd)
      /\ SenderFits(first, b, given, snd) /\ RcvTypes(rcv)
      /\ ReceiverFits(first, b, Turn(first, snd.nxt), rcv)
  BY <1>1, Numbers DEF IInv, Types, PlacedFrom
<1> DEFINE w == Turn(first, rcv.nxt)
           z == Turn(first, snd.nxt)
           l == Len(rcv.read)
           q == Len(rcv.queue)
           t == p - b - 1
<1>3. w \in Nat /\ z \in Nat /\ l \in Nat /\ q \in Nat
  BY <1>2, LenProperties, Numbers DEF RcvTypes
<1>4. z <= MaxPackets /\ MaxPackets < SnMod /\ SnMod \in Nat /\ MaxPackets \in Nat
  <2>1. z <= MaxPackets
    BY <1>2, SenderPlaces
  <2>2. /\ MaxPackets \in Nat /\ RcvWnd >= 1 /\ MaxPackets + RcvWnd <= Half /\ RcvWnd \in Nat
        /\ Half <= SnMod - Half /\ Half \in Nat /\ SnMod \in Nat
    BY Bounds
  <2>3. MaxPackets < SnMod
    BY <2>2
  <2> QED  BY <2>1, <2>2, <2>3
<1>5. p \in Nat /\ p >= 1 /\ p <= b + z
  <2> DEFINE s == Len(snd.queue)
  <2>1. s \in Nat
    BY <1>2, SenderPlaces
  <2>2. Numbered = given - s /\ given = (b + z) + s
    BY <1>2 DEF Numbered, SenderFits
  <2> HIDE DEF s, z
  <2>3. Numbered = b + z
    BY <1>1, <1>3, <2>1, <2>2
  <2> QED  BY <1>1, <1>3, <2>3
<1>6. CASE p <= l
  <2>1. p \in 1..l
    BY <1>3, <1>5, <1>6
  <2>2. p \in DOMAIN rcv.read
    BY <1>2, <2>1, LenProperties DEF RcvTypes
  <2> QED  BY <1>2, <2>1, <2>2 DEF ReceiverFits
<1>7. l + q = b + w
  BY <1>2 DEF ReceiverFits
<1>8. CASE l < p /\ p <= b + w
  <2>1. p - l \in 1..q /\ l + (p - l) = p
    <3> HIDE DEF l, q, w
    <3> QED  BY <1>1, <1>3, <1>5, <1>7, <1>8
  <2>2. p - l \in DOMAIN rcv.queue
    BY <1>2, <2>1, LenProperties DEF RcvTypes
  <2>3. rcv.queue[p - l] = l + (p - l)
    BY <1>2, <2>1 DEF ReceiverFits
  <2> QED  BY <2>1, <2>2, <2>3
<1>9. CASE b + w < p
  <2> DEFINE n == (first + t) % SnMod
  <2>1. t \in Nat /\ w <= t /\ t < z /\ t < SnMod
    <3> HIDE DEF w, z
    <3> QED  BY <1>1, <1>3, <1>4, <1>5, <1>9
  <2>2. n \in Sns /\ Turn(first, n) = t
    <3>1. Turn(first, first) = 0
      BY <1>2, TurnOf
    <3> HIDE DEF t
    <3>2. Turn(first, first) + t < SnMod /\ Turn(first, first) + t = t
      BY <2>1, <3>1
    <3> QED  BY <1>2, <2>1, <3>2, TurnAhead
  <2> HIDE DEF n
  <2>3. PacketOf(first, b, n) = p
    <3>1. b + t + 1 = p
      BY <1>1, <1>5
    <3> QED  BY <2>2, <3>1 DEF PacketOf
  <2>4. n \in DOMAIN snd.buf \/ n \in DOMAIN rcv.buf
    <3>1. ~(Turn(first, n) < w) /\ Turn(first, n) < z
      <4> HIDE DEF t, w, z
      <4> QED  BY <1>3, <2>1, <2>2
    <3> QED  BY <2>2, <3>1 DEF IInv, NoneMissing, Received
  <2>5. CASE n \in DOMAIN snd.buf
    BY <1>2, <2>3, <2>5 DEF SenderFits
  <2>6. CASE n \in DOMAIN rcv.buf
    BY <1>2, <2>3, <2>6 DEF ReceiverFits
  <2> QED  BY <2>4, <2>5, <2>6
<1> QED
  <2> HIDE DEF l, w
  <2> QED  BY <1>1, <1>3, <1>5, <1>6, <1>8, <1>9

\* A conversation does not go once around the numbers.
PlacesBounded == Turn(first, snd.una) <= MaxPackets /\ Turn(first, rcv.nxt) <= MaxPackets

\* The assumption on MaxPackets bounds both ends' numbers.
LEMMA Bounded == IInv => PlacesBounded
BY Places DEF PlacesBounded

\* Moving forward by places is moving forward by numbers.
LEMMA ForwardByNumbers ==
  ASSUME IInv, IInv', Forward, first' = first
  PROVE  itimediff(snd'.una, snd.una) >= 0 /\ itimediff(rcv'.nxt, rcv.nxt) >= 0
<1>1. ASSUME NEW a \in Sns, NEW c \in Sns, Turn(first, a) <= Turn(first, c),
             Turn(first, c) <= MaxPackets
      PROVE  itimediff(c, a) >= 0
  <2> DEFINE x == Turn(first, a)
             y == Turn(first, c)
  <2>1. first \in Sns /\ x \in Nat /\ y \in Nat
    BY Numbers, TurnOf DEF IInv
  <2>2. /\ MaxPackets \in Nat /\ RcvWnd \in Nat /\ RcvWnd >= 1 /\ Half \in Nat
        /\ MaxPackets + RcvWnd <= Half /\ x <= y /\ y <= MaxPackets
    BY <1>1, Bounds
  <2> HIDE DEF x, y
  <2>3. y - x < Half /\ x - y <= Half /\ y - x >= 0
    BY <2>1, <2>2
  <2>4. itimediff(c, a) = y - x
    BY <2>1, <2>3, DiffOfPlaces DEF x, y
  <2> QED  BY <2>3, <2>4
<1>2. snd.una \in Sns /\ rcv.nxt \in Sns
  BY Numbers DEF IInv
<1>3. snd'.una \in Sns /\ rcv'.nxt \in Sns
  BY DEF IInv, Types, SndTypes, RcvTypes
<1>4. IInv' => PlacesBounded'
  BY Bounded, PTL
<1>5. Turn(first, snd'.una) <= MaxPackets /\ Turn(first, rcv'.nxt) <= MaxPackets
  BY <1>4 DEF PlacesBounded
<1> QED  BY <1>1, <1>2, <1>3, <1>5 DEF Forward

-----------------------------------------------------------------------------
(* The theorems.                                                            *)

\* The invariant holds for ever.
THEOREM Invariant == Spec => []IInv
<1>1. IInv /\ [Next]_vars => IInv'
  BY NextStep
<1> QED  BY <1>1, InitInv, PTL DEF Spec

\* Types hold, the receiver holds at most two windows, at most snd_wnd numbers are
\* outstanding, and what the receiver expects is among them or just above (ikcp_input,
\* ikcp_flush): whatever the network does, no segment is taken for another.
THEOREM WindowsKept == Spec => []WindowInv
<1>1. IInv => WindowInv
  BY TypesChecked, ReceiverHolds, WindowsDoMeet DEF IInv, WindowInv
<1> QED  BY <1>1, Invariant, PTL

\* No acknowledgement is for a segment that was dropped: a packet the sender has let go
\* (ikcp_parse_una, ikcp_parse_ack) is at the receiver.
THEOREM NoPacketDropped == Spec => []AcknowledgedIsHeld
<1> QED  BY HeldByOne, Invariant, PTL

\* Old acknowledgements do not move snd_una back, and rcv_nxt only grows.
THEOREM EndsMoveForward == Spec => NeverBack
<1>1. IInv /\ IInv' /\ [Next]_vars =>
        [itimediff(snd'.una, snd.una) >= 0 /\ itimediff(rcv'.nxt, rcv.nxt) >= 0]_vars
  BY NextStep, ForwardByNumbers
<1> QED  BY <1>1, Invariant, PTL DEF Spec, NeverBack

\* What ikcp_recv returns is what ikcp_send was given, in order, once, none left out:
\* the conversation implements the channel.
THEOREM KeepsPromise == Spec => ImplementsChannel
<1>1. Init => Channel!Init
  <2> SUFFICES ASSUME Init PROVE Channel!Init
    OBVIOUS
  <2>1. given \in 0..MaxPackets
    BY InitInv DEF IInv, Types
  <2>2. rcv.read = <<>>
    BY DEF Init
  <2> QED  BY <2>1, <2>2 DEF Channel!Init
<1>2. IInv /\ [Next]_vars => [Channel!Next]_<<given, rcv.read>>
  BY NextStep
<1> QED  BY <1>1, <1>2, Invariant, PTL DEF Spec, ImplementsChannel, Channel!Spec

=============================================================================
