-------------------------------- MODULE Kcp --------------------------------
(***************************************************************************)
(* One KCP conversation (ikcp.c, the same file in camera/, media/ and       *)
(* car_detect_qt/), as the two hops of the video use it:                    *)
(*   "camera"  camera -> server: every ikcp_send is followed by ikcp_flush  *)
(*             under the same mutex (camera/rtsp.c), and the server calls   *)
(*             ikcp_recv ONCE per datagram (media/RtspConnect.cc);          *)
(*   "viewer"  server -> viewer: onNaluUdp only calls ikcp_send, the update *)
(*             thread flushes, and the viewer calls ikcp_recv until nothing *)
(*             is left (car_detect_qt/kcphandler.cpp).                      *)
(* Packets go one way: nobody calls ikcp_send at the receiving end.  So the *)
(* sender has no acknowledgements to send, the receiver no packets, and the *)
(* window the sender announces is never closed.                             *)
(*                                                                          *)
(* An RTP packet is at most MTU - 4 = 1396 bytes (camera/rtsp.h) and fits    *)
(* one segment (mss = 1450 - 24), so frg is always 0: a segment is a        *)
(* packet.  A packet is named by its place in the stream.  The network      *)
(* loses, duplicates and reorders datagrams.  Time is abstract: a segment's *)
(* retransmission timer and the window probe's timer may expire at any      *)
(* flush; the order of timestamps decides nothing but how soon a segment is *)
(* sent again, and is left open where the code compares them.               *)
(***************************************************************************)
EXTENDS Integers, Sequences, FiniteSets, SequencesExt

CONSTANTS
  Hops,        \* the hops to look at, of {"camera", "viewer"}
  SndWnd,      \* kcp->snd_wnd (256)
  RcvWnd,      \* kcp->rcv_wnd (128 at the server, 256 at the viewer)
  FastResend,  \* kcp->fastresend (2)
  FastLimit,   \* kcp->fastlimit (5)
  SnMod,       \* sequence numbers are taken modulo this (2^32)
  FirstSns,    \* numbers with which a conversation is found
  MaxPackets,  \* bound: packets sent
  DataCap,     \* bound: datagrams on their way to the receiver
  AckCap       \* bound: datagrams on their way to the sender

ASSUME HopsKnown == Hops \subseteq {"camera", "viewer"} /\ Hops # {}
ASSUME WindowsPositive == SndWnd \in Nat \ {0} /\ RcvWnd \in Nat \ {0}
ASSUME FastNat == FastResend \in Nat \ {0} /\ FastLimit \in Nat \ {0}
\* Half of the numbering is more than both windows: _itimediff has a meaning.
ASSUME NumbersSuffice == SnMod \in Nat /\ SnMod > 2 * (SndWnd + RcvWnd)
ASSUME FirstSnsOk == FirstSns \subseteq 0..(SnMod - 1) /\ FirstSns # {}
ASSUME BoundsOk == MaxPackets \in Nat /\ DataCap \in Nat \ {0} /\ AckCap \in Nat \ {0}
\* Datagrams may be late by any time, so a conversation must end within half a turn of
\* the numbers for an old one not to be taken for a new one: 2^31 packets.
ASSUME OneTurn == MaxPackets + RcvWnd <= SnMod \div 2

Sns == 0..(SnMod - 1)
Packets == 1..MaxPackets
ThreshMin == 2                          \* IKCP_THRESH_MIN

\* (IINT32)(a - b) of two 32-bit numbers
itimediff(a, b) ==
  LET d == (a - b) % SnMod IN IF d < SnMod \div 2 THEN d ELSE d - SnMod

Smaller(a, b) == IF a < b THEN a ELSE b
Larger(a, b) == IF a > b THEN a ELSE b

\* The m numbers from n on.
Following(n, m) == {(n + k) % SnMod : k \in 0..(m - 1)}

VARIABLES
  hop,      \* which hop this conversation is
  first,    \* the number of its first segment
  given,    \* packets ikcp_send has accepted
  snd,      \* the sender's ikcpcb
  rcv,      \* the receiver's ikcpcb
  reading,  \* the receiving program has had a datagram and goes on to read
  toRcv,    \* datagrams under way to the receiver
  toSnd,    \* datagrams under way to the sender
  calm      \* the network has become good: nothing is lost, and what was sent
            \* arrives before the ends act again

vars == <<hop, first, given, snd, rcv, reading, toRcv, toSnd, calm>>

\* snd_buf and rcv_buf are lists in the order of the numbers: functions from numbers,
\* to a segment and what the sender knows of it, and to a packet.
Sending == [data : Packets, xmit : 0..(FastLimit + 1), fastack : 0..FastResend]
Push(n, p) == [cmd |-> "push", sn |-> n, data |-> p]
Wask == [cmd |-> "wask", sn |-> 0, data |-> 0]

NoSegments == [n \in {} |-> 0]

\* Acknowledgements of one flush; they share una and wnd.  WINS adds nothing else.
Answers == [acks : SUBSET Sns, una : Sns, wnd : 0..RcvWnd]

TypeOK ==
  /\ hop \in Hops /\ first \in FirstSns /\ given \in 0..MaxPackets
  /\ snd.queue \in Seq(Packets)
  /\ DOMAIN snd.buf \subseteq Sns /\ \A n \in DOMAIN snd.buf : snd.buf[n] \in Sending
  /\ snd.una \in Sns /\ snd.nxt \in Sns
  /\ snd.rmt_wnd \in 0..RcvWnd
  /\ snd.cwnd \in 0..Larger(RcvWnd, Larger(ThreshMin, SndWnd \div 2) + FastResend)
  /\ snd.ssthresh \in ThreshMin..Larger(ThreshMin, SndWnd \div 2)
  /\ snd.probing \in BOOLEAN /\ snd.updated \in BOOLEAN
  /\ rcv.nxt \in Sns /\ rcv.queue \in Seq(Packets) /\ rcv.read \in Seq(Packets)
  /\ DOMAIN rcv.buf \subseteq Sns /\ \A n \in DOMAIN rcv.buf : rcv.buf[n] \in Packets
  /\ rcv.acklist \subseteq Sns /\ rcv.tell \in BOOLEAN /\ reading \in BOOLEAN
  /\ toRcv \subseteq {Push(n, p) : n \in Sns, p \in Packets} \cup {Wask}
  /\ toSnd \subseteq Answers /\ calm \in BOOLEAN

\* Either a new conversation (ikcp_create), numbered from 0, or one that has gone on
\* for long and is idle: everything is acknowledged, and the server may have
\* packets in its queue, which it reads only when datagrams come.
Init ==
  /\ hop \in Hops
  /\ first \in FirstSns
  /\ given \in IF hop = "camera" /\ first # 0 THEN 0..Smaller(RcvWnd, MaxPackets) ELSE {0}
  /\ snd = [queue |-> <<>>, buf |-> NoSegments, una |-> first, nxt |-> first,
            rmt_wnd |-> RcvWnd - given, cwnd |-> IF first = 0 THEN 0 ELSE RcvWnd,
            ssthresh |-> ThreshMin, probing |-> FALSE, updated |-> first # 0]
  /\ rcv = [nxt |-> first, queue |-> [k \in 1..given |-> k], buf |-> NoSegments,
            acklist |-> {}, tell |-> FALSE,
            read |-> <<>>]      \* history: packets ikcp_recv has returned
  /\ reading = FALSE /\ toRcv = {} /\ toSnd = {} /\ calm = FALSE

-----------------------------------------------------------------------------
(* Plausible mistakes, used to see that the properties can fail.            *)

\* Segments move up although one before them is missing.
MoveWithGap(r) ==
  LET n == Smaller(Cardinality(DOMAIN r.buf), RcvWnd - Len(r.queue))
      lowest == CHOOSE S \in SUBSET DOMAIN r.buf :
                  /\ Cardinality(S) = n
                  /\ \A a \in S, b \in DOMAIN r.buf \ S : itimediff(a, b) < 0
      up == SetToSortSeq(lowest, LAMBDA a, b : itimediff(a, b) < 0)
  IN [r EXCEPT !.queue = @ \o [j \in 1..n |-> r.buf[up[j]]],
               !.buf = Restrict(@, DOMAIN @ \ lowest),
               !.nxt = (@ + n) % SnMod]

\* An acknowledgement is taken for all the numbers before it as well.
ParseAckCumulative(s, acks) ==
  [s EXCEPT !.buf =
     Restrict(@, {n \in DOMAIN @ : \A a \in acks : itimediff(n, a) > 0})]

\* The window counts the segments in snd_buf instead of the numbers since snd_una.
FillByCount(s) ==
  LET room == Smaller(s.cwnd, Smaller(SndWnd, s.rmt_wnd)) - Cardinality(DOMAIN s.buf)
      n == Larger(0, Smaller(Len(s.queue), room))
      new == Following(s.nxt, n)
  IN [s EXCEPT !.queue = SubSeq(@, n + 1, Len(@)),
               !.buf = [x \in DOMAIN @ \cup new |->
                          IF x \in new
                          THEN [data |-> s.queue[((x - s.nxt) % SnMod) + 1],
                                xmit |-> 0, fastack |-> 0]
                          ELSE @[x]],
               !.nxt = (@ + n) % SnMod]

\* snd_una is taken from the wrong end of snd_buf.
ShrinkToLast(s) ==
  [s EXCEPT !.una = IF DOMAIN s.buf = {} THEN s.nxt
                    ELSE CHOOSE n \in DOMAIN s.buf :
                           \A o \in DOMAIN s.buf : itimediff(n, o) >= 0]

\* The sender does not ask for the window again.
ProbeNever(s, due) == [s EXCEPT !.probing = FALSE]

-----------------------------------------------------------------------------
(* The sending end.                                                         *)

\* ikcp_send: one segment at the end of snd_queue
ikcp_send(s, p) == [s EXCEPT !.queue = Append(@, p)]

\* ikcp_shrink_buf: snd_una is the first number in snd_buf
ikcp_shrink_buf(s) ==
  [s EXCEPT !.una = IF DOMAIN s.buf = {} THEN s.nxt
                    ELSE CHOOSE n \in DOMAIN s.buf :
                           \A o \in DOMAIN s.buf : itimediff(n, o) <= 0]

\* ikcp_parse_una: segments before una leave the front of snd_buf.
ikcp_parse_una(s, una) ==
  [s EXCEPT !.buf = Restrict(@, {n \in DOMAIN @ : itimediff(una, n) <= 0})]

\* ikcp_parse_ack, for each acknowledged number; one outside snd_una..snd_nxt is
\* not in snd_buf.
ikcp_parse_ack(s, acks) == [s EXCEPT !.buf = Restrict(@, DOMAIN @ \ acks)]

\* ikcp_parse_fastack: `skipped' are the segments whose timestamp is not after maxack's.
Passed(n, g, maxack, skipped) ==
  IF itimediff(maxack, n) > 0 /\ n \in skipped
  THEN [g EXCEPT !.fastack = Smaller(@ + 1, FastResend)] ELSE g
ikcp_parse_fastack(s, maxack, skipped) ==
  IF itimediff(maxack, s.una) < 0 \/ itimediff(maxack, s.nxt) >= 0 THEN s
  ELSE [s EXCEPT !.buf = [n \in DOMAIN @ |-> Passed(n, @[n], maxack, skipped)]]

\* The growth of cwnd at the end of ikcp_input.  incr counts bytes, and lies between
\* cwnd and cwnd + 1 segments: above ssthresh it may add none, one or two segments.
GrowCwnd(s, una0, more) ==
  IF itimediff(s.una, una0) > 0 /\ s.cwnd < s.rmt_wnd
  THEN [s EXCEPT !.cwnd = Smaller(s.rmt_wnd, @ + IF @ < s.ssthresh THEN 1 ELSE more)]
  ELSE s

\* ikcp_flush, first part: the probe of a closed window.  It asks when the timer
\* that an earlier flush started has run out.
AsksWindow(s, due) == s.rmt_wnd = 0 /\ s.probing /\ due
ProbeTimer(s, due) == [s EXCEPT !.probing = s.rmt_wnd = 0]

\* min of snd_wnd, rmt_wnd and cwnd (nocwnd is 0)
EffectiveWnd(s) == Smaller(s.cwnd, Smaller(SndWnd, s.rmt_wnd))

\* Second part: segments move from snd_queue to snd_buf while the window allows.
FillSndBuf(s) ==
  LET room == EffectiveWnd(s) - itimediff(s.nxt, s.una)
      n == Larger(0, Smaller(Len(s.queue), room))
      new == Following(s.nxt, n)
  IN [s EXCEPT !.queue = SubSeq(@, n + 1, Len(@)),
               !.buf = [x \in DOMAIN @ \cup new |->
                          IF x \in new
                          THEN [data |-> s.queue[((x - s.nxt) % SnMod) + 1],
                                xmit |-> 0, fastack |-> 0]
                          ELSE @[x]],
               !.nxt = (@ + n) % SnMod]

\* Third part: which segments are sent.  `late' are the numbers whose timer ran out.
IsNew(g) == g.xmit = 0
IsLate(n, g, late) == g.xmit > 0 /\ n \in late
IsSkipped(n, g, late) ==
  g.xmit > 0 /\ n \notin late /\ g.fastack >= FastResend /\ g.xmit <= FastLimit
NeedSend(n, g, late) == IsNew(g) \/ IsLate(n, g, late) \/ IsSkipped(n, g, late)

Sent(n, g, late) ==
  IF NeedSend(n, g, late)
  THEN [g EXCEPT !.xmit = Smaller(@ + 1, FastLimit + 1),
                 !.fastack = IF IsSkipped(n, g, late) THEN 0 ELSE @]
  ELSE g
Transmit(s, late) == [s EXCEPT !.buf = [n \in DOMAIN @ |-> Sent(n, @[n], late)]]

\* Last part: ssthresh and cwnd after a fast resend, after a timeout, and at least 1;
\* `f' is the state before the segments were marked as sent.
HalfOf(n) == Larger(ThreshMin, n \div 2)
AdjustCwnd(s, f, late) ==
  LET fast == HalfOf(itimediff(f.nxt, f.una))
  IN IF \E n \in DOMAIN f.buf : IsLate(n, f.buf[n], late)
     THEN [s EXCEPT !.ssthresh = HalfOf(EffectiveWnd(f)), !.cwnd = 1]
     ELSE IF \E n \in DOMAIN f.buf : IsSkipped(n, f.buf[n], late)
     THEN [s EXCEPT !.ssthresh = fast, !.cwnd = fast + FastResend]
     ELSE [s EXCEPT !.cwnd = Larger(1, @)]

\* The datagrams of a flush: the probe, and one for each segment that is sent.
FlushOut(s, f, due, late) ==
  (IF AsksWindow(s, due) THEN {Wask} ELSE {}) \cup
  {Push(n, f.buf[n].data) : n \in {m \in DOMAIN f.buf : NeedSend(m, f.buf[m], late)}}

-----------------------------------------------------------------------------
(* The receiving end.                                                       *)

InWindow(r, sn) == itimediff(sn, (r.nxt + RcvWnd) % SnMod) < 0

\* ikcp_parse_data, first half: the segment takes its place in rcv_buf, once.
InsertSegment(r, sn, p) ==
  IF sn \in DOMAIN r.buf THEN r
  ELSE [r EXCEPT !.buf = [n \in DOMAIN @ \cup {sn} |-> IF n = sn THEN p ELSE @[n]]]

\* The loop that moves segments from rcv_buf to rcv_queue: those that follow on, as
\* far as the queue has room.
Movable(r, k) ==
  \A j \in 0..(k - 1) : (r.nxt + j) % SnMod \in DOMAIN r.buf /\ Len(r.queue) + j < RcvWnd
MoveToQueue(r) ==
  LET n == CHOOSE k \in 0..RcvWnd : Movable(r, k) /\ ~Movable(r, k + 1)
  IN [r EXCEPT !.queue = @ \o [j \in 1..n |-> r.buf[(r.nxt + j - 1) % SnMod]],
               !.buf = Restrict(@, DOMAIN @ \ Following(r.nxt, n)),
               !.nxt = (@ + n) % SnMod]

\* ikcp_input of a PUSH: acknowledged when it is below the upper edge of the
\* window, kept when it is also not below the lower one.
InputPush(r, d) ==
  LET r1 == [r EXCEPT !.acklist = @ \cup {d.sn}]
  IN IF ~InWindow(r, d.sn) THEN r
     ELSE IF itimediff(d.sn, r.nxt) < 0 THEN r1
     ELSE MoveToQueue(InsertSegment(r1, d.sn, d.data))

\* ikcp_input of a window probe: the window is told at the next flush.
InputWask(r) == [r EXCEPT !.tell = TRUE]

\* ikcp_recv of one packet: the caller gets it, what waits in rcv_buf moves up, and a
\* queue that was full makes the receiver tell its window.
TakePacket(r) == [r EXCEPT !.queue = Tail(@), !.read = Append(@, r.queue[1])]
ikcp_recv(r) ==
  LET r1 == MoveToQueue(TakePacket(r))
  IN [r1 EXCEPT !.tell = @ \/ (Len(r.queue) >= RcvWnd /\ Len(r1.queue) < RcvWnd)]

\* ikcp_wnd_unused
ikcp_wnd_unused(r) == Larger(0, RcvWnd - Len(r.queue))

-----------------------------------------------------------------------------
(* The steps.                                                               *)

\* A datagram that does not fit any more is lost.
Fits(net, out, cap) == IF Cardinality(net \cup out) <= cap THEN net \cup out ELSE net

\* ikcp_flush as a whole.  (Here and below, \E x \in {e} gives the value e a name.)
Flush(s, due, late) ==
  \E f \in {FillSndBuf(ProbeTimer(s, due))} :
    /\ snd' = AdjustCwnd(Transmit(f, late), f, late)
    /\ toRcv' = Fits(toRcv, FlushOut(s, f, due, late), DataCap)

EndsMayAct == calm => toRcv = {} /\ toSnd = {}

\* The numbers whose timers may have run out.
SentSns == DOMAIN snd.buf

\* rtp_send_h264 at the camera: ikcp_send and ikcp_flush; a flush before the first
\* ikcp_update does nothing.  onNaluUdp at the server: ikcp_send.
SendPacket(due, late) ==
  /\ EndsMayAct
  /\ given < MaxPackets
  /\ given' = given + 1
  /\ LET s == ikcp_send(snd, given + 1)
     IN \/ hop = "camera" /\ snd.updated /\ Flush(s, due, late)
        \/ ~(hop = "camera" /\ snd.updated) /\ snd' = s /\ UNCHANGED toRcv
  /\ UNCHANGED <<hop, first, rcv, reading, toSnd, calm>>

\* ikcp_update at the sender, at a moment when it flushes.
SenderUpdate(due, late) ==
  /\ EndsMayAct
  /\ Flush([snd EXCEPT !.updated = TRUE], due, late)
  /\ UNCHANGED <<hop, first, given, rcv, reading, toSnd, calm>>

\* ikcp_update at the receiver: the acknowledgements and WINS go out, if any.
ReceiverUpdate ==
  /\ EndsMayAct /\ ~reading
  /\ rcv.acklist # {} \/ rcv.tell
  /\ toSnd' = Fits(toSnd, {[acks |-> rcv.acklist, una |-> rcv.nxt,
                            wnd |-> ikcp_wnd_unused(rcv)]}, AckCap)
  /\ rcv' = [rcv EXCEPT !.acklist = {}, !.tell = FALSE]
  /\ UNCHANGED <<hop, first, given, snd, reading, toRcv, calm>>

\* A datagram reaches the receiver, which reads before it does anything else (at the
\* server under _kcpMutex, at the viewer on its one thread); the network may keep a copy.
ReceiverInput(d, kept) ==
  /\ ~reading
  /\ d \in toRcv /\ (kept => ~calm)
  /\ rcv' = IF d.cmd = "push" THEN InputPush(rcv, d) ELSE InputWask(rcv)
  /\ reading' = (rcv'.queue # <<>>)
  /\ toRcv' = IF kept THEN toRcv ELSE toRcv \ {d}
  /\ UNCHANGED <<hop, first, given, snd, toSnd, calm>>

\* ikcp_recv after ikcp_input: once at the server, until nothing is left at the viewer.
Recv ==
  /\ reading
  /\ rcv' = ikcp_recv(rcv)
  /\ reading' = (hop = "viewer" /\ rcv'.queue # <<>>)
  /\ UNCHANGED <<hop, first, given, snd, toRcv, toSnd, calm>>

\* ikcp_input of an answer: every segment of it sets rmt_wnd and cuts off what una
\* covers, and an ACK removes its own segment; then maxack, then cwnd.  The network
\* may keep a copy.
SenderInput(d, kept, maxack, skipped, more) ==
  /\ d \in toSnd /\ (kept => ~calm)
  /\ \E s1 \in {ikcp_shrink_buf(ikcp_parse_una([snd EXCEPT !.rmt_wnd = d.wnd], d.una))} :
     \E s2 \in {ikcp_shrink_buf(ikcp_parse_ack(s1, d.acks))} :
     \E s3 \in {IF d.acks # {} THEN ikcp_parse_fastack(s2, maxack, skipped) ELSE s2} :
       snd' = GrowCwnd(s3, snd.una, more)
  /\ toSnd' = IF kept THEN toSnd ELSE toSnd \ {d}
  /\ UNCHANGED <<hop, first, given, rcv, reading, toRcv, calm>>

LoseData(d) ==
  /\ d \in toRcv /\ ~calm
  /\ toRcv' = toRcv \ {d}
  /\ UNCHANGED <<hop, first, given, snd, rcv, reading, toSnd, calm>>

LoseAnswer(d) ==
  /\ d \in toSnd /\ ~calm
  /\ toSnd' = toSnd \ {d}
  /\ UNCHANGED <<hop, first, given, snd, rcv, reading, toRcv, calm>>

\* The network becomes good; what was under way arrives first.
Calm ==
  /\ ~calm
  /\ calm' = TRUE
  /\ UNCHANGED <<hop, first, given, snd, rcv, reading, toRcv, toSnd>>

\* The choices of a step: whether the probe's timer has run out; which of the
\* acknowledged numbers is the newest; which segments it passes; the growth of cwnd.
Dues == {FALSE, snd.probing}
Newest(d) == IF d.acks = {} THEN {d.una} ELSE d.acks
Before(maxack) == {n \in SentSns : itimediff(maxack, n) > 0}
Mores == IF snd.cwnd < snd.ssthresh THEN {0} ELSE 0..2

Send == \E due \in Dues, late \in SUBSET SentSns : SendPacket(due, late)
Update == \E due \in Dues, late \in SUBSET SentSns : SenderUpdate(due, late)
Arrive(d) == \E kept \in BOOLEAN : ReceiverInput(d, kept)
Answered(d) ==
  \E kept \in BOOLEAN, maxack \in Newest(d), more \in Mores :
    \E skipped \in SUBSET Before(maxack) : SenderInput(d, kept, maxack, skipped, more)

Next ==
  \/ Send
  \/ Update
  \/ ReceiverUpdate \/ Recv
  \/ \E d \in toRcv : Arrive(d) \/ LoseData(d)
  \/ \E d \in toSnd : Answered(d) \/ LoseAnswer(d)
  \/ Calm

Spec == Init /\ [][Next]_vars

\* Both ends are updated for ever (the camera's main loop, the update threads, the
\* viewer's timer); a segment's timer and the probe's timer run out in the end; and
\* the network is good from some time on.  Nobody is obliged to send a new packet.
Fairness ==
  /\ SF_vars(SenderUpdate(snd.probing, SentSns))
  /\ SF_vars(ReceiverUpdate)
  /\ WF_vars(\E d \in toRcv : ReceiverInput(d, FALSE)) /\ WF_vars(Recv)
  /\ WF_vars(\E d \in toSnd : Answered(d))
  /\ WF_vars(Calm)

LiveSpec == Spec /\ Fairness

-----------------------------------------------------------------------------
(* Properties.                                                              *)

Channel == INSTANCE KcpChannel WITH given <- given, read <- rcv.read

\* The conversation keeps its promise: what ikcp_recv returns is what ikcp_send was
\* given, in order and once, whatever the network does to the datagrams.
ImplementsChannel == Channel!Spec

\* The number of packets that have got a sequence number.
Numbered == given - Len(snd.queue)

\* A packet the sender has let go is at the receiver: an acknowledgement is never
\* for a segment that was dropped at the window's edge or in the reordering buffer.
AcknowledgedIsHeld ==
  \A p \in 1..Numbered :
    \/ \E n \in DOMAIN snd.buf : snd.buf[n].data = p
    \/ \E k \in DOMAIN rcv.read : rcv.read[k] = p
    \/ \E k \in DOMAIN rcv.queue : rcv.queue[k] = p
    \/ \E n \in DOMAIN rcv.buf : rcv.buf[n] = p

\* The receiver holds at most two windows: a queue of rcv_wnd packets, and a buffer
\* within rcv_wnd numbers of rcv_nxt, however long its reader lets it wait.
\* The viewer's reader leaves nothing that could be read; the server's, which reads
\* once per datagram, may leave a full queue.
ReceiverBounded ==
  /\ Len(rcv.queue) <= RcvWnd
  /\ \A n \in DOMAIN rcv.buf : itimediff(n, rcv.nxt) \in 0..(RcvWnd - 1)
  /\ hop = "viewer" /\ ~reading => rcv.queue = <<>>

\* The sender has at most snd_wnd numbers outstanding, and what the receiver expects
\* next is among them or just above: no segment under way can be taken for one of
\* another turn of the numbering.
WindowsMeet ==
  /\ itimediff(snd.nxt, snd.una) \in 0..SndWnd
  /\ itimediff(rcv.nxt, snd.una) \in 0..itimediff(snd.nxt, snd.una)

\* Both windows are kept: types, what the receiver holds, and what is outstanding.
WindowInv == TypeOK /\ ReceiverBounded /\ WindowsMeet

\* Neither end goes back, although old acknowledgements arrive after newer ones.
NeverBack ==
  [][itimediff(snd'.una, snd.una) >= 0 /\ itimediff(rcv'.nxt, rcv.nxt) >= 0]_vars

\* In the end every packet is accepted by the receiver, closed windows, lost probes and
\* lost answers notwithstanding.  By ReceiverBounded the viewer has then read all of
\* them; the server may keep up to rcv_wnd of them until the next datagram.
AllAccepted == <>[](Len(rcv.read) + Len(rcv.queue) = given)
=============================================================================
