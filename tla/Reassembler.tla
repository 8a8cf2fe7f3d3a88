---------------------------- MODULE Reassembler ----------------------------
(***************************************************************************)
(* The way of a picture from a camera to a viewer's decoder: the camera     *)
(* cuts H.264 units into RTP packets (camera/rtsp.c, rtp_send_h264) and the *)
(* viewer puts them together (car_detect_qt/h264rtpreassembler.cpp).        *)
(*                                                                          *)
(* KCP keeps the packets of one camera in order; the packets of several     *)
(* cameras reach the viewer's ONE reassembler in any order.  A viewer may   *)
(* subscribe at any moment of a camera's numbering.  The reassembler is     *)
(* written to survive missing packets, so packets may be missing.           *)
(***************************************************************************)
EXTENDS Integers, Sequences, FiniteSets

CONSTANTS Streams,         \* cameras
          SeqMod,          \* sequence numbers are taken modulo this (2^16)
          MaxSeqGap,       \* _maxSeqGap (3)
          MaxFuBufferSize, \* _maxFuBufferSize (1024)
          MaxFragments,    \* bound: packets of one unit
          MaxUnits,        \* bound: units a camera sends
          MaxLoss          \* bound: packets of a camera missing in a row

ASSUME StreamsFinite == IsFiniteSet(Streams) /\ Streams # {}
ASSUME SeqModNat == SeqMod \in Nat \ {0}
ASSUME MaxSeqGapNat == MaxSeqGap \in Nat
ASSUME MaxFuBufferSizePositive == MaxFuBufferSize \in Nat \ {0}
ASSUME BoundsNat == MaxFragments \in Nat \ {0} /\ MaxUnits \in Nat /\ MaxLoss \in Nat
\* The packets of one unit have different numbers (2^16 packets are 90 megabytes).
ASSUME UnitsFit == MaxFragments < SeqMod

Seqs == 0..(SeqMod - 1)

\* What a packet carries: a fragment of a unit, which says where it belongs.
Fragments == [stream : Streams, unit : 1..MaxUnits, index : 1..MaxFragments,
              of : 1..MaxFragments]

VARIABLES
  unit,    \* number of the unit each camera is sending
  size,    \* packets it takes
  info,    \* it is a parameter set or SEI (types 6, 7, 8), not a slice
  sent,    \* packets of it that were sent
  seq,     \* rtp_seq, the number of the camera's next packet
  intact,  \* history: none of the sent packets of this unit is missing
  missing, \* packets not processed since the last one that was
  turned,  \* history: a unit that was not finished has been in the buffer for a whole
           \* turn of the numbering
  rx,      \* the members of H264RtpReassembler
  shown    \* the last frame given to onFrameReady

camVars == <<unit, size, info, sent, seq, intact, missing>>
vars == <<camVars, turned, rx, shown>>

NoFragments == [k \in {} |-> 0]

TypeOK ==
  /\ unit \in [Streams -> 0..MaxUnits]
  /\ size \in [Streams -> 0..MaxFragments]
  /\ info \in [Streams -> BOOLEAN]
  /\ sent \in [Streams -> 0..MaxFragments]
  /\ seq \in [Streams -> Seqs]
  /\ intact \in [Streams -> BOOLEAN]
  /\ missing \in [Streams -> 0..(MaxUnits * MaxFragments)]
  /\ turned \in BOOLEAN
  /\ rx.lastSeq \in Seqs /\ rx.fuStart \in Seqs /\ rx.fuExpected \in Seqs
  /\ DOMAIN rx.fuBuffer \subseteq Seqs
  /\ Cardinality(DOMAIN rx.fuBuffer) <= MaxFuBufferSize
  /\ rx.fuStarted <=> DOMAIN rx.fuBuffer # {}
  /\ \A k \in DOMAIN rx.fuBuffer : rx.fuBuffer[k] \in Fragments
  /\ rx.frame \in Seq(Seq(Fragments))
  /\ shown.stream \in Streams /\ shown.frame \in Seq(Seq(Fragments))

\* The viewer subscribes: the camera is between two units, anywhere in its numbering.
Init ==
  /\ unit = [s \in Streams |-> 0]
  /\ size = [s \in Streams |-> 0]
  /\ info = [s \in Streams |-> FALSE]
  /\ sent = [s \in Streams |-> 0]
  /\ seq \in [Streams -> Seqs]
  /\ intact = [s \in Streams |-> TRUE]
  /\ missing = [s \in Streams |-> 0]
  /\ turned = FALSE
  /\ rx = [lastSeq |-> 0, fuStarted |-> FALSE, fuStart |-> 0, fuExpected |-> 0,
           fuBuffer |-> NoFragments, frame |-> <<>>]
  /\ shown = [stream |-> CHOOSE s \in Streams : TRUE, frame |-> <<>>]

-----------------------------------------------------------------------------
(* Plausible mistakes, used to see that the properties can fail.            *)

\* Every number that is not larger than the last one is old, wrap or not.
DuplicateWithoutWrap(r, n) == r.lastSeq # 0 /\ n <= r.lastSeq

\* The fragments are put together although one is missing.
CompleteAlways(q, p) == TRUE

\* A unit that was not finished stays in the buffer when the next one starts.
FuStartKeepsBuffer(q, p) ==
  [q EXCEPT !.fuStarted = TRUE, !.fuStart = p.seq,
            !.fuExpected = (p.seq + 1) % SeqMod,
            !.fuBuffer = [k \in DOMAIN @ \cup {p.seq} |->
                            IF k = p.seq THEN p.data ELSE @[k]]]

-----------------------------------------------------------------------------
(* The camera.                                                              *)

\* The next packet of camera s.  A unit that fits is one packet, with the marker
\* unless it is a parameter set or SEI; a longer one is cut into FU-A packets, of
\* which the first has the start bit, and the last the end bit and the marker.
Packet(s) ==
  LET i == sent[s] + 1
  IN  [stream |-> s,
       seq |-> seq[s],
       fu |-> size[s] > 1,
       start |-> i = 1,
       end |-> i = size[s],
       marker |-> IF size[s] > 1 THEN i = size[s] ELSE ~info[s],
       data |-> [stream |-> s, unit |-> unit[s], index |-> i, of |-> size[s]]]

\* The encoder has the next unit for rtp_send_h264.
NextUnit(s) ==
  /\ sent[s] = size[s]
  /\ unit[s] < MaxUnits
  /\ unit' = [unit EXCEPT ![s] = @ + 1]
  /\ \E n \in 1..MaxFragments : size' = [size EXCEPT ![s] = n]
  /\ \E b \in BOOLEAN : info' = [info EXCEPT ![s] = b]
  /\ sent' = [sent EXCEPT ![s] = 0]
  /\ intact' = [intact EXCEPT ![s] = TRUE]
  /\ UNCHANGED <<seq, missing, turned, rx, shown>>

\* next_seq, and the packet is on its way.
Send(s) ==
  /\ sent[s] < size[s]
  /\ sent' = [sent EXCEPT ![s] = @ + 1]
  /\ seq' = [seq EXCEPT ![s] = (@ + 1) % SeqMod]
  /\ UNCHANGED <<unit, size, info>>

\* The number of the next packet is again that with which the buffer's unit began.
Turn(s) == turned' = (turned \/ (rx'.fuStarted /\ rx'.fuStart = seq'[s]))

\* It does not get there.
Lose(s) ==
  /\ Send(s)
  /\ missing[s] < MaxLoss
  /\ missing' = [missing EXCEPT ![s] = @ + 1]
  /\ intact' = [intact EXCEPT ![s] = FALSE]
  /\ UNCHANGED <<rx, shown>>
  /\ Turn(s)

-----------------------------------------------------------------------------
(* The reassembler.                                                         *)

\* A number that is not larger than the last one is a repetition, except around
\* the wrap.  No last number is written 0.
Duplicate(r, n) ==
  /\ r.lastSeq # 0
  /\ n <= r.lastSeq
  /\ ~(r.lastSeq > SeqMod - 1 - MaxSeqGap /\ n < MaxSeqGap)

FuReset(r) ==
  [r EXCEPT !.fuStarted = FALSE, !.fuStart = 0, !.fuExpected = 0, !.fuBuffer = NoFragments]

\* A large gap throws away everything that is half done.
AfterGapTest(r, n) ==
  IF r.lastSeq # 0 /\ (n - r.lastSeq) % SeqMod > MaxSeqGap
  THEN [FuReset(r) EXCEPT !.frame = <<>>]
  ELSE r

\* A unit of one packet.
AfterSingle(q, p) == [FuReset(q) EXCEPT !.frame = Append(@, <<p.data>>)]

FuStart(q, p) ==
  [q EXCEPT !.fuStarted = TRUE, !.fuStart = p.seq, !.fuExpected = (p.seq + 1) % SeqMod,
            !.fuBuffer = [k \in {p.seq} |-> p.data]]

FuInsert(q, p) ==
  [q EXCEPT !.fuExpected = (p.seq + 1) % SeqMod,
            !.fuBuffer = [k \in DOMAIN @ \cup {p.seq} |->
                            IF k = p.seq THEN p.data ELSE @[k]]]

Overflow(q) == Cardinality(DOMAIN q.fuBuffer) > MaxFuBufferSize

\* Going through the map in the order of its keys, every number is the one after
\* its predecessor, the first one is that of the start packet and the last one
\* that of this packet.  The counter is 16 bits wide, the last comparison is not.
Complete(q, p) ==
  LET n == Cardinality(DOMAIN q.fuBuffer)
  IN  /\ DOMAIN q.fuBuffer = q.fuStart..(q.fuStart + n - 1)
      /\ p.seq = ((q.fuStart + n) % SeqMod) - 1

\* The fragments in the order of their numbers.
Assembled(q) ==
  LET keys == DOMAIN q.fuBuffer
      Key(i) == CHOOSE k \in keys : Cardinality({j \in keys : j < k}) = i - 1
  IN  [i \in 1..Cardinality(keys) |-> q.fuBuffer[Key(i)]]

\* The end packet adds the unit to the frame if nothing of it is missing.
AfterEnd(q, p) ==
  FuReset(IF Complete(q, p) THEN [q EXCEPT !.frame = Append(@, Assembled(q))] ELSE q)

\* A packet that ends the function early, with what it leaves behind: older than
\* expected, too far ahead, or one too many for the buffer.
TooOld(q, p) == p.fu /\ ~p.start /\ q.fuStarted /\ p.seq < q.fuExpected
TooFar(q, p) == p.fu /\ ~p.start /\ q.fuStarted /\ p.seq - q.fuExpected > MaxSeqGap
TooMany(q, p) == /\ p.fu /\ ~p.start /\ q.fuStarted /\ ~TooOld(q, p) /\ ~TooFar(q, p)
                 /\ Overflow(FuInsert(q, p))
Early(q, p) == TooOld(q, p) \/ TooFar(q, p) \/ TooMany(q, p)

ProcessRtpNalu(q, p) ==
  CASE ~p.fu                     -> AfterSingle(q, p)
    [] p.fu /\ p.start           -> FuStart(q, p)
    [] TooOld(q, p)              -> q
    [] TooFar(q, p)              -> FuReset(q)
    [] TooMany(q, p)             -> FuReset(q)
    [] p.fu /\ ~p.start /\ q.fuStarted /\ ~Early(q, p) ->
         IF p.end THEN AfterEnd(FuInsert(q, p), p) ELSE FuInsert(q, p)
    [] p.fu /\ ~p.start /\ ~q.fuStarted -> q

\* A packet arrives: handleRtp.
HandleDuplicate(s) ==
  /\ Send(s)
  /\ Duplicate(rx, seq[s])
  /\ missing' = [missing EXCEPT ![s] = @ + 1]
  /\ intact' = [intact EXCEPT ![s] = FALSE]
  /\ UNCHANGED <<rx, shown>>
  /\ Turn(s)

HandleRtp(s) ==
  /\ Send(s)
  /\ ~Duplicate(rx, seq[s])
  /\ LET p == Packet(s)
         before == AfterGapTest(rx, p.seq)
         after == [ProcessRtpNalu(before, p) EXCEPT !.lastSeq = p.seq]
     IN  IF p.marker /\ ~Early(before, p) /\ after.frame # <<>>
         THEN /\ shown' = [stream |-> s, frame |-> after.frame]
              /\ rx' = [after EXCEPT !.frame = <<>>]
         ELSE rx' = after /\ UNCHANGED shown
  /\ missing' = [missing EXCEPT ![s] = 0]
  /\ UNCHANGED intact
  /\ Turn(s)

Next == \E s \in Streams : NextUnit(s) \/ Lose(s) \/ HandleDuplicate(s) \/ HandleRtp(s)

Spec == Init /\ [][Next]_vars

-----------------------------------------------------------------------------
(* Properties.                                                             *)

\* Every unit in frame f has all its fragments, in their order, and units stand in
\* the order in which they were sent.
Whole(f) ==
  /\ \A i \in DOMAIN f :
       /\ Len(f[i]) = f[i][1].of
       /\ \A k \in DOMAIN f[i] : f[i][k] = [f[i][1] EXCEPT !.index = k]
  /\ \A i, j \in DOMAIN f : i < j => f[i][1].unit < f[j][1].unit

\* What a viewer with one camera decodes, and what waits for a marker, is what the
\* camera sent, whichever packets are missing and wherever the numbering wraps: a
\* unit with a hole is never put together, nor the halves of two units, until a unit
\* that was not finished stays in the buffer for a whole turn of the numbering.  Then
\* its fragments and those of another unit fit together, and the code joins them.
FramesAreWhole == ~turned => Whole(shown.frame) /\ Whole(rx.frame)

\* The state has its types (the buffer its limit) and the frames are whole.
FrameInv == TypeOK /\ FramesAreWhole

\* As long as fewer than _maxSeqGap packets in a row have gone missing, the next
\* one is not taken for a repetition, not even across the wrap.
FreshIsNotDuplicate ==
  \A s \in Streams : missing[s] < MaxSeqGap => ~Duplicate(rx, seq[s])

\* A unit all of whose packets were processed reaches the frame, unless it is
\* fragmented and either has more packets than the buffer or does not end before
\* the wrap: then, and only then, it is lost although nothing of it is missing.
WholeUnitIsKept ==
  \A s \in Streams : unit[s] > 0 /\ sent[s] = size[s] /\ intact[s] =>
    LET kept == \E f \in {shown.frame, rx.frame} : \E i \in DOMAIN f :
                  f[i][1].unit = unit[s]
        wraps == seq[s] < size[s]
    IN  kept <=> size[s] = 1 \/ (size[s] <= MaxFuBufferSize /\ ~wraps)

=============================================================================
