-------------------------- MODULE ReassemblerProofs --------------------------
(***************************************************************************)
(* Proofs about Reassembler for one camera: any numbering, any start in it, *)
(* any gap, buffer and packets per unit, whatever packets are missing.      *)
(***************************************************************************)
EXTENDS Reassembler, SequenceTheorems, FiniteSetTheorems, TLAPS

\* The camera, and the hypothesis that it is the only one.
Cam == CHOOSE s \in Streams : TRUE
OneCamera == Streams = {Cam}

-----------------------------------------------------------------------------
(* Counting back from the camera's next number n: number k was Back(n, k)   *)
(* packets ago, as long as that is less than a turn of the numbering.       *)

Succ(n) == IF n + 1 = SeqMod THEN 0 ELSE n + 1
Back(n, k) == IF k <= n THEN n - k ELSE n - k + SeqMod

\* The packets sent so far, at most: all of the earlier units, and i of unit u.
Sent(u, i) == IF u = 0 THEN 0 ELSE (u - 1) * MaxFragments + i

\* How long ago a buffer was started, and how far behind its start a key is.
Age(q, n) == Back(n, q.fuStart)
Offset(q, n, k) == Age(q, n) - Back(n, k)
First(q) == q.fuBuffer[q.fuStart]

-----------------------------------------------------------------------------
(* The inductive invariant.                                                 *)

\* The types of the camera's variables, and of what is shown.
CamTypes ==
  /\ unit \in [Streams -> 0..MaxUnits] /\ size \in [Streams -> 0..MaxFragments]
  /\ info \in [Streams -> BOOLEAN] /\ sent \in [Streams -> 0..MaxFragments]
  /\ seq \in [Streams -> Seqs] /\ intact \in [Streams -> BOOLEAN]
  /\ missing \in [Streams -> 0..(MaxUnits * MaxFragments)]

\* The types of the reassembler's members.
RxTypes(q) ==
  /\ DOMAIN q = {"lastSeq", "fuStarted", "fuStart", "fuExpected", "fuBuffer", "frame"}
  /\ q.lastSeq \in Seqs /\ q.fuStart \in Seqs /\ q.fuExpected \in Seqs
  /\ q.fuStarted \in BOOLEAN /\ q.frame \in Seq(Seq(Fragments))

BufferTypes(q) ==
  /\ DOMAIN q.fuBuffer \subseteq Seqs
  /\ \A k \in DOMAIN q.fuBuffer : q.fuBuffer[k] \in Fragments
  /\ Cardinality(DOMAIN q.fuBuffer) <= MaxFuBufferSize
  /\ q.fuStarted <=> DOMAIN q.fuBuffer # {}

ShownTypes == shown.stream \in Streams /\ shown.frame \in Seq(Seq(Fragments))

\* A unit has at least one packet, and as many are sent.
UnitSent(u, z, i) == i <= z /\ (u > 0 => z > 0) /\ (u = 0 => z = 0)

\* The last number processed is that of the packet before the missing ones, as far as
\* numbers tell.
LastProcessed(q, n, u, i, m) ==
  /\ m <= Sent(u, i)
  /\ q.lastSeq # 0 => /\ m + 1 <= Sent(u, i)
                      /\ m + 1 < SeqMod => Back(n, q.lastSeq) = m + 1

\* The buffer was begun by a start packet, and its keys came after it in order.
\* A key that is no further from the start than the unit is long holds the unit's
\* fragment of that place, and the number behind the unit's last is no key.
KeyFits(q, n, k) ==
  /\ Back(n, k) \in 1..Age(q, n)
  /\ Offset(q, n, k) # First(q).of
  /\ Offset(q, n, k) < First(q).of
       => q.fuBuffer[k] = [First(q) EXCEPT !.index = Offset(q, n, k) + 1]

\* The buffer's unit is the one being sent, or an earlier one that was sent to its end.
UnitFits(q, n, u, z, i) ==
  \/ First(q).unit = u /\ First(q).of = z /\ Age(q, n) = i
  \/ First(q).unit < u /\ Age(q, n) >= First(q).of + i

\* A buffer holds what it started with.  Until it has been there for a whole turn, which
\* t says, it is the start of its unit, and its keys tell their packets.
BufferFits(q, n, u, z, i, t) ==
  q.fuStarted =>
    /\ q.fuStart \in DOMAIN q.fuBuffer /\ First(q).unit <= u
    /\ ~t => /\ First(q).index = 1 /\ UnitFits(q, n, u, z, i)
             /\ \A k \in DOMAIN q.fuBuffer : KeyFits(q, n, k)

\* A buffer that started with number m was there for a whole turn, or one was before.
Turned(t, q, m) == t \/ (q.fuStarted /\ q.fuStart = m)

\* The units of a frame are whole and in order, until t; the current one is there only
\* when it was sent to its end.
FrameFits(f, u, done, t) ==
  /\ ~t => Whole(f)
  /\ \A j \in DOMAIN f : Len(f[j]) >= 1 /\ f[j][1].unit <= u /\ (f[j][1].unit = u => done)

\* A unit of which nothing is missing so far is the only one in the buffer; all of it is
\* there until it overflows the buffer or meets the wrap.
OwnBuffer(q, n, u, z, i) ==
  q.fuStarted => First(q).unit = u /\ First(q).of = z /\ Age(q, n) = i

IntactFits(q, n, u, z, i, m, b) ==
  u > 0 /\ b /\ 1 <= i /\ i < z =>
    /\ m = 0 /\ OwnBuffer(q, n, u, z, i)
    /\ i <= MaxFuBufferSize /\ i <= n =>
         /\ q.fuStarted /\ q.fuStart = n - i /\ q.fuExpected = n
         /\ DOMAIN q.fuBuffer = (n - i)..(n - 1)

\* What every packet keeps of members q, after the i-th packet of unit u.
Good(q, n, u, z, i, t) ==
  /\ RxTypes(q) /\ BufferTypes(q) /\ BufferFits(q, n, u, z, i, t)
  /\ FrameFits(q.frame, u, i = z, t)

IInv ==
  /\ CamTypes /\ ShownTypes /\ turned \in BOOLEAN
  /\ Good(rx, seq[Cam], unit[Cam], size[Cam], sent[Cam], turned)
  /\ UnitSent(unit[Cam], size[Cam], sent[Cam])
  /\ LastProcessed(rx, seq[Cam], unit[Cam], sent[Cam], missing[Cam])
  /\ FrameFits(shown.frame, unit[Cam], sent[Cam] = size[Cam], turned)

\* Unit u is in frame f.
Has(f, u) == \E j \in DOMAIN f : f[j][1].unit = u

\* WholeUnitIsKept for the one camera, by the values of its variables.
Kept(f, g, n, u, z, i, b) ==
  u > 0 /\ i = z /\ b =>
    ((Has(f, u) \/ Has(g, u)) <=> (z = 1 \/ (z <= MaxFuBufferSize /\ ~(n < z))))

\* What is kept, when a gap of no packet at all is not too large.
KInv ==
  /\ IntactFits(rx, seq[Cam], unit[Cam], size[Cam], sent[Cam], missing[Cam], intact[Cam])
  /\ Kept(shown.frame, rx.frame, seq[Cam], unit[Cam], size[Cam], sent[Cam], intact[Cam])

-----------------------------------------------------------------------------
(* Arithmetic.                                                              *)

\* The numbers are those of the remainders of SeqMod, and the next one wraps.
LEMMA NextNumber ==
  ASSUME NEW n \in Seqs
  PROVE  /\ Succ(n) \in Seqs
         /\ (n + 1) % SeqMod = Succ(n)
<1>1. SeqMod \in Nat \ {0}
  BY SeqModNat
<1>2. CASE n + 1 = SeqMod
  BY <1>1, <1>2 DEF Seqs, Succ
<1>3. CASE n + 1 # SeqMod
  <2>1. n + 1 \in 0..(SeqMod - 1)
    BY <1>1, <1>3 DEF Seqs
  <2> QED
    BY <1>1, <1>3, <2>1 DEF Seqs, Succ
<1> QED
  BY <1>2, <1>3

\* Counting back is subtraction modulo SeqMod.
LEMMA BackIsMod ==
  ASSUME NEW n \in Seqs, NEW k \in Seqs
  PROVE  /\ Back(n, k) \in Seqs
         /\ (n - k) % SeqMod = Back(n, k)
<1>1. SeqMod \in Nat \ {0}
  BY SeqModNat
<1>2. n \in Int /\ k \in Int /\ 0 <= n /\ n < SeqMod /\ 0 <= k /\ k < SeqMod
  BY <1>1 DEF Seqs
<1>3. CASE k <= n
  <2>1. n - k \in 0..(SeqMod - 1)
    BY <1>1, <1>2, <1>3
  <2> QED
    BY <1>1, <1>3, <2>1 DEF Back, Seqs
<1>4. CASE ~(k <= n)
  <2>1. n - k + SeqMod \in 0..(SeqMod - 1)
    BY <1>1, <1>2, <1>4
  <2>2. (n - k) % SeqMod = n - k + SeqMod
    BY <1>1, <1>2, <2>1
  <2> QED
    BY <1>4, <2>1, <2>2 DEF Back, Seqs
<1> QED
  BY <1>3, <1>4

\* With the next number everything is one packet further back.
LEMMA BackOfNext ==
  ASSUME NEW n \in Seqs, NEW k \in Seqs
  PROVE  /\ Back(n, k) + 1 < SeqMod => Back(Succ(n), k) = Back(n, k) + 1
         /\ SeqMod > 1 => Back(Succ(n), n) = 1
BY SeqModNat DEF Seqs, Succ, Back

\* There are at least two numbers, and more than packets of a unit.
LEMMA TwoNumbers ==
  /\ SeqMod \in Nat /\ SeqMod > 1 /\ MaxFragments \in Nat /\ MaxFragments < SeqMod
  /\ \A n \in Seqs : Back(Succ(n), n) = 1 /\ Succ(n) # n
<1>1. SeqMod \in Nat /\ MaxFragments \in Nat /\ MaxFragments >= 1 /\ MaxFragments < SeqMod
  BY SeqModNat, BoundsNat, UnitsFit
<1>2. SeqMod > 1
  BY <1>1
<1>3. \A n \in Seqs : Back(Succ(n), n) = 1 /\ Succ(n) # n
  BY <1>1, <1>2 DEF Seqs, Succ, Back
<1> QED
  BY <1>1, <1>2, <1>3

\* The packets sent are counted within the bounds.
LEMMA SentGrows ==
  ASSUME NEW u \in 0..MaxUnits, NEW i \in 0..MaxFragments
  PROVE  /\ Sent(u, i) \in Nat /\ Sent(u, i) <= MaxUnits * MaxFragments
         /\ u > 0 => Sent(u, i + 1) = Sent(u, i) + 1
         /\ Sent(u, i) <= Sent(u + 1, 0)
<1> DEFINE F == MaxFragments
<1>1. F \in Nat /\ MaxUnits \in Nat /\ i \in Nat /\ i <= F /\ u \in Nat /\ u <= MaxUnits
  BY BoundsNat
<1>2. u * F \in Nat /\ (u + 1) * F = u * F + F /\ (u > 0 => (u - 1) * F = u * F - F)
  BY <1>1
<1>3. u * F <= MaxUnits * F /\ MaxUnits * F \in Nat
  BY <1>1
<1>4. u > 0 => (u - 1) * F \in Nat
  BY <1>1
<1> HIDE DEF F
<1>5. CASE u = 0
  <2>1. Sent(u, i) = 0 /\ Sent(u + 1, 0) = 0
    BY <1>1, <1>5 DEF Sent, F
  <2> QED
    BY <1>1, <1>3, <1>5, <2>1 DEF F
<1>6. CASE u > 0
  <2>1. /\ Sent(u, i) = (u - 1) * F + i /\ Sent(u, i + 1) = (u - 1) * F + (i + 1)
        /\ Sent(u + 1, 0) = u * F
    BY <1>1, <1>6 DEF Sent, F
  <2> QED
    BY <1>1, <1>2, <1>3, <1>4, <1>6, <2>1 DEF F
<1> QED
  BY <1>1, <1>5, <1>6

-----------------------------------------------------------------------------
(* The operators on the reassembler's members.                              *)

\* Throwing away the fragments leaves the rest.
LEMMA ResetFields ==
  ASSUME NEW q, RxTypes(q)
  PROVE  /\ RxTypes(FuReset(q)) /\ BufferTypes(FuReset(q))
         /\ ~FuReset(q).fuStarted /\ FuReset(q).frame = q.frame
         /\ FuReset(q).lastSeq = q.lastSeq
<1>1. /\ DOMAIN FuReset(q) = DOMAIN q
      /\ FuReset(q).lastSeq = q.lastSeq /\ FuReset(q).frame = q.frame
  BY DEF RxTypes, FuReset
<1>4. /\ FuReset(q).fuStarted = FALSE /\ FuReset(q).fuBuffer = NoFragments
      /\ FuReset(q).fuStart = 0 /\ FuReset(q).fuExpected = 0
  BY DEF RxTypes, FuReset
<1>2. 0 \in Seqs
  BY SeqModNat DEF Seqs
<1>3. DOMAIN NoFragments = {} /\ Cardinality({}) <= MaxFuBufferSize
  BY FS_EmptySet, MaxFuBufferSizePositive DEF NoFragments
<1> QED
  BY <1>1, <1>2, <1>3, <1>4 DEF RxTypes, BufferTypes

\* A frame takes another unit.
LEMMA AppendFields ==
  ASSUME NEW q, RxTypes(q), NEW w \in Seq(Fragments),
         NEW r, r = [q EXCEPT !.frame = Append(q.frame, w)]
  PROVE  /\ RxTypes(r) /\ r.frame = Append(q.frame, w)
         /\ r.fuBuffer = q.fuBuffer /\ r.lastSeq = q.lastSeq
<1>1. Append(q.frame, w) \in Seq(Seq(Fragments))
  BY AppendProperties DEF RxTypes
<1>2. /\ DOMAIN r = DOMAIN q /\ r.frame = Append(q.frame, w)
      /\ r.lastSeq = q.lastSeq /\ r.fuStarted = q.fuStarted /\ r.fuStart = q.fuStart
      /\ r.fuExpected = q.fuExpected /\ r.fuBuffer = q.fuBuffer
  BY DEF RxTypes
<1> QED
  BY <1>1, <1>2 DEF RxTypes

\* A start packet begins a buffer of its own.
LEMMA StartFields ==
  ASSUME NEW q, RxTypes(q), NEW p, p.seq \in Seqs, p.data \in Fragments
  PROVE  LET r == FuStart(q, p) IN
         /\ RxTypes(r) /\ BufferTypes(r)
         /\ r.fuStarted /\ r.fuStart = p.seq /\ r.fuExpected = Succ(p.seq)
         /\ DOMAIN r.fuBuffer = {p.seq} /\ r.fuBuffer[p.seq] = p.data
         /\ r.frame = q.frame /\ r.lastSeq = q.lastSeq
<1> DEFINE b == [k \in {p.seq} |-> p.data]
<1>1. /\ DOMAIN FuStart(q, p) = DOMAIN q
      /\ FuStart(q, p).lastSeq = q.lastSeq /\ FuStart(q, p).frame = q.frame
  BY DEF RxTypes, FuStart
<1>4. /\ FuStart(q, p).fuStarted = TRUE /\ FuStart(q, p).fuStart = p.seq
      /\ FuStart(q, p).fuExpected = (p.seq + 1) % SeqMod /\ FuStart(q, p).fuBuffer = b
  BY DEF RxTypes, FuStart
<1>5. Cardinality({p.seq}) = 1
  BY FS_Singleton
<1>2. Cardinality({p.seq}) <= MaxFuBufferSize
  BY <1>5, MaxFuBufferSizePositive
<1>3. DOMAIN b = {p.seq} /\ b[p.seq] = p.data
  OBVIOUS
<1> HIDE DEF b
<1>6. (p.seq + 1) % SeqMod = Succ(p.seq) /\ Succ(p.seq) \in Seqs
  BY NextNumber
<1> QED
  BY <1>1, <1>2, <1>3, <1>4, <1>6 DEF RxTypes, BufferTypes

\* Another packet joins the buffer.
LEMMA InsertFields ==
  ASSUME NEW q, RxTypes(q), BufferTypes(q), NEW p, p.seq \in Seqs, p.data \in Fragments
  PROVE  LET r == FuInsert(q, p) IN
         /\ RxTypes(r) /\ r.fuStarted = q.fuStarted /\ r.fuStart = q.fuStart
         /\ r.fuExpected = Succ(p.seq)
         /\ DOMAIN r.fuBuffer = DOMAIN q.fuBuffer \cup {p.seq}
         /\ r.fuBuffer[p.seq] = p.data
         /\ \A k \in DOMAIN q.fuBuffer : k # p.seq => r.fuBuffer[k] = q.fuBuffer[k]
         /\ \A k \in DOMAIN r.fuBuffer : r.fuBuffer[k] \in Fragments
         /\ r.frame = q.frame /\ r.lastSeq = q.lastSeq
         /\ ~Overflow(r) /\ q.fuStarted => BufferTypes(r)
<1> DEFINE K == DOMAIN q.fuBuffer \cup {p.seq}
           b == [k \in K |-> IF k = p.seq THEN p.data ELSE q.fuBuffer[k]]
<1>1. /\ DOMAIN FuInsert(q, p) = DOMAIN q
      /\ FuInsert(q, p).lastSeq = q.lastSeq /\ FuInsert(q, p).frame = q.frame
      /\ FuInsert(q, p).fuStarted = q.fuStarted /\ FuInsert(q, p).fuStart = q.fuStart
  BY DEF RxTypes, FuInsert
<1>8. /\ FuInsert(q, p).fuExpected = (p.seq + 1) % SeqMod
      /\ FuInsert(q, p).fuBuffer = b
  BY DEF RxTypes, FuInsert
<1>9. (p.seq + 1) % SeqMod = Succ(p.seq) /\ Succ(p.seq) \in Seqs
  BY NextNumber
<1>2. /\ DOMAIN b = K /\ b[p.seq] = p.data
      /\ \A k \in DOMAIN q.fuBuffer : k # p.seq => b[k] = q.fuBuffer[k]
  OBVIOUS
<1>3. \A k \in K : b[k] \in Fragments
  BY <1>2 DEF BufferTypes
<1>4. IsFiniteSet(K)
  <2>1. K \in SUBSET Nat /\ \A k \in K : k <= SeqMod
    BY SeqModNat DEF BufferTypes, Seqs
  <2> QED
    BY <2>1, FS_BoundedSetOfNaturals, SeqModNat
<1>5. Cardinality(K) \in Nat
  BY <1>4, FS_CardinalityType
<1> HIDE DEF b
<1>6. DOMAIN FuInsert(q, p).fuBuffer = K
  BY <1>2, <1>8
<1>7. /\ ~Overflow(FuInsert(q, p)) => Cardinality(K) <= MaxFuBufferSize
      /\ K # {} /\ K \subseteq Seqs
  BY <1>5, <1>6, MaxFuBufferSizePositive DEF Overflow, BufferTypes
<1> QED
  BY <1>1, <1>2, <1>3, <1>6, <1>7, <1>8, <1>9 DEF RxTypes, BufferTypes

\* Going through an interval of keys in their order.
LEMMA AssembledInterval ==
  ASSUME NEW q, NEW a \in Nat, NEW c \in Nat, DOMAIN q.fuBuffer = a..(a + c - 1)
  PROVE  /\ Cardinality(DOMAIN q.fuBuffer) = c
         /\ DOMAIN Assembled(q) = 1..c
         /\ Assembled(q) = [j \in 1..c |-> Assembled(q)[j]]
         /\ \A j \in 1..c : Assembled(q)[j] = q.fuBuffer[a + j - 1]
<1> DEFINE keys == DOMAIN q.fuBuffer
           Key(j) == CHOOSE k \in keys : Cardinality({x \in keys : x < k}) = j - 1
<1>1. Cardinality(keys) = c
  <2>1. Cardinality(a..(a + c - 1)) = IF a > a + c - 1 THEN 0 ELSE (a + c - 1) - a + 1
    BY FS_Interval, a \in Int, a + c - 1 \in Int
  <2> QED
    BY <2>1
<1>2. Assembled(q) = [j \in 1..Cardinality(keys) |-> q.fuBuffer[Key(j)]]
  BY DEF Assembled
<1>3. ASSUME NEW k \in keys
      PROVE  Cardinality({x \in keys : x < k}) = k - a
  <2>1. k \in a..(a + c - 1) /\ k \in Int
    OBVIOUS
  <2>2. {x \in keys : x < k} = a..(k - 1)
    BY <2>1
  <2>3. Cardinality(a..(k - 1)) = IF a > k - 1 THEN 0 ELSE (k - 1) - a + 1
    BY <2>1, FS_Interval, a \in Int, k - 1 \in Int
  <2>4. Cardinality(a..(k - 1)) = k - a
    BY <2>1, <2>3
  <2> QED
    BY <2>2, <2>4
<1>4. ASSUME NEW j \in 1..c
      PROVE  Key(j) = a + j - 1
  <2>1. a + j - 1 \in keys
    OBVIOUS
  <2>2. \A k \in keys : Cardinality({x \in keys : x < k}) = k - a
    BY <1>3
  <2>3. \A k \in keys : k \in Int
    OBVIOUS
  <2> HIDE DEF keys
  <2>4. Cardinality({x \in keys : x < a + j - 1}) = j - 1
    BY <2>1, <2>2
  <2>5. \A k \in keys : Cardinality({x \in keys : x < k}) = j - 1 => k = a + j - 1
    BY <2>2, <2>3
  <2> QED
    BY <2>1, <2>4, <2>5
<1>5. \A j \in 1..c : Key(j) = a + j - 1
  BY <1>4
<1> HIDE DEF Key
<1> QED
  BY <1>1, <1>2, <1>5

\* What a packet does to the members, by the branches of _processRtpNalu.
LEMMA Branches ==
  ASSUME NEW q, NEW p, p.seq \in Seqs, q.fuExpected \in Seqs,
         p.fu \in BOOLEAN, p.start \in BOOLEAN, q.fuStarted \in BOOLEAN
  PROVE  LET r == ProcessRtpNalu(q, p) IN
         /\ ~p.fu => r = AfterSingle(q, p)
         /\ p.fu /\ p.start => r = FuStart(q, p)
         /\ TooOld(q, p) => r = q
         /\ TooFar(q, p) \/ TooMany(q, p) => r = FuReset(q)
         /\ p.fu /\ ~p.start /\ q.fuStarted /\ ~Early(q, p) =>
              r = IF p.end THEN AfterEnd(FuInsert(q, p), p) ELSE FuInsert(q, p)
         /\ p.fu /\ ~p.start /\ ~q.fuStarted => r = q
<1>1. ~(TooOld(q, p) /\ TooFar(q, p))
  BY MaxSeqGapNat, SeqModNat DEF TooOld, TooFar, Seqs
<1>2. ~(TooOld(q, p) /\ TooMany(q, p)) /\ ~(TooFar(q, p) /\ TooMany(q, p))
  BY DEF TooMany
<1>3. Early(q, p) => p.fu /\ ~p.start /\ q.fuStarted
  BY DEF Early, TooOld, TooFar, TooMany
<1> QED
  BY <1>1, <1>2, <1>3 DEF ProcessRtpNalu, Early

-----------------------------------------------------------------------------
(* Frames and buffers.                                                      *)

\* An empty frame is whole, and no unit is in it.
LEMMA EmptyFrame ==
  ASSUME NEW u, NEW d, NEW t
  PROVE  FrameFits(<<>>, u, d, t)
BY DEF FrameFits, Whole

\* What fits fits after the turn, too.
LEMMA Weaker ==
  ASSUME NEW t \in BOOLEAN, NEW t1 \in BOOLEAN, t => t1, NEW n, NEW u, NEW z, NEW i
  PROVE  /\ \A q : BufferFits(q, n, u, z, i, t) => BufferFits(q, n, u, z, i, t1)
         /\ \A f, d : FrameFits(f, u, d, t) => FrameFits(f, u, d, t1)
         /\ \A f, d : FrameFits(f, u, FALSE, t) => FrameFits(f, u, d, t1)
<1>1. \A q : BufferFits(q, n, u, z, i, t) => BufferFits(q, n, u, z, i, t1)
  BY DEF BufferFits
<1>2. \A f, d : FrameFits(f, u, d, t) => FrameFits(f, u, d, t1)
  BY DEF FrameFits
<1>3. \A f, d : FrameFits(f, u, FALSE, t) => FrameFits(f, u, d, t1)
  BY DEF FrameFits
<1> QED
  BY <1>1, <1>2, <1>3

\* A unit joins a frame; until the turn it is the current one, in which it is not yet.
LEMMA WholeAppend ==
  ASSUME NEW f \in Seq(Seq(Fragments)), NEW u \in Nat, NEW t \in BOOLEAN,
         FrameFits(f, u, FALSE, t), NEW w \in Seq(Fragments), Len(w) >= 1, w[1].unit <= u,
         ~t => /\ Len(w) = w[1].of /\ w[1].unit = u
               /\ \A k \in DOMAIN w : w[k] = [w[1] EXCEPT !.index = k]
  PROVE  FrameFits(Append(f, w), u, TRUE, t)
<1> DEFINE g == Append(f, w)
<1>1. /\ g \in Seq(Seq(Fragments)) /\ DOMAIN g = 1..(Len(f) + 1) /\ DOMAIN f = 1..Len(f)
      /\ Len(f) \in Nat /\ g[Len(f) + 1] = w /\ \A j \in 1..Len(f) : g[j] = f[j]
  BY AppendProperties, w \in Seq(Fragments)
<1> HIDE DEF g
<1>2. \A j \in DOMAIN g : (j \in DOMAIN f /\ g[j] = f[j]) \/ (j = Len(f) + 1 /\ g[j] = w)
  <2>1. \A j \in 1..(Len(f) + 1) : j \in 1..Len(f) \/ j = Len(f) + 1
    BY <1>1
  <2> QED
    BY <1>1, <2>1
<1>3. ~t => \A j \in DOMAIN g :
        /\ Len(g[j]) = g[j][1].of
        /\ \A k \in DOMAIN g[j] : g[j][k] = [g[j][1] EXCEPT !.index = k]
  <2> SUFFICES ASSUME ~t, NEW j \in DOMAIN g
               PROVE  /\ Len(g[j]) = g[j][1].of
                      /\ \A k \in DOMAIN g[j] : g[j][k] = [g[j][1] EXCEPT !.index = k]
    OBVIOUS
  <2>1. CASE j \in DOMAIN f /\ g[j] = f[j]
    <3>1. /\ Len(f[j]) = f[j][1].of
          /\ \A k \in DOMAIN f[j] : f[j][k] = [f[j][1] EXCEPT !.index = k]
      BY <2>1, Zenon DEF FrameFits, Whole
    <3> QED
      BY <2>1, <3>1, Zenon
  <2>2. CASE g[j] = w
    BY <2>2, Zenon
  <2> QED
    BY <1>2, <2>1, <2>2, Zenon
<1>4. \A j \in DOMAIN g : Len(g[j]) >= 1 /\ g[j][1].unit <= u
  BY <1>2 DEF FrameFits
<1>5. ASSUME ~t, NEW a \in DOMAIN g, NEW b \in DOMAIN g, a < b
      PROVE  g[a][1].unit < g[b][1].unit
  <2>1. a \in DOMAIN f /\ g[a] = f[a]
    BY <1>1, <1>2, <1>5, SMTT(20)
  <2>2. CASE b \in DOMAIN f /\ g[b] = f[b]
    <3>1. Whole(f)
      BY <1>5 DEF FrameFits
    <3> QED
      BY <1>5, <2>1, <2>2, <3>1 DEF Whole
  <2>3. CASE g[b] = w
    <3>1. f[a][1].unit <= u /\ f[a][1].unit # u
      BY <2>1 DEF FrameFits
    <3>2. f[a] \in Seq(Fragments) /\ Len(f[a]) >= 1
      BY <1>1, <2>1 DEF FrameFits
    <3>3. f[a][1] \in Fragments
      BY <3>2
    <3>4. f[a][1].unit \in Int
      <4>1. f[a][1].unit \in 1..MaxUnits
        BY <3>3 DEF Fragments
      <4>2. \A x \in 1..MaxUnits : x \in Int
        BY BoundsNat
      <4> QED
        BY <4>1, <4>2, Zenon
    <3>5. \A x \in Int : x <= u /\ x # u => x < u
      OBVIOUS
    <3>6. f[a][1].unit < u
      BY <3>1, <3>4, <3>5, Zenon
    <3>7. w[1].unit = u
      BY <1>5
    <3> QED
      BY <2>1, <2>3, <3>6, <3>7, Zenon
  <2> QED
    BY <1>2, <2>2, <2>3
<1> QED
  BY <1>3, <1>4, <1>5 DEF FrameFits, Whole, g

\* What the numbers of the buffer are, for a buffer that fits.
LEMMA BufferNumbers ==
  ASSUME NEW q, NEW n \in Seqs, NEW u, NEW z, NEW i,
         RxTypes(q), BufferTypes(q), BufferFits(q, n, u, z, i, FALSE), q.fuStarted
  PROVE  /\ q.fuStart \in DOMAIN q.fuBuffer /\ q.fuStart \in Seqs
         /\ Age(q, n) \in Nat /\ Age(q, n) >= 1 /\ Age(q, n) < SeqMod
         /\ First(q) \in Fragments /\ First(q).of \in 1..MaxFragments
         /\ First(q).unit \in 1..MaxUnits
         /\ n \notin DOMAIN q.fuBuffer
         /\ \A k \in DOMAIN q.fuBuffer :
              k \in Seqs /\ Back(n, k) \in 1..Age(q, n)
<1>1. q.fuStart \in DOMAIN q.fuBuffer /\ q.fuStart \in Seqs
  BY DEF BufferFits, RxTypes
<1>2. \A k \in DOMAIN q.fuBuffer : k \in Seqs /\ Back(n, k) \in 1..Age(q, n)
  BY DEF BufferFits, KeyFits, BufferTypes
<1>3. First(q) \in Fragments
  BY <1>1 DEF BufferTypes, First
<1>4. First(q).of \in 1..MaxFragments /\ First(q).unit \in 1..MaxUnits
  BY <1>3 DEF Fragments
<1>5. Age(q, n) \in Nat /\ Age(q, n) >= 1 /\ Age(q, n) < SeqMod
  <2>1. Back(n, q.fuStart) \in Seqs
    BY <1>1, BackIsMod
  <2>2. Back(n, q.fuStart) \in 1..Age(q, n)
    BY <1>1, <1>2
  <2> QED
    BY <2>1, <2>2, SeqModNat DEF Age, Seqs
<1>6. Back(n, n) = 0
  BY SeqModNat DEF Back, Seqs
<1> QED
  BY <1>1, <1>2, <1>3, <1>4, <1>5, <1>6

\* Unless the buffer's turn is over, a key of it is one packet further back after the next
\* packet, and as far behind the start as before.
LEMMA NumbersAge ==
  ASSUME NEW q, NEW n \in Seqs, NEW u, NEW z, NEW i, RxTypes(q), BufferTypes(q),
         BufferFits(q, n, u, z, i, FALSE), q.fuStarted, q.fuStart # Succ(n)
  PROVE  /\ Age(q, Succ(n)) = Age(q, n) + 1
         /\ \A k \in DOMAIN q.fuBuffer :
              /\ Back(Succ(n), k) = Back(n, k) + 1
              /\ Offset(q, Succ(n), k) = Offset(q, n, k)
<1>1. /\ Age(q, n) \in Nat /\ Age(q, n) < SeqMod /\ q.fuStart \in Seqs
      /\ q.fuStart \in DOMAIN q.fuBuffer
      /\ \A k \in DOMAIN q.fuBuffer : k \in Seqs /\ Back(n, k) \in 1..Age(q, n)
  BY BufferNumbers
<1>2. Age(q, n) + 1 < SeqMod
  BY <1>1, TwoNumbers DEF Age, Back, Succ, Seqs
<1>3. ASSUME NEW k \in DOMAIN q.fuBuffer
      PROVE  Back(Succ(n), k) = Back(n, k) + 1 /\ Back(n, k) \in Nat
  <2>1. k \in Seqs /\ Back(n, k) \in Nat /\ Back(n, k) + 1 < SeqMod
    BY <1>1, <1>2, SeqModNat
  <2> QED
    BY <2>1, BackOfNext
<1>4. Age(q, Succ(n)) = Age(q, n) + 1
  BY <1>1, <1>3 DEF Age
<1> QED
  BY <1>1, <1>3, <1>4 DEF Offset

\* A packet that leaves the buffer alone makes it older.
LEMMA BufferAges ==
  ASSUME NEW q, NEW n \in Seqs, NEW u, NEW z, NEW i \in Nat, NEW t \in BOOLEAN,
         RxTypes(q), BufferTypes(q), BufferFits(q, n, u, z, i, t)
  PROVE  BufferFits(q, Succ(n), u, z, i + 1, Turned(t, q, Succ(n)))
<1> SUFFICES ASSUME q.fuStarted, ~t, q.fuStart # Succ(n)
             PROVE  /\ UnitFits(q, Succ(n), u, z, i + 1)
                    /\ \A k \in DOMAIN q.fuBuffer : KeyFits(q, Succ(n), k)
  BY DEF BufferFits, Turned
<1>1. BufferFits(q, n, u, z, i, FALSE)
  BY DEF BufferFits
<1>2. /\ Age(q, n) \in Nat /\ First(q).of \in Int
      /\ \A k \in DOMAIN q.fuBuffer : k \in Seqs /\ Back(n, k) \in 1..Age(q, n)
  <2>1. First(q).of \in 1..MaxFragments
    BY <1>1, BufferNumbers
  <2>2. First(q).of \in Int
    BY <2>1, BoundsNat
  <2> QED
    BY <1>1, <2>2, BufferNumbers
<1>3. /\ Age(q, Succ(n)) = Age(q, n) + 1
      /\ \A k \in DOMAIN q.fuBuffer :
           /\ Back(Succ(n), k) = Back(n, k) + 1
           /\ Offset(q, Succ(n), k) = Offset(q, n, k)
  BY <1>1, NumbersAge
<1>4. \A k \in DOMAIN q.fuBuffer : KeyFits(q, Succ(n), k)
  BY <1>1, <1>2, <1>3 DEF BufferFits, KeyFits
<1>5. UnitFits(q, Succ(n), u, z, i + 1)
  BY <1>1, <1>2, <1>3 DEF BufferFits, UnitFits
<1> QED
  BY <1>4, <1>5

\* The gap test keeps what is half done or throws all of it away.
LEMMA GapTestGood ==
  ASSUME NEW q, NEW n, NEW n1, NEW u, NEW z, NEW i, NEW t, Good(q, n, u, z, i, t)
  PROVE  /\ Good(AfterGapTest(q, n1), n, u, z, i, t)
         /\ AfterGapTest(q, n1).frame \in {q.frame, <<>>}
<1>1. CASE AfterGapTest(q, n1) = q
  BY <1>1
<1>2. CASE AfterGapTest(q, n1) = [FuReset(q) EXCEPT !.frame = <<>>]
  <2> DEFINE e == FuReset(q)
             r == [e EXCEPT !.frame = <<>>]
  <2>1. RxTypes(e) /\ BufferTypes(e) /\ ~e.fuStarted
    BY ResetFields DEF Good
  <2> HIDE DEF e
  <2>2. /\ DOMAIN r = DOMAIN e /\ r.frame = <<>>
        /\ r.lastSeq = e.lastSeq /\ r.fuStarted = e.fuStarted /\ r.fuStart = e.fuStart
        /\ r.fuExpected = e.fuExpected /\ r.fuBuffer = e.fuBuffer
    BY <2>1 DEF RxTypes
  <2> HIDE DEF r
  <2>3. <<>> \in Seq(Seq(Fragments))
    OBVIOUS
  <2>4. RxTypes(r) /\ BufferTypes(r)
    BY <2>1, <2>2, <2>3 DEF RxTypes, BufferTypes
  <2>5. BufferFits(r, n, u, z, i, t) /\ FrameFits(r.frame, u, i = z, t)
    BY <2>1, <2>2, EmptyFrame DEF BufferFits
  <2>6. AfterGapTest(q, n1) = r
    BY <1>2 DEF r, e
  <2> QED
    BY <2>2, <2>4, <2>5, <2>6 DEF Good
<1> QED
  BY <1>1, <1>2 DEF AfterGapTest

-----------------------------------------------------------------------------
(* The branches of _processRtpNalu, for packet i + 1 of unit u.             *)

\* The packet with number n that the camera sends after i packets of unit u.
IsPacket(p, n, u, z, i) ==
  /\ p.fu \in BOOLEAN /\ p.start \in BOOLEAN /\ p.end \in BOOLEAN
  /\ p.seq = n /\ (p.fu <=> z > 1) /\ (p.start <=> i + 1 = 1) /\ (p.end <=> i + 1 = z)
  /\ p.data = [stream |-> Cam, unit |-> u, index |-> i + 1, of |-> z]

\* Frame g is frame f with one more unit, u.
Adds(f, g, u) == \E w \in Seq(Fragments) : g = Append(f, w) /\ w[1].unit = u

\* What it carries is a fragment.
LEMMA PacketData ==
  ASSUME OneCamera, NEW u \in 1..MaxUnits, NEW z \in 1..MaxFragments,
         NEW i \in Nat, i < z, NEW n, NEW p, IsPacket(p, n, u, z, i)
  PROVE  /\ p.data \in Fragments /\ p.data.unit = u /\ p.data.of = z
         /\ p.data.index = i + 1 /\ p.data.stream = Cam
<1>1. i + 1 \in 1..MaxFragments
  BY BoundsNat
<1>2. Cam \in Streams
  BY DEF OneCamera
<1> QED
  BY <1>1, <1>2 DEF IsPacket, Fragments

\* Members whose buffer is empty or old, and whose frame is as it was.
LEMMA OldGood ==
  ASSUME NEW q, NEW n \in Seqs, NEW u, NEW z \in 1..MaxFragments, NEW i \in Nat, i < z,
         NEW t \in BOOLEAN, Good(q, n, u, z, i, t)
  PROVE  Good(q, Succ(n), u, z, i + 1, Turned(t, q, Succ(n)))
<1>1. BufferFits(q, Succ(n), u, z, i + 1, Turned(t, q, Succ(n)))
  BY BufferAges DEF Good
<1>2. FrameFits(q.frame, u, i + 1 = z, Turned(t, q, Succ(n)))
  <2>1. i # z
    OBVIOUS
  <2> QED
    BY <2>1 DEF Good, FrameFits, Turned
<1> QED
  BY <1>1, <1>2 DEF Good

\* The fragments are thrown away.
LEMMA ResetGood ==
  ASSUME NEW q, RxTypes(q), NEW n, NEW u, NEW z, NEW i, NEW t \in BOOLEAN,
         FrameFits(q.frame, u, i = z, t)
  PROVE  Good(FuReset(q), n, u, z, i, Turned(t, FuReset(q), n))
<1>1. /\ RxTypes(FuReset(q)) /\ BufferTypes(FuReset(q)) /\ ~FuReset(q).fuStarted
      /\ FuReset(q).frame = q.frame
  BY ResetFields
<1> QED
  BY <1>1 DEF Good, BufferFits, FrameFits, Turned

\* A unit of one packet is whole.
LEMMA SingleGood ==
  ASSUME OneCamera, NEW q, NEW n \in Seqs, NEW u \in 1..MaxUnits, NEW z \in 1..MaxFragments,
         NEW i \in Nat, i < z, NEW t \in BOOLEAN, Good(q, n, u, z, i, t),
         NEW p, IsPacket(p, n, u, z, i), z = 1
  PROVE  /\ Good(AfterSingle(q, p), Succ(n), u, z, i + 1,
                 Turned(t, AfterSingle(q, p), Succ(n)))
         /\ Adds(q.frame, AfterSingle(q, p).frame, u)
<1> DEFINE e == FuReset(q)
           w == <<p.data>>
           r == [e EXCEPT !.frame = Append(e.frame, w)]
<1>1. /\ p.data \in Fragments /\ p.data.unit = u /\ p.data.of = z /\ p.data.index = 1
      /\ i = 0
  BY PacketData
<1>2. RxTypes(e) /\ BufferTypes(e) /\ ~e.fuStarted /\ e.frame = q.frame
  BY ResetFields DEF Good
<1>3. w \in Seq(Fragments) /\ Len(w) = 1 /\ DOMAIN w = {1} /\ w[1] = p.data
  BY <1>1
<1>4. AfterSingle(q, p) = r
  BY DEF AfterSingle
<1> HIDE DEF e, w
<1>5. /\ RxTypes(r) /\ r.frame = Append(q.frame, w) /\ r.fuBuffer = e.fuBuffer
  BY <1>2, <1>3, AppendFields
<1>6. r.fuStarted = e.fuStarted
  BY <1>2 DEF RxTypes
<1> HIDE DEF r
<1>7. BufferTypes(r) /\ BufferFits(r, Succ(n), u, z, i + 1, t)
  BY <1>2, <1>5, <1>6 DEF BufferTypes, BufferFits
<1>8. FrameFits(Append(q.frame, w), u, TRUE, t)
  <2>1. q.frame \in Seq(Seq(Fragments)) /\ FrameFits(q.frame, u, FALSE, t)
    <3>1. (i = z) = FALSE
      BY <1>1
    <3> QED
      BY <3>1 DEF Good, RxTypes
  <2>2. \A k \in DOMAIN w : w[k] = [w[1] EXCEPT !.index = k]
    <3>1. p.data = [p.data EXCEPT !.index = 1]
      BY <1>1 DEF Fragments
    <3> QED
      BY <1>3, <3>1
  <2>3. u \in Nat /\ Len(w) >= 1 /\ Len(w) = w[1].of /\ w[1].unit = u /\ w[1].unit <= u
    BY <1>1, <1>3, BoundsNat
  <2> HIDE DEF w
  <2>4. ~t => /\ Len(w) = w[1].of /\ w[1].unit = u
              /\ \A k \in DOMAIN w : w[k] = [w[1] EXCEPT !.index = k]
    BY <2>2, <2>3
  <2>5. w \in Seq(Fragments) /\ u \in Nat /\ Len(w) >= 1 /\ w[1].unit <= u
    BY <1>3, <2>3
  <2> QED
    BY <2>1, <2>4, <2>5, WholeAppend
<1>9. (i + 1 = z) = TRUE
  BY <1>1
<1>10. Adds(q.frame, AfterSingle(q, p).frame, u)
  BY <1>1, <1>3, <1>4, <1>5 DEF Adds
<1>11. FrameFits(r.frame, u, i + 1 = z, t)
  BY <1>5, <1>8, <1>9
<1>12. Turned(t, r, Succ(n)) = t
  BY <1>2, <1>6 DEF Turned
<1> QED
  BY <1>4, <1>5, <1>7, <1>10, <1>11, <1>12 DEF Good

\* A start packet begins the buffer of its unit.
LEMMA StartGood ==
  ASSUME OneCamera, NEW q, NEW n \in Seqs, NEW u \in 1..MaxUnits, NEW z \in 1..MaxFragments,
         NEW i \in Nat, i < z, NEW t \in BOOLEAN, Good(q, n, u, z, i, t),
         NEW p, IsPacket(p, n, u, z, i), z > 1, i = 0
  PROVE  Good(FuStart(q, p), Succ(n), u, z, i + 1, Turned(t, FuStart(q, p), Succ(n)))
<1> DEFINE r == FuStart(q, p)
<1>1. /\ p.data \in Fragments /\ p.data.unit = u /\ p.data.of = z /\ p.data.index = 1
  BY PacketData
<1>2. p.seq = n
  BY DEF IsPacket
<1>3. /\ RxTypes(r) /\ BufferTypes(r) /\ r.fuStarted /\ r.fuStart = n
      /\ DOMAIN r.fuBuffer = {n} /\ r.fuBuffer[n] = p.data /\ r.frame = q.frame
  BY <1>1, <1>2, StartFields DEF Good
<1> HIDE DEF r
<1>4. Back(Succ(n), n) = 1 /\ Succ(n) # n
  BY TwoNumbers
<1>5. Age(r, Succ(n)) = 1 /\ First(r) = p.data /\ Offset(r, Succ(n), n) = 0
  BY <1>3, <1>4 DEF Age, First, Offset
<1>6. KeyFits(r, Succ(n), n)
  <2>1. p.data = [p.data EXCEPT !.index = 0 + 1]
    BY <1>1 DEF Fragments
  <2> QED
    BY <1>1, <1>3, <1>4, <1>5, <2>1 DEF KeyFits
<1>7. UnitFits(r, Succ(n), u, z, i + 1)
  BY <1>1, <1>5 DEF UnitFits
<1>8. BufferFits(r, Succ(n), u, z, i + 1, t)
  BY <1>1, <1>3, <1>5, <1>6, <1>7 DEF BufferFits
<1>9. FrameFits(r.frame, u, i + 1 = z, t)
  <2>1. i # z
    OBVIOUS
  <2> QED
    BY <1>3, <2>1 DEF Good, FrameFits
<1>10. Turned(t, r, Succ(n)) = t
  BY <1>3, <1>4 DEF Turned
<1> QED
  BY <1>3, <1>8, <1>9, <1>10 DEF Good, r

\* A later packet takes its place in the buffer.
LEMMA InsertFits ==
  ASSUME OneCamera, NEW q, NEW n \in Seqs, NEW u \in 1..MaxUnits, NEW z \in 1..MaxFragments,
         NEW i \in Nat, i < z, NEW t \in BOOLEAN, Good(q, n, u, z, i, t),
         NEW p, IsPacket(p, n, u, z, i), i > 0, q.fuStarted
  PROVE  BufferFits(FuInsert(q, p), Succ(n), u, z, i + 1, Turned(t, q, Succ(n)))
<1> DEFINE r == FuInsert(q, p)
<1>1. u \in Nat
  BY BoundsNat
<1>2. /\ p.data \in Fragments /\ p.data.unit = u /\ p.data.of = z
      /\ p.data.index = i + 1 /\ p.data.stream = Cam /\ p.seq = n
  BY PacketData DEF IsPacket
<1>3. /\ RxTypes(q) /\ BufferTypes(q) /\ BufferFits(q, n, u, z, i, t)
  BY DEF Good
<1>4. /\ r.fuStarted /\ r.fuStart = q.fuStart /\ DOMAIN r.fuBuffer = DOMAIN q.fuBuffer \cup {n}
      /\ r.fuBuffer[n] = p.data
      /\ \A k \in DOMAIN q.fuBuffer : k # n => r.fuBuffer[k] = q.fuBuffer[k]
  BY <1>2, <1>3, InsertFields
<1> HIDE DEF r
<1>5. r.fuStart \in DOMAIN r.fuBuffer /\ First(r).unit <= u
  <2>1. q.fuStart \in DOMAIN q.fuBuffer /\ First(q).unit <= u
    BY <1>3 DEF BufferFits
  <2>2. CASE q.fuStart = n
    BY <1>1, <1>2, <1>4, <2>1, <2>2 DEF First
  <2>3. CASE q.fuStart # n
    BY <1>4, <2>1, <2>3 DEF First
  <2> QED
    BY <2>2, <2>3
<1>6. ASSUME ~t, q.fuStart # Succ(n)
      PROVE  /\ First(r).index = 1 /\ UnitFits(r, Succ(n), u, z, i + 1)
             /\ \A k \in DOMAIN r.fuBuffer : KeyFits(r, Succ(n), k)
  <2>1. BufferFits(q, n, u, z, i, FALSE)
    BY <1>3, <1>6 DEF BufferFits
  <2>2. /\ q.fuStart \in DOMAIN q.fuBuffer /\ n \notin DOMAIN q.fuBuffer
        /\ Age(q, n) \in Nat /\ Age(q, n) >= 1
        /\ First(q) \in Fragments /\ First(q).of \in 1..MaxFragments
        /\ First(q).unit \in 1..MaxUnits
    BY <1>3, <2>1, BufferNumbers
  <2>3. First(r) = First(q) /\ Age(r, Succ(n)) = Age(q, Succ(n))
    BY <1>4, <2>2 DEF First, Age
  <2>4. /\ UnitFits(q, Succ(n), u, z, i + 1) /\ First(q).index = 1
        /\ \A k \in DOMAIN q.fuBuffer : KeyFits(q, Succ(n), k)
    <3>1. BufferFits(q, Succ(n), u, z, i + 1, Turned(t, q, Succ(n)))
      BY <1>3, BufferAges
    <3>2. ~Turned(t, q, Succ(n))
      BY <1>6 DEF Turned
    <3> QED
      BY <3>1, <3>2 DEF BufferFits
  <2>5. Age(q, Succ(n)) = Age(q, n) + 1
    BY <1>3, <1>6, <2>1, NumbersAge
  <2>6. ASSUME NEW k \in DOMAIN q.fuBuffer
        PROVE  KeyFits(r, Succ(n), k)
    <3>1. KeyFits(q, Succ(n), k) /\ r.fuBuffer[k] = q.fuBuffer[k]
      BY <1>4, <2>2, <2>4
    <3>2. Offset(r, Succ(n), k) = Offset(q, Succ(n), k)
      BY <2>3 DEF Offset
    <3> QED
      BY <2>3, <3>1, <3>2 DEF KeyFits
  <2>7. KeyFits(r, Succ(n), n)
    <3>1. Back(Succ(n), n) = 1
      BY TwoNumbers
    <3>2. Offset(r, Succ(n), n) = Age(q, n)
      BY <2>2, <2>3, <2>5, <3>1 DEF Offset
    <3>3. CASE First(q).unit = u /\ First(q).of = z /\ Age(q, n) = i
      <4>1. First(q).stream = Cam
        BY <2>2 DEF OneCamera, Fragments
      <4>2. p.data = [First(q) EXCEPT !.index = i + 1]
        BY <1>2, <2>2, <2>4, <3>3, <4>1 DEF Fragments
      <4> QED
        BY <1>4, <2>2, <2>3, <2>5, <3>1, <3>2, <3>3, <4>2 DEF KeyFits
    <3>4. CASE First(q).unit < u /\ Age(q, n) >= First(q).of + i
      <4>1. First(q).of \in Nat
        BY <2>2, BoundsNat
      <4>2. Age(q, n) > First(q).of
        BY <2>2, <3>4, <4>1
      <4> QED
        BY <2>2, <2>3, <2>5, <3>1, <3>2, <4>1, <4>2 DEF KeyFits
    <3> QED
      BY <2>1, <3>3, <3>4 DEF BufferFits, UnitFits
  <2>8. UnitFits(r, Succ(n), u, z, i + 1)
    BY <2>3, <2>4 DEF UnitFits
  <2>9. \A k \in DOMAIN r.fuBuffer : KeyFits(r, Succ(n), k)
    BY <1>4, <2>6, <2>7
  <2> QED
    BY <2>3, <2>4, <2>8, <2>9
<1> QED
  BY <1>3, <1>4, <1>5, <1>6 DEF BufferFits, Turned, r

\* A buffer that is found complete at the end packet ends there, before the wrap.
LEMMA CompleteFields ==
  ASSUME NEW q, NEW n \in Seqs, RxTypes(q), BufferTypes(q), q.fuStart \in DOMAIN q.fuBuffer,
         NEW p, p.seq = n, Complete(q, p)
  PROVE  LET a == q.fuStart
             c == Cardinality(DOMAIN q.fuBuffer)
             w == Assembled(q)
         IN  /\ c \in Nat /\ c >= 1 /\ c <= MaxFuBufferSize /\ a \in Nat
             /\ DOMAIN q.fuBuffer = a..(a + c - 1)
             /\ Succ(n) = a + c /\ Age(q, Succ(n)) = c
             /\ \A k \in DOMAIN q.fuBuffer : Offset(q, Succ(n), k) = k - a
             /\ w \in Seq(Fragments) /\ Len(w) = c /\ DOMAIN w = 1..c /\ w[1] = First(q)
             /\ \A j \in 1..c : w[j] = q.fuBuffer[a + j - 1]
<1> DEFINE a == q.fuStart
           c == Cardinality(DOMAIN q.fuBuffer)
           w == Assembled(q)
           N == Succ(n)
<1>1. a \in DOMAIN q.fuBuffer /\ a \in Seqs
  BY DEF RxTypes
<1>2. c \in Nat /\ c <= MaxFuBufferSize
  <2>1. DOMAIN q.fuBuffer \in SUBSET Nat /\ \A k \in DOMAIN q.fuBuffer : k <= SeqMod
    BY SeqModNat DEF BufferTypes, Seqs
  <2>2. IsFiniteSet(DOMAIN q.fuBuffer)
    BY <2>1, FS_BoundedSetOfNaturals, SeqModNat
  <2> QED
    BY <2>2, FS_CardinalityType DEF BufferTypes
<1>3. DOMAIN q.fuBuffer = a..(a + c - 1) /\ n = ((a + c) % SeqMod) - 1
  BY DEF Complete
<1>4. a \in Nat /\ n \in Nat /\ n < SeqMod /\ SeqMod \in Nat /\ SeqMod > 0
  BY <1>1, SeqModNat DEF Seqs
<1> HIDE DEF a, c, w
<1>5. c >= 1
  BY <1>1, <1>2, <1>3, <1>4
<1>6. a + c - 1 \in Seqs
  <2>1. a + c - 1 \in DOMAIN q.fuBuffer
    BY <1>2, <1>3, <1>4, <1>5
  <2> QED
    BY <2>1 DEF BufferTypes
<1>7. a + c < SeqMod
  <2>1. a + c <= SeqMod
    BY <1>2, <1>4, <1>6 DEF Seqs
  <2>2. CASE a + c = SeqMod
    <3>1. (a + c) % SeqMod = 0
      BY <1>4, <2>2
    <3> QED
      BY <1>3, <1>4, <3>1
  <2> QED
    BY <1>2, <1>4, <2>1, <2>2
<1>8. n = a + c - 1 /\ N = a + c
  <2>1. a + c \in 0..(SeqMod - 1)
    BY <1>2, <1>4, <1>7
  <2>2. (a + c) % SeqMod = a + c
    BY <1>4, <2>1
  <2>3. n = a + c - 1
    BY <1>2, <1>3, <1>4, <2>2
  <2> QED
    BY <1>2, <1>4, <1>7, <2>3 DEF Succ
<1>9. Age(q, N) = c
  BY <1>2, <1>4, <1>8 DEF Age, Back, a
<1>10. \A k \in DOMAIN q.fuBuffer : Offset(q, N, k) = k - a
  BY <1>2, <1>3, <1>4, <1>8, <1>9, SMTT(20) DEF Offset, Back
<1>11. /\ DOMAIN w = 1..c /\ w = [j \in 1..c |-> w[j]]
       /\ \A j \in 1..c : w[j] = q.fuBuffer[a + j - 1]
  <2>1. \A x, y \in Nat : DOMAIN q.fuBuffer = x..(x + y - 1) =>
          /\ DOMAIN w = 1..y /\ w = [j \in 1..y |-> w[j]]
          /\ \A j \in 1..y : w[j] = q.fuBuffer[x + j - 1]
    BY AssembledInterval DEF w
  <2> QED
    BY <1>2, <1>3, <1>4, <2>1, Zenon
<1>12. \A j \in 1..c : w[j] \in Fragments
  <2> SUFFICES ASSUME NEW j \in 1..c
               PROVE  w[j] \in Fragments
    OBVIOUS
  <2>1. a + j - 1 \in DOMAIN q.fuBuffer
    BY <1>2, <1>3, <1>4
  <2> QED
    BY <1>11, <2>1 DEF BufferTypes
<1>13. w[1] = First(q)
  <2>1. a + 1 - 1 = a /\ 1 \in 1..c
    BY <1>2, <1>4, <1>5
  <2> QED
    BY <1>11, <2>1 DEF First, a
<1>14. w \in Seq(Fragments) /\ Len(w) = c
  BY <1>2, <1>11, <1>12
<1> QED
  BY <1>2, <1>3, <1>4, <1>5, <1>8, <1>9, <1>10, <1>11, <1>13, <1>14 DEF w, a, c

\* Until the turn it holds the whole current unit.
LEMMA CompleteIsWhole ==
  ASSUME OneCamera, NEW q, NEW n \in Seqs, NEW u \in 1..MaxUnits, NEW z \in 1..MaxFragments,
         RxTypes(q), BufferTypes(q), q.fuStarted, BufferFits(q, Succ(n), u, z, z, FALSE),
         NEW p, p.seq = n, Complete(q, p)
  PROVE  /\ Len(Assembled(q)) = Assembled(q)[1].of /\ First(q).unit = u
         /\ \A k \in DOMAIN Assembled(q) :
              Assembled(q)[k] = [Assembled(q)[1] EXCEPT !.index = k]
<1> DEFINE a == q.fuStart
           c == Cardinality(DOMAIN q.fuBuffer)
           w == Assembled(q)
           N == Succ(n)
<1>1. q.fuStart \in DOMAIN q.fuBuffer /\ N \in Seqs
  BY NextNumber DEF BufferFits
<1>2. /\ First(q) \in Fragments /\ First(q).of \in 1..MaxFragments
      /\ First(q).unit \in 1..MaxUnits
  BY <1>1, BufferNumbers
<1>3. /\ c \in Nat /\ c >= 1 /\ a \in Nat /\ DOMAIN q.fuBuffer = a..(a + c - 1)
      /\ Age(q, N) = c /\ \A k \in DOMAIN q.fuBuffer : Offset(q, N, k) = k - a
      /\ Len(w) = c /\ DOMAIN w = 1..c /\ w[1] = First(q)
      /\ \A j \in 1..c : w[j] = q.fuBuffer[a + j - 1]
  BY <1>1, CompleteFields
<1> HIDE DEF a, c, w, N
<1>4. First(q).unit = u /\ First(q).of = z /\ c = z
  <2>1. CASE First(q).unit = u /\ First(q).of = z /\ Age(q, N) = z
    BY <1>3, <2>1
  <2>2. CASE First(q).unit < u /\ Age(q, N) >= First(q).of + z
    <3> DEFINE o == First(q).of
    <3>1. o \in Nat /\ o < c
      BY <1>2, <1>3, <2>2, BoundsNat
    <3>2. a + o \in DOMAIN q.fuBuffer
      BY <1>3, <3>1
    <3>3. Offset(q, N, a + o) = o
      BY <1>3, <3>1, <3>2
    <3> QED
      BY <3>2, <3>3 DEF BufferFits, KeyFits, N
  <2> QED
    BY <2>1, <2>2 DEF BufferFits, UnitFits, N
<1>5. ASSUME NEW j \in 1..c
      PROVE  w[j] = [First(q) EXCEPT !.index = j]
  <2>1. a + j - 1 \in DOMAIN q.fuBuffer
    BY <1>3
  <2>2. Offset(q, N, a + j - 1) = j - 1
    <3>1. Offset(q, N, a + j - 1) = (a + j - 1) - a
      BY <1>3, <2>1
    <3>2. (a + j - 1) - a = j - 1
      BY <1>3
    <3> QED
      BY <3>1, <3>2
  <2>3. KeyFits(q, N, a + j - 1)
    BY <2>1 DEF BufferFits, N
  <2>4. j - 1 < First(q).of /\ (j - 1) + 1 = j
    BY <1>3, <1>4
  <2> QED
    BY <1>3, <2>2, <2>3, <2>4 DEF KeyFits
<1> QED
  BY <1>3, <1>4, <1>5 DEF w

\* The end packet adds a unit, which is whole until the turn, or nothing, and begins afresh.
LEMMA EndGood ==
  ASSUME OneCamera, NEW q, NEW n \in Seqs, NEW u \in 1..MaxUnits, NEW z \in 1..MaxFragments,
         RxTypes(q), BufferTypes(q), q.fuStarted, NEW t \in BOOLEAN,
         BufferFits(q, Succ(n), u, z, z, Turned(t, q, Succ(n))),
         FrameFits(q.frame, u, FALSE, t), NEW p, p.seq = n
  PROVE  Good(AfterEnd(q, p), Succ(n), u, z, z, Turned(t, AfterEnd(q, p), Succ(n)))
<1>1. CASE ~Complete(q, p)
  <2>1. AfterEnd(q, p) = FuReset(q)
    BY <1>1 DEF AfterEnd
  <2>2. FrameFits(q.frame, u, z = z, t)
    BY DEF FrameFits
  <2> QED
    BY <2>1, <2>2, ResetGood
<1>2. CASE Complete(q, p)
  <2> DEFINE w == Assembled(q)
             r == [q EXCEPT !.frame = Append(q.frame, w)]
             c == Cardinality(DOMAIN q.fuBuffer)
  <2>1. q.fuStart \in DOMAIN q.fuBuffer /\ First(q).unit <= u
    BY DEF BufferFits
  <2>2. /\ c \in Nat /\ c >= 1 /\ q.fuStart \in Nat /\ Succ(n) = q.fuStart + c
        /\ w \in Seq(Fragments) /\ Len(w) = c /\ w[1] = First(q)
    BY <1>2, <2>1, CompleteFields
  <2>3. ~t => /\ Len(w) = w[1].of /\ w[1].unit = u
              /\ \A k \in DOMAIN w : w[k] = [w[1] EXCEPT !.index = k]
    <3> SUFFICES ASSUME ~t
                 PROVE  /\ Len(w) = w[1].of /\ w[1].unit = u
                        /\ \A k \in DOMAIN w : w[k] = [w[1] EXCEPT !.index = k]
      OBVIOUS
    <3>1. q.fuStart # Succ(n)
      BY <2>2
    <3>2. Turned(t, q, Succ(n)) = FALSE
      BY <3>1 DEF Turned
    <3>3. BufferFits(q, Succ(n), u, z, z, FALSE)
      BY <3>2
    <3> QED
      BY <1>2, <2>2, <3>3, CompleteIsWhole
  <2>4. AfterEnd(q, p) = FuReset(r)
    BY <1>2 DEF AfterEnd
  <2> HIDE DEF w, c
  <2>5. RxTypes(r) /\ r.frame = Append(q.frame, w)
    BY <2>2, AppendFields
  <2> HIDE DEF r
  <2>6. q.frame \in Seq(Seq(Fragments))
    BY DEF RxTypes
  <2>7. u \in Nat /\ Len(w) >= 1 /\ w[1].unit <= u
    BY <2>1, <2>2, BoundsNat
  <2>8. FrameFits(Append(q.frame, w), u, TRUE, t)
    BY <2>2, <2>3, <2>6, <2>7, WholeAppend
  <2>9. FrameFits(r.frame, u, z = z, t)
    BY <2>5, <2>8
  <2> QED
    BY <2>4, <2>5, <2>9, ResetGood
<1> QED
  BY <1>1, <1>2

\* Every packet, whichever branch it takes, leaves the members good.
LEMMA Processed ==
  ASSUME OneCamera, NEW q, NEW n \in Seqs, NEW u \in 1..MaxUnits, NEW z \in 1..MaxFragments,
         NEW i \in Nat, i < z, NEW t \in BOOLEAN, Good(q, n, u, z, i, t),
         NEW p, IsPacket(p, n, u, z, i)
  PROVE  Good(ProcessRtpNalu(q, p), Succ(n), u, z, i + 1,
              Turned(t, ProcessRtpNalu(q, p), Succ(n)))
<1> DEFINE r == ProcessRtpNalu(q, p)
           Fit(x) == Good(x, Succ(n), u, z, i + 1, Turned(t, x, Succ(n)))
<1> SUFFICES Fit(r)
  OBVIOUS
<1>1. /\ p.seq = n /\ (p.fu <=> z > 1) /\ (p.start <=> i + 1 = 1) /\ (p.end <=> i + 1 = z)
      /\ p.fu \in BOOLEAN /\ p.start \in BOOLEAN
  BY DEF IsPacket
<1>2. RxTypes(q) /\ BufferTypes(q) /\ q.fuExpected \in Seqs /\ q.fuStarted \in BOOLEAN
  BY DEF Good, RxTypes
<1>3. /\ ~p.fu => r = AfterSingle(q, p)
      /\ p.fu /\ p.start => r = FuStart(q, p)
      /\ TooOld(q, p) => r = q
      /\ TooFar(q, p) \/ TooMany(q, p) => r = FuReset(q)
  BY <1>1, <1>2, Branches
<1>4. /\ p.fu /\ ~p.start /\ q.fuStarted /\ ~Early(q, p) =>
           r = IF p.end THEN AfterEnd(FuInsert(q, p), p) ELSE FuInsert(q, p)
      /\ p.fu /\ ~p.start /\ ~q.fuStarted => r = q
  BY <1>1, <1>2, Branches
<1>5. Fit(q)
  BY OldGood
<1>6. Fit(FuReset(q))
  <2>1. FrameFits(q.frame, u, i + 1 = z, t)
    <3>1. i # z
      OBVIOUS
    <3> QED
      BY <3>1 DEF Good, FrameFits
  <2> QED
    BY <1>2, <2>1, ResetGood
<1>7. CASE ~p.fu
  <2>1. z = 1
    BY <1>1, <1>7, BoundsNat
  <2>2. Fit(AfterSingle(q, p))
    BY <2>1, SingleGood
  <2> HIDE DEF r, Fit
  <2> QED
    BY <1>3, <1>7, <2>2
<1>8. CASE p.fu /\ p.start
  <2>1. z > 1 /\ i = 0
    BY <1>1, <1>8
  <2>2. Fit(FuStart(q, p))
    BY <2>1, StartGood
  <2> HIDE DEF r, Fit
  <2> QED
    BY <1>3, <1>8, <2>2
<1>9. CASE Early(q, p)
  <2> HIDE DEF r, Fit
  <2> QED
    BY <1>3, <1>5, <1>6, <1>9 DEF Early
<1>10. CASE p.fu /\ ~p.start /\ ~q.fuStarted
  <2> HIDE DEF r, Fit
  <2> QED
    BY <1>4, <1>5, <1>10
<1>11. CASE p.fu /\ ~p.start /\ q.fuStarted /\ ~Early(q, p)
  <2> DEFINE s == FuInsert(q, p)
  <2>1. i > 0 /\ z > 1
    BY <1>1, <1>11
  <2>2. BufferFits(s, Succ(n), u, z, i + 1, Turned(t, q, Succ(n)))
    BY <1>11, <2>1, InsertFits
  <2>3. ~Overflow(s)
    BY <1>11 DEF Early, TooMany
  <2>4. p.data \in Fragments /\ p.seq \in Seqs
    BY <1>1, PacketData
  <2>5. /\ RxTypes(s) /\ BufferTypes(s) /\ s.fuStarted /\ s.frame = q.frame
        /\ s.fuStart = q.fuStart
    BY <1>2, <1>11, <2>3, <2>4, InsertFields
  <2>6. r = IF p.end THEN AfterEnd(s, p) ELSE s
    BY <1>4, <1>11
  <2> HIDE DEF s, r
  <2>7. Turned(t, s, Succ(n)) = Turned(t, q, Succ(n))
    BY <1>11, <2>5 DEF Turned
  <2>8. FrameFits(s.frame, u, FALSE, t)
    <3>1. (i = z) = FALSE
      OBVIOUS
    <3> QED
      BY <2>5, <3>1 DEF Good
  <2>9. CASE ~p.end
    <3>1. FrameFits(s.frame, u, i + 1 = z, Turned(t, s, Succ(n)))
      BY <2>8 DEF FrameFits, Turned
    <3>2. Fit(s)
      BY <2>2, <2>5, <2>7, <3>1 DEF Good
    <3> QED
      BY <2>6, <2>9, <3>2
  <2>10. CASE p.end
    <3>1. i + 1 = z
      BY <1>1, <2>10
    <3>2. BufferFits(s, Succ(n), u, z, z, Turned(t, s, Succ(n)))
      BY <2>2, <2>7, <3>1
    <3>3. Good(AfterEnd(s, p), Succ(n), u, z, z, Turned(t, AfterEnd(s, p), Succ(n)))
      BY <1>1, <2>5, <2>8, <3>2, EndGood
    <3> QED
      BY <2>6, <2>10, <3>1, <3>3
  <2> QED
    BY <2>9, <2>10
<1>12. q.fuStarted \in BOOLEAN /\ p.fu \in BOOLEAN /\ p.start \in BOOLEAN
  BY <1>1, <1>2
<1> QED
  BY <1>7, <1>8, <1>9, <1>10, <1>11, <1>12

-----------------------------------------------------------------------------
(* The actions.                                                             *)

\* The values of the camera's variables.
LEMMA CamValues ==
  ASSUME OneCamera, CamTypes
  PROVE  /\ Cam \in Streams
         /\ unit[Cam] \in 0..MaxUnits /\ size[Cam] \in 0..MaxFragments
         /\ sent[Cam] \in 0..MaxFragments /\ seq[Cam] \in Seqs
         /\ missing[Cam] \in Nat /\ info[Cam] \in BOOLEAN /\ intact[Cam] \in BOOLEAN
<1>1. Cam \in Streams
  BY DEF OneCamera
<1>2. MaxUnits * MaxFragments \in Nat
  BY BoundsNat
<1>3. missing[Cam] \in 0..(MaxUnits * MaxFragments)
  BY <1>1 DEF CamTypes
<1> HIDE DEF Cam
<1>4. missing[Cam] \in Nat
  BY <1>2, <1>3
<1> QED
  BY <1>1, <1>4 DEF CamTypes

\* A packet is sent only of a unit, and it is the next one of that unit.
LEMMA PacketSent ==
  ASSUME OneCamera, IInv, sent[Cam] < size[Cam]
  PROVE  /\ unit[Cam] \in 1..MaxUnits /\ size[Cam] \in 1..MaxFragments
         /\ sent[Cam] \in Nat /\ sent[Cam] \in 0..(MaxFragments - 1)
         /\ IsPacket(Packet(Cam), seq[Cam], unit[Cam], size[Cam], sent[Cam])
<1>1. /\ unit[Cam] \in 0..MaxUnits /\ size[Cam] \in 0..MaxFragments
      /\ sent[Cam] \in 0..MaxFragments /\ info[Cam] \in BOOLEAN
  BY CamValues DEF IInv
<1>2. unit[Cam] # 0
  <2>1. unit[Cam] = 0 => size[Cam] = 0
    BY DEF IInv, UnitSent
  <2> QED
    BY <1>1, <2>1, BoundsNat
<1>3. /\ unit[Cam] \in 1..MaxUnits /\ size[Cam] \in 1..MaxFragments
      /\ sent[Cam] \in Nat /\ sent[Cam] \in 0..(MaxFragments - 1)
  BY <1>1, <1>2, BoundsNat
<1>4. IsPacket(Packet(Cam), seq[Cam], unit[Cam], size[Cam], sent[Cam])
  <2> DEFINE p == Packet(Cam)
             i == sent[Cam] + 1
  <2>1. p.seq = seq[Cam]
    BY DEF Packet
  <2>4. p.fu \in BOOLEAN /\ (p.fu <=> size[Cam] > 1)
    <3>1. size[Cam] \in Int
      BY <1>3, BoundsNat
    <3> DEFINE y == size[Cam] > 1
    <3>2. p.fu = y
      BY DEF Packet
    <3>3. y \in BOOLEAN
      BY <3>1
    <3> HIDE DEF y, p
    <3>4. p.fu \in BOOLEAN /\ (p.fu <=> y)
      BY <3>2, <3>3
    <3> QED
      BY <3>4 DEF y
  <2>5. p.start \in BOOLEAN /\ (p.start <=> i = 1)
    BY DEF Packet
  <2>6. p.end \in BOOLEAN /\ (p.end <=> i = size[Cam])
    BY DEF Packet
  <2>2. p.data = [stream |-> Cam, unit |-> unit[Cam], index |-> i, of |-> size[Cam]]
    BY DEF Packet
  <2> HIDE DEF p
  <2> QED
    BY <2>1, <2>2, <2>4, <2>5, <2>6, Zenon DEF IsPacket, p
<1> QED
  BY <1>3, <1>4

\* What rtp_send_h264 changes for one packet.
LEMMA SendFields ==
  ASSUME OneCamera, IInv, Send(Cam)
  PROVE  /\ sent[Cam] < size[Cam]
         /\ unit' = unit /\ size' = size /\ info' = info
         /\ sent'[Cam] = sent[Cam] + 1 /\ seq'[Cam] = Succ(seq[Cam])
         /\ sent' \in [Streams -> 0..MaxFragments] /\ seq' \in [Streams -> Seqs]
<1>1. /\ sent[Cam] < size[Cam] /\ unit' = unit /\ size' = size /\ info' = info
      /\ sent' = [sent EXCEPT ![Cam] = sent[Cam] + 1]
      /\ seq' = [seq EXCEPT ![Cam] = (seq[Cam] + 1) % SeqMod]
  BY DEF Send
<1>2. Cam \in Streams /\ seq[Cam] \in Seqs
  BY CamValues DEF IInv
<1>3. (seq[Cam] + 1) % SeqMod = Succ(seq[Cam]) /\ Succ(seq[Cam]) \in Seqs
  BY <1>2, NextNumber
<1>4. sent[Cam] + 1 \in 0..MaxFragments
  BY <1>1, PacketSent, BoundsNat
<1>5. sent \in [Streams -> 0..MaxFragments] /\ seq \in [Streams -> Seqs]
  BY DEF IInv, CamTypes
<1> QED
  BY <1>1, <1>2, <1>3, <1>4, <1>5

\* Every packet is one more since the last one processed, and it is not too many.
LEMMA MissingGrows ==
  ASSUME OneCamera, IInv, Send(Cam), missing' = [missing EXCEPT ![Cam] = @ + 1],
         rx' = rx
  PROVE  /\ missing' \in [Streams -> 0..(MaxUnits * MaxFragments)]
         /\ LastProcessed(rx, seq[Cam], unit[Cam], sent[Cam], missing[Cam])'
<1> DEFINE u == unit[Cam]
           i == sent[Cam]
           n == seq[Cam]
           m == missing[Cam]
<1>1. /\ u \in 1..MaxUnits /\ u \in 0..MaxUnits /\ u > 0 /\ i \in 0..MaxFragments /\ n \in Seqs
      /\ m \in Nat /\ i + 1 \in 0..MaxFragments /\ i \in Nat
  BY SendFields, PacketSent, CamValues, BoundsNat DEF IInv
<1>2. /\ Sent(u, i) \in Nat /\ Sent(u, i + 1) = Sent(u, i) + 1
      /\ Sent(u, i + 1) <= MaxUnits * MaxFragments
  BY <1>1, SentGrows
<1>3. /\ m <= Sent(u, i)
      /\ rx.lastSeq # 0 => /\ m + 1 <= Sent(u, i)
                           /\ m + 1 < SeqMod => Back(n, rx.lastSeq) = m + 1
  BY DEF IInv, LastProcessed
<1>4. /\ missing \in [Streams -> 0..(MaxUnits * MaxFragments)] /\ Cam \in Streams
  BY CamValues DEF IInv, CamTypes
<1>5. /\ sent'[Cam] = i + 1 /\ seq'[Cam] = Succ(n) /\ unit'[Cam] = u /\ missing'[Cam] = m + 1
  BY <1>4, SendFields
<1>6. rx.lastSeq \in Seqs
  BY DEF IInv, Good, RxTypes
<1> HIDE DEF u, i, n, m
<1>7. rx.lastSeq # 0 /\ m + 2 < SeqMod => Back(Succ(n), rx.lastSeq) = m + 2
  <2> SUFFICES ASSUME rx.lastSeq # 0, m + 2 < SeqMod
               PROVE  Back(Succ(n), rx.lastSeq) = m + 2
    OBVIOUS
  <2>3. m + 1 < SeqMod
    <3>1. \A x \in Nat : x + 2 < SeqMod => x + 1 < SeqMod
      BY SeqModNat
    <3> QED
      BY <1>1, <3>1
  <2>1. Back(n, rx.lastSeq) = m + 1
    BY <1>3, <2>3
  <2>2. Back(n, rx.lastSeq) + 1 = m + 2
    BY <1>1, <2>1
  <2> QED
    BY <1>1, <1>6, <2>2, BackOfNext
<1>8. m + 1 \in 0..(MaxUnits * MaxFragments)
  BY <1>1, <1>2, <1>3, BoundsNat
<1>9. missing' \in [Streams -> 0..(MaxUnits * MaxFragments)]
  BY <1>4, <1>8 DEF m
<1>10. LastProcessed(rx, Succ(n), u, i + 1, m + 1)
  <2>1. (m + 1) + 1 = m + 2
    BY <1>1
  <2>2. m + 1 <= Sent(u, i + 1) /\ (rx.lastSeq # 0 => m + 2 <= Sent(u, i + 1))
    <3>1. \A x, y \in Nat : /\ x <= y => x + 1 <= y + 1
                            /\ x + 1 <= y => x + 2 <= y + 1
      OBVIOUS
    <3>2. m <= Sent(u, i) /\ (rx.lastSeq # 0 => m + 1 <= Sent(u, i))
      BY <1>3
    <3> QED
      BY <1>1, <1>2, <3>1, <3>2
  <2> QED
    BY <1>7, <2>1, <2>2 DEF LastProcessed
<1> QED
  BY <1>5, <1>9, <1>10

\* The packet is lost, or taken for a repetition.
LEMMA NotProcessed ==
  ASSUME OneCamera, IInv, Send(Cam), missing' = [missing EXCEPT ![Cam] = @ + 1],
         intact' = [intact EXCEPT ![Cam] = FALSE], rx' = rx, shown' = shown, Turn(Cam)
  PROVE  IInv'
<1> DEFINE u == unit[Cam]
           z == size[Cam]
           i == sent[Cam]
           n == seq[Cam]
<1>1. /\ u \in 1..MaxUnits /\ z \in 1..MaxFragments /\ i \in Nat /\ i < z /\ n \in Seqs
  BY SendFields, PacketSent, CamValues DEF IInv
<1>2. /\ sent'[Cam] = i + 1 /\ seq'[Cam] = Succ(n) /\ unit'[Cam] = u /\ size'[Cam] = z
      /\ unit' = unit /\ size' = size /\ info' = info
      /\ sent' \in [Streams -> 0..MaxFragments] /\ seq' \in [Streams -> Seqs]
  BY SendFields
<1>3. /\ Good(rx, n, u, z, i, turned) /\ FrameFits(shown.frame, u, i = z, turned)
      /\ turned \in BOOLEAN
  BY DEF IInv
<1>4. /\ missing' \in [Streams -> 0..(MaxUnits * MaxFragments)]
      /\ LastProcessed(rx, seq[Cam], unit[Cam], sent[Cam], missing[Cam])'
  BY MissingGrows
<1>5. intact' \in [Streams -> BOOLEAN]
  BY DEF IInv, CamTypes
<1>6. CamTypes'
  BY <1>2, <1>4, <1>5 DEF IInv, CamTypes
<1> HIDE DEF u, z, i, n
<1>11. turned' = Turned(turned, rx, Succ(n)) /\ turned' \in BOOLEAN
  <2>1. turned' = (turned \/ (rx.fuStarted /\ rx.fuStart = Succ(n)))
    BY <1>2 DEF Turn
  <2> QED
    BY <1>3, <2>1 DEF Turned, Good, RxTypes
<1>7. Good(rx, Succ(n), u, z, i + 1, turned')
  BY <1>1, <1>3, <1>11, OldGood
<1>8. FrameFits(shown.frame, u, i + 1 = z, turned')
  <2>1. (i = z) = FALSE
    BY <1>1
  <2>2. turned => turned'
    BY <1>11 DEF Turned
  <2> QED
    BY <1>3, <2>1, <2>2 DEF FrameFits
<1>9. UnitSent(u, z, i + 1)
  BY <1>1, BoundsNat DEF UnitSent
<1>10. ShownTypes'
  BY DEF IInv, ShownTypes
<1> QED
  BY <1>2, <1>4, <1>6, <1>7, <1>8, <1>9, <1>10, <1>11 DEF IInv

\* The encoder has another unit.
LEMMA NextUnitInv ==
  ASSUME OneCamera, IInv, NextUnit(Cam)
  PROVE  IInv'
<1> DEFINE u == unit[Cam]
           z == size[Cam]
           n == seq[Cam]
           m == missing[Cam]
<1>1. /\ sent[Cam] = z /\ u < MaxUnits
      /\ unit' = [unit EXCEPT ![Cam] = unit[Cam] + 1]
      /\ sent' = [sent EXCEPT ![Cam] = 0] /\ intact' = [intact EXCEPT ![Cam] = TRUE]
      /\ seq' = seq /\ missing' = missing /\ turned' = turned /\ rx' = rx /\ shown' = shown
  BY DEF NextUnit
<1>2. PICK y \in 1..MaxFragments : size' = [size EXCEPT ![Cam] = y]
  BY DEF NextUnit
<1>3. PICK b \in BOOLEAN : info' = [info EXCEPT ![Cam] = b]
  BY DEF NextUnit
<1>4. /\ Cam \in Streams /\ u \in 0..MaxUnits /\ z \in 0..MaxFragments /\ n \in Seqs
      /\ u \in Nat /\ z \in Nat /\ u + 1 \in 0..MaxUnits /\ m \in Nat
      /\ y \in 0..MaxFragments /\ 0 \in 0..MaxFragments
  BY <1>1, CamValues, BoundsNat DEF IInv
<1>5. CamTypes'
  <2>1. /\ unit' \in [Streams -> 0..MaxUnits] /\ size' \in [Streams -> 0..MaxFragments]
        /\ info' \in [Streams -> BOOLEAN]
    BY <1>1, <1>2, <1>3, <1>4 DEF IInv, CamTypes
  <2>2. sent' \in [Streams -> 0..MaxFragments] /\ intact' \in [Streams -> BOOLEAN]
    BY <1>1, <1>4 DEF IInv, CamTypes
  <2> QED
    BY <1>1, <2>1, <2>2 DEF IInv, CamTypes
<1>6. /\ unit'[Cam] = u + 1 /\ size'[Cam] = y /\ sent'[Cam] = 0 /\ seq'[Cam] = n
      /\ missing'[Cam] = m
  BY <1>1, <1>2, <1>4 DEF IInv, CamTypes
<1>7. /\ Good(rx, n, u, z, z, turned) /\ FrameFits(shown.frame, u, z = z, turned)
      /\ LastProcessed(rx, n, u, z, m) /\ turned \in BOOLEAN
  BY <1>1 DEF IInv
<1> HIDE DEF u, z, n, m
<1>8. Sent(u, z) \in Nat /\ Sent(u, z) <= Sent(u + 1, 0) /\ Sent(u + 1, 0) \in Nat
  BY <1>4, SentGrows
<1>9. BufferFits(rx, n, u + 1, y, 0, turned)
  <2> SUFFICES ASSUME rx.fuStarted
               PROVE  BufferFits(rx, n, u + 1, y, 0, turned)
    BY DEF BufferFits
  <2>1. RxTypes(rx) /\ BufferTypes(rx) /\ BufferFits(rx, n, u, z, z, turned)
    BY <1>7 DEF Good
  <2>2. First(rx).unit <= u + 1
    <3>1. First(rx) \in Fragments /\ First(rx).unit <= u
      BY <2>1 DEF BufferFits, BufferTypes, First
    <3>2. First(rx).unit \in 1..MaxUnits
      BY <3>1 DEF Fragments
    <3> QED
      BY <1>4, <3>1, <3>2, BoundsNat
  <2>3. ~turned => UnitFits(rx, n, u + 1, y, 0)
    <3> SUFFICES ASSUME ~turned
                 PROVE  UnitFits(rx, n, u + 1, y, 0)
      OBVIOUS
    <3>1. BufferFits(rx, n, u, z, z, FALSE)
      BY <2>1 DEF BufferFits
    <3>2. /\ Age(rx, n) \in Nat
          /\ First(rx).of \in 1..MaxFragments /\ First(rx).unit \in 1..MaxUnits
      BY <1>4, <2>1, <3>1, BufferNumbers
    <3>3. First(rx).of \in Nat /\ First(rx).unit \in Nat
      BY <3>2, BoundsNat
    <3> QED
      BY <1>4, <3>1, <3>2, <3>3 DEF BufferFits, UnitFits
  <2> QED
    BY <2>1, <2>2, <2>3 DEF BufferFits
<1>10. \A f : f \in Seq(Seq(Fragments)) /\ FrameFits(f, u, z = z, turned)
         => FrameFits(f, u + 1, 0 = y, turned)
  <2> SUFFICES ASSUME NEW f \in Seq(Seq(Fragments)), FrameFits(f, u, z = z, turned)
               PROVE  FrameFits(f, u + 1, 0 = y, turned)
    OBVIOUS
  <2>1. ASSUME NEW j \in DOMAIN f
        PROVE  f[j][1].unit <= u + 1 /\ f[j][1].unit # u + 1
    <3>1. f[j] \in Seq(Fragments) /\ Len(f[j]) >= 1 /\ f[j][1].unit <= u
      BY DEF FrameFits
    <3>2. f[j][1] \in Fragments
      BY <3>1
    <3>3. f[j][1].unit \in 1..MaxUnits
      BY <3>2 DEF Fragments
    <3>4. \A x \in 1..MaxUnits : x <= u => x <= u + 1 /\ x # u + 1
      BY <1>4, BoundsNat
    <3> QED
      BY <3>1, <3>3, <3>4, Zenon
  <2> QED
    BY <2>1 DEF FrameFits
<1>11. Good(rx, n, u + 1, y, 0, turned) /\ FrameFits(shown.frame, u + 1, 0 = y, turned)
  <2>1. rx.frame \in Seq(Seq(Fragments)) /\ shown.frame \in Seq(Seq(Fragments))
    BY DEF IInv, Good, RxTypes, ShownTypes
  <2> QED
    BY <1>7, <1>9, <1>10, <2>1 DEF Good
<1>12. UnitSent(u + 1, y, 0)
  BY <1>4, <1>2, BoundsNat DEF UnitSent
<1>13. LastProcessed(rx, n, u + 1, 0, m)
  BY <1>4, <1>7, <1>8 DEF LastProcessed
<1>14. ShownTypes'
  BY <1>1 DEF IInv, ShownTypes
<1> QED
  BY <1>1, <1>5, <1>6, <1>11, <1>12, <1>13, <1>14 DEF IInv

\* The members after a packet that was processed, and what is shown.
LEMMA RtpFields ==
  ASSUME OneCamera, IInv, HandleRtp(Cam)
  PROVE  LET p == Packet(Cam)
             q == AfterGapTest(rx, p.seq)
             r == ProcessRtpNalu(q, p)
         IN  /\ rx'.lastSeq = p.seq /\ DOMAIN rx' = DOMAIN r
             /\ rx'.fuStarted = r.fuStarted /\ rx'.fuStart = r.fuStart
             /\ rx'.fuExpected = r.fuExpected /\ rx'.fuBuffer = r.fuBuffer
             /\ \/ rx'.frame = r.frame /\ shown' = shown
                \/ rx'.frame = <<>> /\ shown' = [stream |-> Cam, frame |-> r.frame]
<1> DEFINE p == Packet(Cam)
           q == AfterGapTest(rx, p.seq)
           r == ProcessRtpNalu(q, p)
           t == [r EXCEPT !.lastSeq = p.seq]
           v == [t EXCEPT !.frame = <<>>]
<1>1. RxTypes(r)
  <2>1. sent[Cam] < size[Cam] /\ seq[Cam] \in Seqs
    BY CamValues DEF HandleRtp, Send, IInv
  <2>2. Good(q, seq[Cam], unit[Cam], size[Cam], sent[Cam], turned) /\ turned \in BOOLEAN
    BY GapTestGood DEF IInv
  <2>3. /\ unit[Cam] \in 1..MaxUnits /\ size[Cam] \in 1..MaxFragments /\ sent[Cam] \in Nat
        /\ IsPacket(p, seq[Cam], unit[Cam], size[Cam], sent[Cam])
    BY <2>1, PacketSent
  <2> QED
    BY <2>1, <2>2, <2>3, Processed DEF Good
<1>2. \/ rx' = t /\ shown' = shown
      \/ rx' = v /\ shown' = [stream |-> Cam, frame |-> t.frame]
  BY DEF HandleRtp
<1> HIDE DEF p, q, r
<1>3. DOMAIN r = {"lastSeq", "fuStarted", "fuStart", "fuExpected", "fuBuffer", "frame"}
  BY <1>1 DEF RxTypes
<1>4. /\ DOMAIN t = DOMAIN r /\ t.lastSeq = p.seq /\ t.fuStarted = r.fuStarted
      /\ t.fuStart = r.fuStart /\ t.fuExpected = r.fuExpected
      /\ t.fuBuffer = r.fuBuffer /\ t.frame = r.frame
  BY <1>3
<1> HIDE DEF t
<1>5. /\ DOMAIN v = DOMAIN t /\ v.lastSeq = t.lastSeq /\ v.fuStarted = t.fuStarted
      /\ v.fuStart = t.fuStart /\ v.fuExpected = t.fuExpected
      /\ v.fuBuffer = t.fuBuffer /\ v.frame = <<>>
  BY <1>3, <1>4
<1> QED
  BY <1>2, <1>4, <1>5 DEF p, q, r

\* The packet is processed, and a frame may be shown.
LEMMA HandleRtpInv ==
  ASSUME OneCamera, IInv, HandleRtp(Cam)
  PROVE  IInv'
<1> DEFINE u == unit[Cam]
           z == size[Cam]
           i == sent[Cam]
           n == seq[Cam]
           p == Packet(Cam)
           q == AfterGapTest(rx, p.seq)
           r == ProcessRtpNalu(q, p)
<1>1. Send(Cam) /\ missing' = [missing EXCEPT ![Cam] = 0] /\ intact' = intact /\ Turn(Cam)
  BY DEF HandleRtp
<1>2. /\ u \in 1..MaxUnits /\ z \in 1..MaxFragments /\ i \in Nat /\ i < z /\ n \in Seqs
      /\ IsPacket(p, n, u, z, i) /\ Cam \in Streams
  BY <1>1, SendFields, PacketSent, CamValues DEF IInv
<1>3. /\ sent'[Cam] = i + 1 /\ seq'[Cam] = Succ(n) /\ unit'[Cam] = u /\ size'[Cam] = z
      /\ unit' = unit /\ size' = size /\ info' = info
      /\ sent' \in [Streams -> 0..MaxFragments] /\ seq' \in [Streams -> Seqs]
  BY <1>1, SendFields
<1>4. /\ rx'.lastSeq = p.seq /\ DOMAIN rx' = DOMAIN r
      /\ rx'.fuStarted = r.fuStarted /\ rx'.fuStart = r.fuStart
      /\ rx'.fuExpected = r.fuExpected /\ rx'.fuBuffer = r.fuBuffer
      /\ \/ rx'.frame = r.frame /\ shown' = shown
         \/ rx'.frame = <<>> /\ shown' = [stream |-> Cam, frame |-> r.frame]
  BY RtpFields
<1>5. Good(q, n, u, z, i, turned) /\ turned \in BOOLEAN
  BY GapTestGood DEF IInv
<1> HIDE DEF p, q
<1>6. Good(r, Succ(n), u, z, i + 1, Turned(turned, r, Succ(n)))
  BY <1>2, <1>5, Processed
<1> HIDE DEF r
<1>7. /\ missing \in [Streams -> 0..(MaxUnits * MaxFragments)]
      /\ 0 \in 0..(MaxUnits * MaxFragments)
  BY BoundsNat DEF IInv, CamTypes
<1>8. CamTypes' /\ missing'[Cam] = 0
  BY <1>1, <1>2, <1>3, <1>7 DEF IInv, CamTypes
<1>18. turned' = Turned(turned, r, Succ(n)) /\ turned' \in BOOLEAN /\ (turned => turned')
  <2>1. turned' = (turned \/ (r.fuStarted /\ r.fuStart = Succ(n)))
    BY <1>1, <1>3, <1>4 DEF Turn
  <2> QED
    BY <1>5, <1>6, <2>1 DEF Turned, Good, RxTypes
<1> HIDE DEF u, z, i, n
<1>19. Good(r, Succ(n), u, z, i + 1, turned')
  BY <1>6, <1>18
<1>9. p.seq = n
  BY <1>2 DEF IsPacket
<1>10. RxTypes(rx')
  <2>1. <<>> \in Seq(Seq(Fragments))
    OBVIOUS
  <2>2. rx'.frame \in Seq(Seq(Fragments))
    BY <1>4, <1>6, <2>1 DEF Good, RxTypes
  <2> QED
    BY <1>2, <1>4, <1>6, <1>9, <2>2 DEF Good, RxTypes
<1>11. BufferTypes(rx')
  BY <1>4, <1>6 DEF Good, BufferTypes
<1>12. BufferFits(rx', Succ(n), u, z, i + 1, turned')
  BY <1>4, <1>19 DEF Good, BufferFits, KeyFits, UnitFits, Offset, Age, First
<1>13. FrameFits(rx'.frame, u, i + 1 = z, turned')
  BY <1>4, <1>19, EmptyFrame DEF Good
<1>14. FrameFits(shown'.frame, u, i + 1 = z, turned')
  <2>1. FrameFits(shown.frame, u, FALSE, turned)
    <3>1. (i = z) = FALSE
      BY <1>2
    <3>2. FrameFits(shown.frame, u, i = z, turned)
      BY DEF IInv, u, i, z
    <3> QED
      BY <3>1, <3>2
  <2>2. FrameFits(shown.frame, u, i + 1 = z, turned')
    BY <1>18, <2>1 DEF FrameFits
  <2> QED
    BY <1>4, <1>19, <2>2 DEF Good
<1>15. ShownTypes'
  <2>1. r.frame \in Seq(Seq(Fragments))
    BY <1>6 DEF Good, RxTypes
  <2> QED
    BY <1>2, <1>4, <2>1 DEF IInv, ShownTypes
<1>16. UnitSent(u, z, i + 1)
  BY <1>2, BoundsNat DEF UnitSent
<1>17. LastProcessed(rx', Succ(n), u, i + 1, 0)
  <2>1. /\ u \in 0..MaxUnits /\ u > 0 /\ i \in 0..MaxFragments /\ i + 1 \in 0..MaxFragments
    BY <1>2, BoundsNat
  <2>2. Sent(u, i) \in Nat /\ Sent(u, i + 1) = Sent(u, i) + 1
    BY <2>1, SentGrows
  <2>3. Back(Succ(n), n) = 1
    BY <1>2, TwoNumbers
  <2> QED
    BY <1>4, <1>9, <2>2, <2>3 DEF LastProcessed
<1> QED
  BY <1>3, <1>8, <1>10, <1>11, <1>12, <1>13, <1>14, <1>15, <1>16, <1>17, <1>18
     DEF IInv, Good

\* A step of the only camera is a step of Cam.
LEMMA OnlyCam ==
  ASSUME OneCamera, Next
  PROVE  NextUnit(Cam) \/ Lose(Cam) \/ HandleDuplicate(Cam) \/ HandleRtp(Cam)
BY DEF Next, OneCamera

\* Before the first packet nothing is in the buffer or in a frame.
LEMMA InitInv ==
  ASSUME OneCamera, Init
  PROVE  IInv
<1>1. Cam \in Streams /\ 0 \in Seqs /\ MaxUnits * MaxFragments \in Nat
  BY SeqModNat, BoundsNat DEF OneCamera, Seqs
<1>2. /\ unit[Cam] = 0 /\ size[Cam] = 0 /\ sent[Cam] = 0 /\ missing[Cam] = 0
      /\ seq \in [Streams -> Seqs] /\ turned = FALSE
  BY <1>1 DEF Init
<1>3. CamTypes
  BY <1>1, BoundsNat DEF Init, CamTypes
<1>4. /\ rx.lastSeq = 0 /\ rx.fuStart = 0 /\ rx.fuExpected = 0 /\ rx.fuStarted = FALSE
      /\ rx.fuBuffer = NoFragments /\ rx.frame = <<>>
      /\ DOMAIN rx = {"lastSeq", "fuStarted", "fuStart", "fuExpected", "fuBuffer", "frame"}
  BY DEF Init
<1>5. RxTypes(rx)
  <2>1. <<>> \in Seq(Seq(Fragments))
    OBVIOUS
  <2> QED
    BY <1>1, <1>4, <2>1 DEF RxTypes
<1>6. BufferTypes(rx)
  <2>1. DOMAIN NoFragments = {} /\ Cardinality({}) <= MaxFuBufferSize
    BY FS_EmptySet, MaxFuBufferSizePositive DEF NoFragments
  <2> QED
    BY <1>4, <2>1 DEF BufferTypes
<1>7. BufferFits(rx, seq[Cam], unit[Cam], size[Cam], sent[Cam], turned)
  BY <1>4 DEF BufferFits
<1>8. ShownTypes /\ shown.frame = <<>>
  BY <1>1 DEF Init, ShownTypes, Cam
<1>9. UnitSent(0, 0, 0) /\ LastProcessed(rx, seq[Cam], 0, 0, 0)
  BY <1>4 DEF UnitSent, LastProcessed, Sent
<1> QED
  BY <1>2, <1>3, <1>4, <1>5, <1>6, <1>7, <1>8, <1>9, EmptyFrame DEF IInv, Good

\* Every step of the camera and the reassembler keeps the invariant.
LEMMA StepInv ==
  ASSUME OneCamera, IInv, [Next]_vars
  PROVE  IInv'
<1>1. CASE NextUnit(Cam)
  BY <1>1, NextUnitInv
<1>2. CASE Lose(Cam)
  BY <1>2, NotProcessed DEF Lose
<1>3. CASE HandleDuplicate(Cam)
  BY <1>3, NotProcessed DEF HandleDuplicate
<1>4. CASE HandleRtp(Cam)
  BY <1>4, HandleRtpInv
<1>5. CASE UNCHANGED vars
  BY <1>5 DEF vars, camVars, IInv, CamTypes, ShownTypes
<1> QED
  BY <1>1, <1>2, <1>3, <1>4, <1>5, OnlyCam

-----------------------------------------------------------------------------
(* What the invariant says.                                                 *)

\* One camera's frames are whole, whatever is missing, until a unit that was not finished
\* has been in the buffer for a whole turn of the numbering.
THEOREM FramesOfOneCamera ==
  ASSUME OneCamera
  PROVE  Spec => []FrameInv
<1>1. Init => IInv
  BY InitInv
<1>2. IInv /\ [Next]_vars => IInv'
  BY StepInv
<1>3. IInv => FrameInv
  <2> SUFFICES ASSUME IInv
               PROVE  FrameInv
    OBVIOUS
  <2>1. FramesAreWhole
    BY DEF IInv, Good, FrameFits, FramesAreWhole
  <2>2. TypeOK
    BY DEF IInv, CamTypes, Good, RxTypes, BufferTypes, ShownTypes, TypeOK
  <2> QED
    BY <2>1, <2>2 DEF FrameInv
<1> QED
  BY <1>1, <1>2, <1>3, PTL DEF Spec

\* The next packet is not taken for a repetition while few are missing.
THEOREM NextIsNotDuplicate ==
  ASSUME OneCamera
  PROVE  Spec => []FreshIsNotDuplicate
<1>1. Init => IInv
  BY InitInv
<1>2. IInv /\ [Next]_vars => IInv'
  BY StepInv
<1>3. IInv => FreshIsNotDuplicate
  <2> SUFFICES ASSUME IInv, missing[Cam] < MaxSeqGap, rx.lastSeq # 0,
                      seq[Cam] <= rx.lastSeq
               PROVE  rx.lastSeq > SeqMod - 1 - MaxSeqGap /\ seq[Cam] < MaxSeqGap
    BY DEF FreshIsNotDuplicate, Duplicate, OneCamera
  <2>1. /\ missing[Cam] \in Nat /\ seq[Cam] \in Seqs /\ rx.lastSeq \in Seqs
    BY CamValues DEF IInv, Good, RxTypes
  <2>2. missing[Cam] + 1 < SeqMod => Back(seq[Cam], rx.lastSeq) = missing[Cam] + 1
    BY DEF IInv, LastProcessed
  <2>3. CASE MaxSeqGap < SeqMod
    BY <2>1, <2>2, <2>3, SeqModNat, MaxSeqGapNat DEF Back, Seqs
  <2>4. CASE MaxSeqGap >= SeqMod
    BY <2>1, <2>4, SeqModNat, MaxSeqGapNat DEF Seqs
  <2> QED
    BY <2>3, <2>4, SeqModNat, MaxSeqGapNat
<1> QED
  BY <1>1, <1>2, <1>3, PTL DEF Spec

-----------------------------------------------------------------------------
(* What is kept.                                                            *)

\* The invariant says what WholeUnitIsKept says.
LEMMA KeptUnit ==
  ASSUME OneCamera, KInv
  PROVE  WholeUnitIsKept
BY Zenon DEF KInv, WholeUnitIsKept, Kept, Has, OneCamera

\* A unit that has joined a frame is in it, and one that has not been sent is not.
LEMMA HasUnit ==
  ASSUME NEW f \in Seq(Seq(Fragments)), NEW u
  PROVE  /\ \A g : Adds(f, g, u) => Has(g, u)
         /\ \A t : FrameFits(f, u, FALSE, t) => ~Has(f, u)
<1>1. ASSUME NEW w \in Seq(Fragments), w[1].unit = u
      PROVE  Has(Append(f, w), u)
  <2>1. Len(f) \in Nat /\ DOMAIN Append(f, w) = 1..(Len(f) + 1) /\ Append(f, w)[Len(f) + 1] = w
    BY AppendProperties
  <2>2. Len(f) + 1 \in DOMAIN Append(f, w)
    BY <2>1
  <2> QED
    BY <1>1, <2>1, <2>2 DEF Has
<1>2. \A t : FrameFits(f, u, FALSE, t) => ~Has(f, u)
  BY DEF FrameFits, Has
<1> QED
  BY <1>1, <1>2 DEF Adds

\* Of a unit that is whole so far, the next packet finds what was processed before it
\* untouched.
LEMMA NoGap ==
  ASSUME OneCamera, MaxSeqGap > 0, IInv, missing[Cam] = 0
  PROVE  AfterGapTest(rx, seq[Cam]) = rx
<1> SUFFICES ASSUME rx.lastSeq # 0
             PROVE  (seq[Cam] - rx.lastSeq) % SeqMod <= MaxSeqGap
  <2>1. (rx.lastSeq # 0 => (seq[Cam] - rx.lastSeq) % SeqMod <= MaxSeqGap)
          => ~(rx.lastSeq # 0 /\ (seq[Cam] - rx.lastSeq) % SeqMod > MaxSeqGap)
    <3>1. seq[Cam] \in Seqs /\ rx.lastSeq \in Seqs
      BY CamValues DEF IInv, Good, RxTypes
    <3>2. (seq[Cam] - rx.lastSeq) % SeqMod = Back(seq[Cam], rx.lastSeq)
      BY <3>1, BackIsMod
    <3>3. Back(seq[Cam], rx.lastSeq) \in Int
      <4>1. Back(seq[Cam], rx.lastSeq) \in Seqs
        BY <3>1, BackIsMod
      <4> QED
        BY <4>1, SeqModNat DEF Seqs
    <3> QED
      BY <3>2, <3>3, MaxSeqGapNat
  <2> QED
    BY <2>1 DEF AfterGapTest
<1>1. seq[Cam] \in Seqs /\ rx.lastSeq \in Seqs
  BY CamValues DEF IInv, Good, RxTypes
<1>2. Back(seq[Cam], rx.lastSeq) = 1
  BY TwoNumbers DEF IInv, LastProcessed
<1>3. (seq[Cam] - rx.lastSeq) % SeqMod = 1
  BY <1>1, <1>2, BackIsMod
<1> QED
  BY <1>3, MaxSeqGapNat

\* It joins the packets before it, and makes the buffer complete.
LEMMA NextJoins ==
  ASSUME OneCamera, NEW q, NEW n \in Seqs, NEW u \in 1..MaxUnits, NEW z \in 1..MaxFragments,
         NEW i \in Nat, 1 <= i, i < z, NEW t \in BOOLEAN, Good(q, n, u, z, i, t),
         NEW p, IsPacket(p, n, u, z, i), n + 1 # SeqMod,
         i + 1 <= MaxFuBufferSize, i <= n, q.fuStarted, q.fuStart = n - i, q.fuExpected = n,
         DOMAIN q.fuBuffer = (n - i)..(n - 1)
  PROVE  LET s == FuInsert(q, p) IN
         /\ ~Early(q, p) /\ Complete(s, p) /\ RxTypes(s) /\ BufferTypes(s)
         /\ s.fuStarted /\ s.fuStart = n - i /\ s.fuExpected = n + 1
         /\ DOMAIN s.fuBuffer = (n - i)..n /\ s.frame = q.frame
<1> DEFINE s == FuInsert(q, p)
           a == n - i
<1>1. n \in Nat /\ n + 1 < SeqMod /\ SeqMod \in Nat /\ SeqMod > 0 /\ Succ(n) = n + 1
  BY SeqModNat DEF Seqs, Succ
<1>2. p.data \in Fragments /\ p.seq = n
  BY PacketData DEF IsPacket
<1>3. /\ RxTypes(s) /\ s.fuStarted = q.fuStarted /\ s.fuStart = a /\ s.fuExpected = n + 1
      /\ DOMAIN s.fuBuffer = DOMAIN q.fuBuffer \cup {n} /\ s.frame = q.frame
      /\ ~Overflow(s) => BufferTypes(s)
  <2>1. RxTypes(q) /\ BufferTypes(q) /\ p.seq \in Seqs
    BY <1>2 DEF Good
  <2>2. RxTypes(s)
    BY <1>2, <2>1, InsertFields
  <2>5. s.fuStarted = q.fuStarted /\ s.fuStart = q.fuStart /\ s.frame = q.frame
    BY <1>2, <2>1, InsertFields
  <2>6. s.fuExpected = Succ(p.seq)
    BY <1>2, <2>1, InsertFields
  <2>3. DOMAIN s.fuBuffer = DOMAIN q.fuBuffer \cup {p.seq}
    BY <1>2, <2>1, InsertFields, ZenonT(40)
  <2>4. ~Overflow(s) /\ q.fuStarted => BufferTypes(s)
    BY <1>2, <2>1, InsertFields
  <2> QED
    BY <1>1, <1>2, <2>2, <2>3, <2>4, <2>5, <2>6
<1> HIDE DEF s
<1>4. a \in Nat /\ n = a + i
  BY <1>1
<1> HIDE DEF a
<1>5. DOMAIN s.fuBuffer = a..n
  <2>1. DOMAIN q.fuBuffer = a..(n - 1)
    BY DEF a
  <2>2. (a..(n - 1)) \cup {n} = a..n
    BY <1>1, <1>4
  <2> QED
    BY <1>3, <2>1, <2>2
<1>6. Cardinality(DOMAIN s.fuBuffer) = i + 1
  <2>1. Cardinality(a..n) = IF a > n THEN 0 ELSE n - a + 1
    BY <1>1, <1>4, FS_Interval, a \in Int, n \in Int
  <2> QED
    BY <1>1, <1>4, <1>5, <2>1
<1>7. ~Overflow(s)
  BY <1>6, MaxFuBufferSizePositive DEF Overflow
<1>8. ~Early(q, p)
  <2>1. ~TooOld(q, p)
    BY <1>1, <1>2 DEF TooOld
  <2>2. ~TooFar(q, p)
    BY <1>1, <1>2, MaxSeqGapNat DEF TooFar
  <2>3. ~TooMany(q, p)
    BY <1>7 DEF TooMany, s
  <2> QED
    BY <2>1, <2>2, <2>3 DEF Early
<1>9. Complete(s, p)
  <2>1. a + (i + 1) = n + 1 /\ a + (i + 1) - 1 = n
    BY <1>1, <1>4
  <2>2. (n + 1) % SeqMod = n + 1
    BY <1>1, NextNumber
  <2>3. p.seq = (n + 1) - 1
    BY <1>1, <1>2
  <2> QED
    BY <1>3, <1>5, <1>6, <2>1, <2>2, <2>3 DEF Complete
<1> QED
  BY <1>3, <1>5, <1>7, <1>8, <1>9 DEF s, a

\* The end packet of the only unit in the buffer adds it when it is short enough and does
\* not meet the wrap, and nothing otherwise.
LEMMA EndAdds ==
  ASSUME NEW q, NEW n \in Seqs, NEW u, NEW z, RxTypes(q), BufferTypes(q),
         q.fuStart \in DOMAIN q.fuBuffer, First(q).unit = u, Age(q, Succ(n)) = z,
         NEW p, p.seq = n
  PROVE  /\ ~Complete(q, p) => AfterEnd(q, p).frame = q.frame
         /\ Complete(q, p) => /\ z <= MaxFuBufferSize /\ z <= Succ(n)
                              /\ Adds(q.frame, AfterEnd(q, p).frame, u)
<1>1. CASE ~Complete(q, p)
  <2>1. AfterEnd(q, p) = FuReset(q)
    BY <1>1 DEF AfterEnd
  <2> QED
    BY <1>1, <2>1, ResetFields
<1>2. CASE Complete(q, p)
  <2> DEFINE w == Assembled(q)
             r == [q EXCEPT !.frame = Append(q.frame, w)]
             c == Cardinality(DOMAIN q.fuBuffer)
  <2>1. /\ c \in Nat /\ c <= MaxFuBufferSize /\ q.fuStart \in Nat
        /\ Succ(n) = q.fuStart + c /\ z = c /\ w \in Seq(Fragments) /\ w[1] = First(q)
    BY <1>2, CompleteFields
  <2>2. AfterEnd(q, p) = FuReset(r)
    BY <1>2 DEF AfterEnd
  <2> HIDE DEF w, c
  <2>3. RxTypes(r) /\ r.frame = Append(q.frame, w)
    BY <2>1, AppendFields
  <2> HIDE DEF r
  <2>4. FuReset(r).frame = Append(q.frame, w)
    BY <2>3, ResetFields
  <2>5. Adds(q.frame, AfterEnd(q, p).frame, u)
    BY <2>1, <2>2, <2>4 DEF Adds
  <2>6. z <= MaxFuBufferSize /\ z <= Succ(n)
    BY <2>1
  <2> QED
    BY <1>2, <2>5, <2>6
<1> QED
  BY <1>1, <1>2

\* Nothing of unit u is missing, also not this packet: the buffer stays its own, and the
\* unit is kept at its end, or not.
LEMMA IntactProcessed ==
  ASSUME OneCamera, NEW q, NEW n \in Seqs, NEW u \in 1..MaxUnits, NEW z \in 1..MaxFragments,
         NEW i \in Nat, i < z, NEW t \in BOOLEAN, Good(q, n, u, z, i, t),
         NEW p, IsPacket(p, n, u, z, i), IntactFits(q, n, u, z, i, 0, TRUE)
  PROVE  LET r == ProcessRtpNalu(q, p) IN
         /\ IntactFits(r, Succ(n), u, z, i + 1, 0, TRUE)
         /\ i + 1 = z => IF z = 1 \/ (z <= MaxFuBufferSize /\ z <= Succ(n))
                         THEN Adds(q.frame, r.frame, u)
                         ELSE r.frame = q.frame
<1> DEFINE r == ProcessRtpNalu(q, p)
<1>1. /\ p.seq = n /\ (p.fu <=> z > 1) /\ (p.start <=> i + 1 = 1) /\ (p.end <=> i + 1 = z)
      /\ p.fu \in BOOLEAN /\ p.start \in BOOLEAN /\ p.data \in Fragments
      /\ p.data.unit = u /\ p.data.of = z
  <2>1. p.data \in Fragments /\ p.data.unit = u /\ p.data.of = z
    BY PacketData
  <2> QED
    BY <2>1 DEF IsPacket
<1>2. RxTypes(q) /\ BufferTypes(q) /\ q.fuExpected \in Seqs /\ q.fuStarted \in BOOLEAN
  BY DEF Good, RxTypes
<1>3. /\ ~p.fu => r = AfterSingle(q, p)
      /\ p.fu /\ p.start => r = FuStart(q, p)
      /\ TooOld(q, p) => r = q
      /\ TooFar(q, p) \/ TooMany(q, p) => r = FuReset(q)
      /\ p.fu /\ ~p.start /\ q.fuStarted /\ ~Early(q, p) =>
           r = IF p.end THEN AfterEnd(FuInsert(q, p), p) ELSE FuInsert(q, p)
      /\ p.fu /\ ~p.start /\ ~q.fuStarted => r = q
  BY <1>1, <1>2, Branches
<1>4. /\ n \in Nat /\ SeqMod \in Nat /\ n < SeqMod /\ u > 0 /\ z \in Nat /\ z >= 1
      /\ z < SeqMod
      /\ Succ(n) = IF n + 1 = SeqMod THEN 0 ELSE n + 1
  BY SeqModNat, BoundsNat, UnitsFit DEF Seqs, Succ
<1> HIDE DEF r
<1>5. CASE z = 1
  <2>1. i = 0 /\ ~p.fu
    BY <1>1, <1>5
  <2>2. Adds(q.frame, AfterSingle(q, p).frame, u)
    BY <1>5, SingleGood
  <2>3. IntactFits(r, Succ(n), u, z, i + 1, 0, TRUE)
    BY <1>5, <2>1 DEF IntactFits
  <2> QED
    BY <1>3, <1>5, <2>1, <2>2, <2>3 DEF r
<1>6. CASE z > 1 /\ i = 0
  <2>1. r = FuStart(q, p)
    BY <1>1, <1>3, <1>6
  <2>2. /\ r.fuStarted /\ r.fuStart = n /\ r.fuExpected = Succ(n) /\ DOMAIN r.fuBuffer = {n}
        /\ r.fuBuffer[n] = p.data
    BY <1>1, <1>2, <2>1, StartFields
  <2>3. ASSUME 1 <= Succ(n)
        PROVE  Succ(n) = n + 1 /\ {n} = (Succ(n) - 1)..(Succ(n) - 1) /\ n = Succ(n) - 1
    BY <1>4, <2>3
  <2>4. OwnBuffer(r, Succ(n), u, z, i + 1)
    BY <1>1, <1>6, <2>2, TwoNumbers DEF OwnBuffer, First, Age
  <2>5. IntactFits(r, Succ(n), u, z, i + 1, 0, TRUE)
    BY <1>6, <2>2, <2>3, <2>4 DEF IntactFits
  <2>6. i + 1 # z
    BY <1>6
  <2> QED
    BY <2>5, <2>6 DEF r
<1>7. CASE z > 1 /\ i > 0
  <2> DEFINE s == FuInsert(q, p)
             short == i + 1 <= MaxFuBufferSize /\ i + 1 <= Succ(n)
  <2>1. /\ OwnBuffer(q, n, u, z, i)
        /\ i <= MaxFuBufferSize /\ i <= n =>
             /\ q.fuStarted /\ q.fuStart = n - i /\ q.fuExpected = n
             /\ DOMAIN q.fuBuffer = (n - i)..(n - 1)
    BY <1>4, <1>7 DEF IntactFits
  <2>2. short => /\ n + 1 # SeqMod /\ Succ(n) = n + 1 /\ i <= n /\ i <= MaxFuBufferSize
                 /\ 1 <= i /\ i + 1 <= MaxFuBufferSize
    BY <1>4, <1>7, MaxFuBufferSizePositive
  <2>3. short => /\ ~Early(q, p) /\ Complete(s, p) /\ q.fuStarted
                 /\ s.fuStarted /\ s.fuStart = n - i /\ s.fuExpected = n + 1
                 /\ DOMAIN s.fuBuffer = (n - i)..n
    <3> SUFFICES ASSUME short
                 PROVE  /\ ~Early(q, p) /\ Complete(s, p) /\ q.fuStarted
                        /\ s.fuStarted /\ s.fuStart = n - i /\ s.fuExpected = n + 1
                        /\ DOMAIN s.fuBuffer = (n - i)..n
      OBVIOUS
    <3>1. /\ q.fuStarted /\ q.fuStart = n - i /\ q.fuExpected = n
          /\ DOMAIN q.fuBuffer = (n - i)..(n - 1)
      BY <2>1, <2>2
    <3> QED
      BY <2>2, <3>1, NextJoins
  <2>4. ASSUME q.fuStarted
        PROVE  /\ s.fuStarted /\ s.fuStart \in DOMAIN s.fuBuffer /\ s.frame = q.frame
               /\ First(s).unit = u /\ First(s).of = z /\ Age(s, Succ(n)) = i + 1
               /\ Age(q, Succ(n)) = i + 1 /\ RxTypes(s) /\ (~Overflow(s) => BufferTypes(s))
    <3>1. First(q).unit = u /\ First(q).of = z /\ Age(q, n) = i
      BY <2>1, <2>4 DEF OwnBuffer
    <3>2. q.fuStart \in DOMAIN q.fuBuffer /\ q.fuStart \in Seqs
      BY <2>4 DEF Good, BufferFits, RxTypes
    <3>3. q.fuStart # n
      <4>1. CASE q.fuStart = n
        <5>1. Age(q, n) = 0
          BY <1>4, <4>1 DEF Age, Back
        <5> QED
          BY <1>7, <3>1, <5>1
      <4> QED
        BY <4>1
    <3>4. Age(q, Succ(n)) = i + 1
      <4>1. Back(n, q.fuStart) = i
        BY <3>1 DEF Age
      <4>2. i + 1 < SeqMod
        BY <1>4
      <4>3. Back(Succ(n), q.fuStart) = i + 1
        BY <3>2, <4>1, <4>2, BackOfNext
      <4> QED
        BY <4>3 DEF Age
    <3>5. /\ RxTypes(s) /\ s.fuStarted = q.fuStarted /\ s.fuStart = q.fuStart
          /\ s.frame = q.frame /\ (~Overflow(s) /\ q.fuStarted => BufferTypes(s))
      BY <1>1, <1>2, InsertFields
    <3>6. /\ DOMAIN s.fuBuffer = DOMAIN q.fuBuffer \cup {n}
          /\ \A k \in DOMAIN q.fuBuffer : k # n => s.fuBuffer[k] = q.fuBuffer[k]
      BY <1>1, <1>2, InsertFields
    <3> HIDE DEF s
    <3>7. First(s) = First(q) /\ Age(s, Succ(n)) = Age(q, Succ(n))
      BY <3>2, <3>3, <3>5, <3>6 DEF First, Age
    <3> QED
      BY <2>4, <3>1, <3>2, <3>4, <3>5, <3>6, <3>7
  <2>5. p.fu /\ ~p.start
    BY <1>1, <1>7
  <2>6. FuReset(q).frame = q.frame /\ ~FuReset(q).fuStarted
    BY <1>2, ResetFields
  <2> HIDE DEF s
  <2>7. CASE ~q.fuStarted \/ Early(q, p)
    <3>1. ~short
      BY <2>3, <2>7
    <3>2. r = q \/ r = FuReset(q)
      BY <1>3, <2>5, <2>7 DEF Early
    <3>3. r.frame = q.frame
      BY <2>6, <3>2
    <3>4. OwnBuffer(r, Succ(n), u, z, i + 1)
      BY <2>1, <2>4, <2>6, <3>2 DEF OwnBuffer
    <3> QED
      BY <1>4, <1>7, <3>1, <3>3, <3>4 DEF IntactFits, r
  <2>8. CASE q.fuStarted /\ ~Early(q, p)
    <3>1. r = IF p.end THEN AfterEnd(s, p) ELSE s
      BY <1>3, <2>5, <2>8 DEF s
    <3>2. ~Overflow(s)
      BY <2>5, <2>8 DEF Early, TooMany, s
    <3>3. CASE i + 1 < z
      <4>1. r = s
        BY <1>1, <3>1, <3>3
      <4>2. OwnBuffer(r, Succ(n), u, z, i + 1)
        BY <2>4, <2>8, <4>1 DEF OwnBuffer
      <4>3. short => /\ r.fuStarted /\ r.fuStart = Succ(n) - (i + 1)
                     /\ r.fuExpected = Succ(n)
                     /\ DOMAIN r.fuBuffer = (Succ(n) - (i + 1))..(Succ(n) - 1)
        <5>1. short => n - i = Succ(n) - (i + 1) /\ n = Succ(n) - 1 /\ Succ(n) = n + 1
          BY <1>4, <2>2
        <5> HIDE DEF short
        <5> QED
          BY <2>3, <4>1, <5>1
      <4> QED
        BY <3>3, <4>2, <4>3 DEF IntactFits, r
    <3>4. CASE i + 1 = z
      <4>1. r = AfterEnd(s, p)
        BY <1>1, <3>1, <3>4
      <4>2. /\ ~Complete(s, p) => AfterEnd(s, p).frame = s.frame
            /\ Complete(s, p) => /\ z <= MaxFuBufferSize /\ z <= Succ(n)
                                 /\ Adds(s.frame, AfterEnd(s, p).frame, u)
        BY <1>1, <2>4, <2>8, <3>2, <3>4, EndAdds
      <4>3. IntactFits(r, Succ(n), u, z, i + 1, 0, TRUE)
        <5>1. ~(i + 1 < z)
          BY <3>4
        <5> QED
          BY <5>1 DEF IntactFits
      <4>4. short <=> z <= MaxFuBufferSize /\ z <= Succ(n)
        BY <3>4
      <4>5. z # 1 /\ s.frame = q.frame
        BY <1>7, <2>4, <2>8
      <4> HIDE DEF short
      <4>6. IF short THEN Adds(q.frame, r.frame, u) ELSE r.frame = q.frame
        BY <2>3, <4>1, <4>2, <4>4, <4>5
      <4>7. IF z = 1 \/ (z <= MaxFuBufferSize /\ z <= Succ(n))
            THEN Adds(q.frame, r.frame, u) ELSE r.frame = q.frame
        BY <4>4, <4>5, <4>6
      <4> QED
        BY <4>3, <4>7 DEF r
    <3>5. i + 1 < z \/ i + 1 = z
      BY <1>4
    <3> QED
      BY <3>3, <3>4, <3>5, Zenon
  <2> QED
    BY <2>7, <2>8
<1>8. z = 1 \/ (z > 1 /\ i = 0) \/ (z > 1 /\ i > 0)
  BY <1>4
<1> QED
  BY <1>5, <1>6, <1>7, <1>8

\* A processed packet of a unit is kept exactly as WholeUnitIsKept says.
LEMMA HandleRtpKeeps ==
  ASSUME OneCamera, MaxSeqGap > 0, IInv, KInv, HandleRtp(Cam)
  PROVE  KInv'
<1> DEFINE u == unit[Cam]
           z == size[Cam]
           i == sent[Cam]
           n == seq[Cam]
           b == intact[Cam]
           p == Packet(Cam)
           q == AfterGapTest(rx, p.seq)
           r == ProcessRtpNalu(q, p)
<1>1. Send(Cam) /\ missing' = [missing EXCEPT ![Cam] = 0] /\ intact' = intact
  BY DEF HandleRtp
<1>2. /\ u \in 1..MaxUnits /\ z \in 1..MaxFragments /\ i \in Nat /\ i < z /\ n \in Seqs
      /\ IsPacket(p, n, u, z, i) /\ Cam \in Streams /\ b \in BOOLEAN
  BY <1>1, SendFields, PacketSent, CamValues DEF IInv
<1>3. /\ sent'[Cam] = i + 1 /\ seq'[Cam] = Succ(n) /\ unit'[Cam] = u /\ size'[Cam] = z
      /\ intact'[Cam] = b
  BY <1>1, SendFields
<1>4. missing'[Cam] = 0
  BY <1>1, <1>2 DEF IInv, CamTypes
<1>5. /\ rx'.fuStarted = r.fuStarted /\ rx'.fuStart = r.fuStart
      /\ rx'.fuExpected = r.fuExpected /\ rx'.fuBuffer = r.fuBuffer
      /\ \/ rx'.frame = r.frame /\ shown' = shown
         \/ rx'.frame = <<>> /\ shown' = [stream |-> Cam, frame |-> r.frame]
  BY RtpFields
<1>6. Good(q, n, u, z, i, turned) /\ turned \in BOOLEAN /\ q.frame \in {rx.frame, <<>>}
  BY GapTestGood DEF IInv
<1>7. FrameFits(shown.frame, u, i = z, turned) /\ FrameFits(rx.frame, u, i = z, turned)
  BY DEF IInv, Good
<1>8. rx.frame \in Seq(Seq(Fragments)) /\ shown.frame \in Seq(Seq(Fragments))
  BY DEF IInv, Good, RxTypes, ShownTypes
<1>9. IntactFits(rx, n, u, z, i, missing[Cam], b)
  BY DEF KInv
<1>10. b /\ i >= 1 => q = rx
  <2> SUFFICES ASSUME b, i >= 1
               PROVE  q = rx
    OBVIOUS
  <2>1. u > 0
    BY <1>2, BoundsNat
  <2>2. missing[Cam] = 0
    BY <1>2, <1>9, <2>1 DEF IntactFits
  <2>3. p.seq = seq[Cam]
    BY <1>2 DEF IsPacket
  <2> QED
    BY <2>2, <2>3, NoGap
<1>11. b => IntactFits(q, n, u, z, i, 0, TRUE)
  BY <1>2, <1>9, <1>10 DEF IntactFits
<1> HIDE DEF p, q
<1>13. b => /\ IntactFits(r, Succ(n), u, z, i + 1, 0, TRUE)
            /\ i + 1 = z => IF z = 1 \/ (z <= MaxFuBufferSize /\ z <= Succ(n))
                            THEN Adds(q.frame, r.frame, u)
                            ELSE r.frame = q.frame
  BY <1>2, <1>6, <1>11, IntactProcessed
<1> HIDE DEF r, u, z, i, n, b
<1>14. IntactFits(rx', Succ(n), u, z, i + 1, 0, b)
  BY <1>5, <1>13 DEF IntactFits, OwnBuffer, First, Age
<1>15. /\ q.frame \in Seq(Seq(Fragments)) /\ FrameFits(q.frame, u, FALSE, turned)
      /\ ~Has(shown.frame, u)
  <2>1. (i = z) = FALSE
    BY <1>2
  <2> QED
    BY <1>6, <1>7, <1>8, <2>1, HasUnit DEF Good, RxTypes
<1>16. ~Has(q.frame, u) /\ (Adds(q.frame, r.frame, u) => Has(r.frame, u))
  BY <1>15, HasUnit
<1>17. ~Has(<<>>, u)
  BY DEF Has
<1>18. (Has(shown'.frame, u) \/ Has(rx'.frame, u)) <=> Has(r.frame, u)
  BY <1>5, <1>15, <1>17
<1>19. ~(Succ(n) < z) <=> z <= Succ(n)
  <2>1. Succ(n) \in Int /\ z \in Int
    BY <1>2, BoundsNat, SeqModNat DEF Succ, Seqs
  <2> QED
    BY <2>1
<1>20. Kept(shown'.frame, rx'.frame, Succ(n), u, z, i + 1, b)
  <2> SUFFICES ASSUME b, i + 1 = z
               PROVE  Has(r.frame, u) <=> (z = 1 \/ (z <= MaxFuBufferSize /\ z <= Succ(n)))
    BY <1>18, <1>19 DEF Kept
  <2> QED
    BY <1>13, <1>16
<1> QED
  BY <1>3, <1>4, <1>14, <1>20 DEF KInv

\* Every step keeps what is said of whole units.
LEMMA StepKeeps ==
  ASSUME OneCamera, MaxSeqGap > 0, IInv, KInv, [Next]_vars
  PROVE  KInv'
<1>1. ASSUME intact' = [intact EXCEPT ![Cam] = FALSE]
      PROVE  KInv'
  <2>1. intact'[Cam] = FALSE
    BY <1>1, CamValues DEF IInv, CamTypes
  <2> QED
    BY <2>1 DEF KInv, IntactFits, Kept
<1>2. CASE NextUnit(Cam)
  <2>1. PICK y \in 1..MaxFragments : size' = [size EXCEPT ![Cam] = y]
    BY <1>2 DEF NextUnit
  <2>2. Cam \in Streams /\ sent' = [sent EXCEPT ![Cam] = 0]
    BY <1>2, CamValues DEF NextUnit, IInv
  <2>3. sent'[Cam] = 0 /\ size'[Cam] = y
    BY <2>1, <2>2 DEF IInv, CamTypes
  <2>4. y # 0
    BY BoundsNat
  <2> QED
    BY <2>3, <2>4 DEF KInv, IntactFits, Kept
<1>3. CASE Lose(Cam)
  BY <1>1, <1>3 DEF Lose
<1>4. CASE HandleDuplicate(Cam)
  BY <1>1, <1>4 DEF HandleDuplicate
<1>5. CASE HandleRtp(Cam)
  BY <1>5, HandleRtpKeeps
<1>6. CASE UNCHANGED vars
  BY <1>6 DEF vars, camVars, KInv
<1> QED
  BY <1>2, <1>3, <1>4, <1>5, <1>6, OnlyCam

\* A unit of which nothing is missing reaches the frame, unless it is longer than the
\* buffer or meets the wrap.
THEOREM WholeUnitsAreKept ==
  ASSUME OneCamera, MaxSeqGap > 0
  PROVE  Spec => []WholeUnitIsKept
<1>1. Init => IInv /\ KInv
  <2>1. Init => unit[Cam] = 0
    BY DEF Init, OneCamera
  <2> QED
    BY <2>1, InitInv DEF KInv, IntactFits, Kept
<1>2. IInv /\ KInv /\ [Next]_vars => IInv' /\ KInv'
  BY StepInv, StepKeeps
<1>3. KInv => WholeUnitIsKept
  BY KeptUnit
<1> QED
  BY <1>1, <1>2, <1>3, PTL DEF Spec
=============================================================================
