------------------------ MODULE TcpConnectionProofs ------------------------
(***************************************************************************)
(* Proofs about TcpConnection, for any dialogue, any number of frames and    *)
(* any length of their payloads: the server handles the client's requests    *)
(* in order and whole, however the bytes arrive; nobody waits for ever for   *)
(* an answer; and neither the framing nor the writing of answers ends the    *)
(* server when the client has gone.                                          *)
(***************************************************************************)
EXTENDS TcpConnection, Integers, SequenceTheorems, WellFoundedInduction, TLAPS

-----------------------------------------------------------------------------
(* The inductive invariant.                                                 *)

\* Sent and not yet taken out of the stream.
Pending == recvBuffer \o net

\* ... with the part of a frame that its write could not place yet.
Stream == Pending \o rest

\* s has a token of kind k.
Has(s, k) == \E i \in DOMAIN s : s[i].k = k

\* Before the first frame the dialogue is strict: nothing is under way, or a request
\* of which the last token is not read.
BeforeFrames ==
  frames = 0 =>
    /\ ~marked /\ ~split /\ rest = <<>>
    /\ \/ handled = asked /\ Pending = <<>>
       \/ handled + 1 = asked /\ Pending = RequestTokens(asked) /\ net # <<>>

\* Frames are sent when the dialogue but for TEARDOWN is over: so no header has a
\* body behind it that might be missing.
AfterDialogue ==
  frames > 0 =>
    /\ asked >= Len(Requests)
    /\ asked = Len(Requests) => ~waiting
    /\ ~Has(recvBuffer, "clen") /\ ~Has(net, "clen") /\ ~Has(rest, "clen")

\* What the client waits for is under way.
RequestUnderWay ==
  waiting /\ answers = 0 /\ peer = "open" /\ fault = "none" /\ ~stuck =>
    /\ frames = 0 => handled # asked
    /\ frames > 0 => Has(net, "end")

\* s has the end of one header at most, and no TEARDOWN behind it.
Ordered(s) ==
  /\ \A p, q \in DOMAIN s : s[p].k = "end" /\ s[q].k = "end" => p = q
  /\ \A p, q \in DOMAIN s : s[p].k = "TEARDOWN" /\ s[q].k = "end" => p < q

\* One request at a time: there is one header in the stream, or an answer, or the
\* client waits for none; and neither the framing nor a write has ended the server.
OneHeader ==
  /\ Ordered(Pending)
  /\ Has(Pending, "end") => waiting /\ answers = 0 /\ peer # "reset"
  /\ ~waiting => answers = 0
  /\ ~Has(rest, "end") /\ ~Has(rest, "TEARDOWN")
  /\ fault \in {"none", "handler"}

\* In s, at p, is a whole frame.
FrameAt(s, p) ==
  /\ p + 1 \in DOMAIN s /\ s[p + 1].k = "len" /\ p + 1 + s[p + 1].n \in DOMAIN s
  /\ \A j \in p..(p + 1 + s[p + 1].n) : s[j].id = s[p].id
  /\ \A j \in (p + 2)..(p + 1 + s[p + 1].n) : s[j].k = "byte"

\* In s, TEARDOWN ends at q.
TeardownAt(s, q) ==
  /\ q \in DOMAIN s /\ q - 2 \in DOMAIN s
  /\ s[q - 2] = Token("TEARDOWN", 0, Teardown)
  /\ s[q - 1] = Token("line", 0, Teardown)
  /\ s[q] = Token("end", 0, Teardown)

\* In s, what begins with a '$' is a whole frame, and what ends a header is the end of
\* a TEARDOWN.
Whole(s) ==
  /\ \A p \in DOMAIN s : s[p].k = "$" => FrameAt(s, p)
  /\ \A q \in DOMAIN s : s[q].k = "end" => TeardownAt(s, q)

\* The stream consists of frames and at most a TEARDOWN that is not handled yet.
ItemsWhole ==
  /\ Whole(Stream)
  /\ Has(Stream, "end") => handled = Len(Requests) /\ asked = Teardown
  /\ asked = Len(Requests) => handled = Len(Requests)

IInv ==
  /\ TypeOK /\ BeforeFrames /\ AfterDialogue /\ RequestUnderWay
  /\ ~marked => OneHeader
  /\ frames > 0 /\ ~marked /\ ~split => ItemsWhole
  /\ ItemsIntact

-----------------------------------------------------------------------------
(* Least and greatest elements, and what the server finds in its buffer.    *)

\* A set of naturals has a least element.
LEMMA MinProperties ==
  ASSUME NEW S, S \subseteq Nat, S # {}
  PROVE  Min(S) \in S /\ \A y \in S : Min(S) <= y
<1>1. PICK x \in S : \A y \in S : <<y, x>> \notin OpToRel(<, Nat)
  BY NatLessThanWellFounded, WFMin
<1>2. \A y \in S : ~ (y < x)
  BY <1>1 DEF OpToRel
<1>3. \A y \in S : x <= y
  BY <1>2
<1> QED  BY <1>3 DEF Min

\* A bounded set of naturals has a greatest element.
LEMMA MaxProperties ==
  ASSUME NEW n \in Nat, NEW S, S \subseteq 0..n, S # {}
  PROVE  Max(S) \in S /\ \A y \in S : Max(S) >= y
<1> DEFINE U == {n - y : y \in S}
<1>0. \A y \in S : y \in Nat /\ n - y \in Nat /\ n - y \in U
  OBVIOUS
<1>1. U \subseteq Nat /\ U # {}
  BY <1>0
<1>2. Min(U) \in U /\ \A y \in U : Min(U) <= y
  <2> HIDE DEF U
  <2> QED  BY <1>1, MinProperties
<1>3. PICK z \in S : Min(U) = n - z
  BY <1>2
<1>4. \A y \in S : z >= y
  <2> TAKE y \in S
  <2>1. n - z <= n - y
    BY <1>0, <1>2, <1>3
  <2> QED  BY <1>0, <2>1
<1> QED  BY <1>4 DEF Max

\* The end of the header is the first.
LEMMA HeaderEndProperties ==
  ASSUME NEW b \in Seq(Tokens)
  PROVE  /\ ~Has(b, "end") => HeaderEnd(b) = 0
         /\ Has(b, "end") => /\ HeaderEnd(b) \in DOMAIN b /\ b[HeaderEnd(b)].k = "end"
                             /\ \A i \in DOMAIN b : b[i].k = "end" => HeaderEnd(b) <= i
<1> DEFINE I == {i \in 1..Len(b) : b[i].k = "end"}
<1>1. HeaderEnd(b) = IF I # {} THEN Min(I) ELSE 0
  BY DEF HeaderEnd, SelectInSeq
<1>2. DOMAIN b = 1..Len(b) /\ Len(b) \in Nat
  BY LenProperties
<1>3. I \subseteq Nat /\ (I # {} <=> Has(b, "end"))
  BY <1>2 DEF Has
<1>4. I # {} => Min(I) \in I /\ \A y \in I : Min(I) <= y
  <2> HIDE DEF I
  <2> QED  BY <1>3, MinProperties
<1> QED  BY <1>1, <1>2, <1>3, <1>4

\* TEARDOWN is the last.
LEMMA LastTeardownProperties ==
  ASSUME NEW b \in Seq(Tokens)
  PROVE  /\ ~Has(b, "TEARDOWN") => LastTeardown(b) = 0
         /\ Has(b, "TEARDOWN") =>
              /\ LastTeardown(b) \in DOMAIN b /\ b[LastTeardown(b)].k = "TEARDOWN"
              /\ \A i \in DOMAIN b : b[i].k = "TEARDOWN" => LastTeardown(b) >= i
<1> DEFINE I == {i \in 1..Len(b) : b[i].k = "TEARDOWN"}
<1>1. LastTeardown(b) = IF I # {} THEN Max(I) ELSE 0
  BY DEF LastTeardown, SelectLastInSeq
<1>2. DOMAIN b = 1..Len(b) /\ Len(b) \in Nat
  BY LenProperties
<1>3. I \subseteq 0..Len(b) /\ (I # {} <=> Has(b, "TEARDOWN"))
  BY <1>2 DEF Has
<1>4. I # {} => Max(I) \in I /\ \A y \in I : Max(I) >= y
  <2> HIDE DEF I
  <2> QED  BY <1>2, <1>3, MaxProperties
<1> QED  BY <1>1, <1>2, <1>3, <1>4

\* A header without a Content-Length line announces no body; one that has it on its
\* second line announces what that says.
LEMMA ContentLengthProperties ==
  ASSUME NEW b \in Seq(Tokens), NEW e \in 1..Len(b)
  PROVE  /\ ContentLength(b, e) \in Nat
         /\ (\A i \in 1..e : b[i].k # "clen") => ContentLength(b, e) = 0
         /\ (e >= 2 /\ b[1].k # "clen" /\ b[2].k = "clen") => ContentLength(b, e) = b[2].n
<1> DEFINE h == SubSeq(b, 1, e)
           I == {i \in 1..Len(h) : h[i].k = "clen"}
           c == IF I # {} THEN Min(I) ELSE 0
<1>1. ContentLength(b, e) = IF c = 0 THEN 0 ELSE h[c].n
  BY DEF ContentLength, SelectInSeq
<1>2. b \in [1..Len(b) -> Tokens] /\ Len(b) \in Nat
  BY LenProperties
<1>3. \A i \in 1..e : b[i] \in Tokens
  BY <1>2
<1>4. h \in Seq(Tokens) /\ Len(h) = e /\ \A i \in 1..e : h[i] = b[i]
  BY <1>2, <1>3, SubSeqProperties
<1>5. I = {i \in 1..e : b[i].k = "clen"}
  BY <1>4
<1>6. I # {} => Min(I) \in I /\ \A y \in I : Min(I) <= y
  <2>1. I \subseteq Nat
    BY <1>5
  <2> HIDE DEF I
  <2> QED  BY <2>1, MinProperties
<1>7. c = 0 \/ c \in 1..e
  BY <1>5, <1>6
<1>8. ContentLength(b, e) \in Nat
  <2> HIDE DEF c, h
  <2>1. CASE c = 0
    BY <1>1, <2>1
  <2>2. CASE c \in 1..e
    <3>1. h[c] \in Tokens
      BY <1>3, <1>4, <2>2
    <3> QED  BY <1>1, <2>1, <3>1 DEF Tokens
  <2> QED  BY <1>7, <2>1, <2>2
<1>9. ASSUME \A i \in 1..e : b[i].k # "clen"
      PROVE  ContentLength(b, e) = 0
  BY <1>1, <1>5, <1>9
<1>10. ASSUME e >= 2, b[1].k # "clen", b[2].k = "clen"
       PROVE  ContentLength(b, e) = b[2].n
  <2>1. 2 \in I /\ 1 \notin I /\ I \subseteq 1..e /\ h[2] = b[2]
    BY <1>4, <1>5, <1>10
  <2>2. c = 2
    <3> HIDE DEF I
    <3>1. Min(I) \in I /\ Min(I) <= 2 /\ I # {}
      BY <1>6, <2>1
    <3>2. Min(I) \in 1..e /\ Min(I) # 1
      BY <2>1, <3>1
    <3> QED  BY <3>1, <3>2
  <2> HIDE DEF c, h
  <2> QED  BY <1>1, <2>1, <2>2
<1> QED  BY <1>8, <1>9, <1>10

-----------------------------------------------------------------------------
(* The tokens of requests and frames.                                       *)

\* The length of a request's body and of its header.
Body(i) == IF i = Teardown THEN 0 ELSE Requests[i]
HeaderLen(i) == IF i # Teardown /\ Requests[i] = 0 THEN 2 ELSE 3

\* The constants' types.
LEMMA Constants ==
  /\ Len(Requests) \in Nat /\ Teardown \in Nat \ {0} /\ Teardown = Len(Requests) + 1
  /\ MaxFrames \in Nat /\ MaxPayload \in Nat \ {0} /\ Ids = 1..(Teardown + MaxFrames)
  /\ 1..Teardown \subseteq Ids /\ Ids \subseteq Nat
  /\ \A i \in 1..Len(Requests) : Requests[i] \in Nat
<1>1. Len(Requests) \in Nat /\ \A i \in 1..Len(Requests) : Requests[i] \in Nat
  BY RequestsOk, LenProperties, ElementOfSeq
<1> QED  BY <1>1, BoundsOk DEF Teardown, Ids

\* A token has its type.
LEMMA TokenType ==
  ASSUME NEW k \in Kinds, NEW n \in Nat, NEW i \in Ids
  PROVE  /\ Token(k, n, i) \in Tokens
         /\ Token(k, n, i).k = k /\ Token(k, n, i).n = n /\ Token(k, n, i).id = i
BY DEF Token, Tokens

\* The tokens of a request: one end of the header, behind which the body lies.
LEMMA RequestTokensProperties ==
  ASSUME NEW i \in 1..Teardown
  PROVE  /\ Body(i) \in Nat /\ HeaderLen(i) \in {2, 3}
         /\ RequestTokens(i) \in Seq(Tokens)
         /\ Len(RequestTokens(i)) = HeaderLen(i) + Body(i)
         /\ \A j \in 1..Len(RequestTokens(i)) :
              /\ RequestTokens(i)[j].k = "end" <=> j = HeaderLen(i)
              /\ RequestTokens(i)[j].k # "$"
              /\ RequestTokens(i)[j].k = "TEARDOWN" <=> (i = Teardown /\ j = 1)
              /\ RequestTokens(i)[j].k = "clen" <=> (Body(i) # 0 /\ j = 2)
         /\ Body(i) # 0 => RequestTokens(i)[2].n = Body(i)
         /\ i = Teardown => /\ RequestTokens(i)[1] = Token("TEARDOWN", 0, Teardown)
                            /\ RequestTokens(i)[2] = Token("line", 0, Teardown)
                            /\ RequestTokens(i)[3] = Token("end", 0, Teardown)
<1>0. i \in Ids /\ (i # Teardown => Requests[i] \in Nat)
  BY Constants
<1>1. \A k \in Kinds, n \in Nat :
        Token(k, n, i) \in Tokens /\ Token(k, n, i).k = k /\ Token(k, n, i).n = n
  BY <1>0, TokenType
<1>2. {"line", "TEARDOWN", "clen", "end", "body"} \subseteq Kinds /\ 0 \in Nat
  BY DEF Kinds
<1>3. CASE i = Teardown
  <2> DEFINE s == <<Token("TEARDOWN", 0, i), Token("line", 0, i), Token("end", 0, i)>>
  <2>1. RequestTokens(i) = s /\ Body(i) = 0 /\ HeaderLen(i) = 3
    BY <1>3 DEF RequestTokens, Body, HeaderLen
  <2>2. s \in Seq(Tokens) /\ Len(s) = 3
    BY <1>1, <1>2
  <2>3. s[1].k = "TEARDOWN" /\ s[2].k = "line" /\ s[3].k = "end"
    BY <1>1, <1>2
  <2>4. s[1] = Token("TEARDOWN", 0, i) /\ s[2] = Token("line", 0, i)
        /\ s[3] = Token("end", 0, i)
    OBVIOUS
  <2> HIDE DEF s
  <2>5. \A j \in 1..3 : j = 1 \/ j = 2 \/ j = 3
    OBVIOUS
  <2>6. \A j \in 1..3 : /\ s[j].k = "end" <=> j = 3
                        /\ s[j].k # "$" /\ s[j].k # "clen"
                        /\ s[j].k = "TEARDOWN" <=> j = 1
    BY <2>3, <2>5
  <2> QED  BY <1>3, <2>1, <2>2, <2>4, <2>6
<1>4. CASE i # Teardown /\ Requests[i] = 0
  <2> DEFINE s == <<Token("line", 0, i), Token("end", 0, i)>>
  <2>1. RequestTokens(i) = s /\ Body(i) = 0 /\ HeaderLen(i) = 2
    BY <1>4 DEF RequestTokens, Body, HeaderLen
  <2>2. s \in Seq(Tokens) /\ Len(s) = 2
    BY <1>1, <1>2
  <2>3. s[1].k = "line" /\ s[2].k = "end"
    BY <1>1, <1>2
  <2> HIDE DEF s
  <2>4. \A j \in 1..2 : j = 1 \/ j = 2
    OBVIOUS
  <2>5. \A j \in 1..2 : /\ s[j].k = "end" <=> j = 2
                        /\ s[j].k # "$" /\ s[j].k # "clen" /\ s[j].k # "TEARDOWN"
    BY <2>3, <2>4
  <2> QED  BY <1>4, <2>1, <2>2, <2>5
<1>5. CASE i # Teardown /\ Requests[i] # 0
  <2> DEFINE h == <<Token("line", 0, i), Token("clen", Requests[i], i), Token("end", 0, i)>>
             t == [j \in 1..Requests[i] |-> Token("body", 0, i)]
  <2>1. RequestTokens(i) = h \o t /\ Body(i) = Requests[i] /\ HeaderLen(i) = 3
    BY <1>5 DEF RequestTokens, Body, HeaderLen
  <2>2. h \in Seq(Tokens) /\ Len(h) = 3 /\ Requests[i] \in Nat
    BY <1>0, <1>1, <1>2, <1>5
  <2>3. h[1].k = "line" /\ h[2].k = "clen" /\ h[3].k = "end" /\ h[2].n = Requests[i]
    BY <1>0, <1>1, <1>2, <1>5
  <2>4. t \in Seq(Tokens) /\ Len(t) = Requests[i] /\ \A j \in 1..Len(t) : t[j].k = "body"
    <3>1. "body" \in Kinds
      BY <1>2
    <3>2. Token("body", 0, i) \in Tokens /\ Token("body", 0, i).k = "body"
      BY <1>1, <1>2, <3>1
    <3> QED  BY <2>2, <3>2
  <2>5. RequestTokens(i) \in Seq(Tokens) /\ Len(h \o t) = 3 + Requests[i]
        /\ \A j \in 1..(3 + Requests[i]) : (h \o t)[j] = IF j <= 3 THEN h[j] ELSE t[j - 3]
    BY <2>1, <2>2, <2>4, ConcatProperties
  <2> HIDE DEF h, t
  <2>6. \A j \in 1..(3 + Requests[i]) :
          j = 1 \/ j = 2 \/ j = 3 \/ (j > 3 /\ j - 3 \in 1..Len(t))
    BY <2>2, <2>4
  <2>7. ASSUME NEW j \in 1..(3 + Requests[i])
        PROVE  /\ (h \o t)[j].k = "end" <=> j = 3
               /\ (h \o t)[j].k # "$" /\ (h \o t)[j].k # "TEARDOWN"
               /\ (h \o t)[j].k = "clen" <=> j = 2
    <3>1. CASE j <= 3
      BY <2>3, <2>5, <2>6, <3>1
    <3>2. CASE j > 3
      <4>1. (h \o t)[j] = t[j - 3] /\ j - 3 \in 1..Len(t)
        BY <2>5, <2>6, <3>2
      <4> QED  BY <2>4, <3>2, <4>1
    <3>3. j <= 3 \/ j > 3
      BY <2>2
    <3> QED  BY <3>1, <3>2, <3>3
  <2>8. (h \o t)[2].n = Requests[i]
    BY <2>2, <2>3, <2>5
  <2> QED  BY <1>5, <2>1, <2>2, <2>5, <2>7, <2>8
<1> QED  BY <1>3, <1>4, <1>5

\* The tokens of a frame.
LEMMA FrameTokensProperties ==
  ASSUME NEW f \in 1..MaxFrames, NEW payload \in Payloads
  PROVE  /\ FrameTokens(f, payload) \in Seq(Tokens)
         /\ Len(payload) \in Nat \ {0} /\ DOMAIN payload = 1..Len(payload)
         /\ Len(payload) <= MaxPayload
         /\ Len(FrameTokens(f, payload)) = 2 + Len(payload)
         /\ FrameTokens(f, payload)[1].k = "$"
         /\ FrameTokens(f, payload)[2].k = "len"
         /\ FrameTokens(f, payload)[2].n = Len(payload)
         /\ \A j \in 1..(2 + Len(payload)) : FrameTokens(f, payload)[j].id = FrameId(f)
         /\ \A j \in 3..(2 + Len(payload)) :
              /\ FrameTokens(f, payload)[j].k = payload[j - 2]
              /\ payload[j - 2] \in {"byte", "end", "TEARDOWN"}
<1>1. PICK n \in 1..MaxPayload : payload \in [1..n -> {"byte", "end", "TEARDOWN"}]
  BY DEF Payloads
<1>2. n \in Nat \ {0} /\ Len(payload) = n /\ DOMAIN payload = 1..n /\ n <= MaxPayload
  BY <1>1, Constants
<1>3. FrameId(f) \in Ids
  BY Constants DEF FrameId
<1>4. \A k \in Kinds, m \in Nat :
        /\ Token(k, m, FrameId(f)) \in Tokens /\ Token(k, m, FrameId(f)).k = k
        /\ Token(k, m, FrameId(f)).n = m /\ Token(k, m, FrameId(f)).id = FrameId(f)
  BY <1>3, TokenType
<1>5. {"$", "len", "byte", "end", "TEARDOWN"} \subseteq Kinds /\ 0 \in Nat
  BY DEF Kinds
<1> DEFINE h == <<Token("$", 0, FrameId(f)), Token("len", Len(payload), FrameId(f))>>
           t == [j \in DOMAIN payload |-> Token(payload[j], 0, FrameId(f))]
<1>6. FrameTokens(f, payload) = h \o t
  BY DEF FrameTokens
<1>7. h \in Seq(Tokens) /\ Len(h) = 2
  BY <1>2, <1>4, <1>5
<1>8. h[1].k = "$" /\ h[2].k = "len" /\ h[2].n = n /\ h[1].id = FrameId(f)
      /\ h[2].id = FrameId(f)
  BY <1>2, <1>4, <1>5
<1>9. /\ t \in Seq(Tokens) /\ Len(t) = n
      /\ \A j \in 1..n : t[j].k = payload[j] /\ t[j].id = FrameId(f)
                         /\ payload[j] \in {"byte", "end", "TEARDOWN"}
  <2>1. \A j \in 1..n : /\ payload[j] \in {"byte", "end", "TEARDOWN"} /\ payload[j] \in Kinds
                        /\ t[j] = Token(payload[j], 0, FrameId(f))
    BY <1>1, <1>2, <1>5
  <2>2. \A j \in 1..n : /\ t[j] \in Tokens /\ t[j].k = payload[j] /\ t[j].id = FrameId(f)
                        /\ payload[j] \in {"byte", "end", "TEARDOWN"}
    BY <1>4, <1>5, <2>1
  <2>3. t \in [1..n -> Tokens]
    <3>1. t = [j \in 1..n |-> t[j]]
      BY <1>2
    <3> HIDE DEF t
    <3> QED  BY <2>2, <3>1
  <2> HIDE DEF t
  <2>4. t \in Seq(Tokens) /\ Len(t) = n
    BY <1>2, <2>3
  <2> QED  BY <2>2, <2>4
<1>10. /\ h \o t \in Seq(Tokens) /\ Len(h \o t) = 2 + n
       /\ \A j \in 1..(2 + n) : (h \o t)[j] = IF j <= 2 THEN h[j] ELSE t[j - 2]
  BY <1>2, <1>7, <1>9, ConcatProperties
<1> HIDE DEF h, t
<1>11. /\ (h \o t)[1] = h[1] /\ (h \o t)[2] = h[2]
       /\ \A j \in 3..(2 + n) : (h \o t)[j] = t[j - 2] /\ j - 2 \in 1..n
  BY <1>2, <1>10
<1>12. \A j \in 1..(2 + n) : j = 1 \/ j = 2 \/ j \in 3..(2 + n)
  BY <1>2
<1>13. \A j \in 1..(2 + n) : (h \o t)[j].id = FrameId(f)
  BY <1>8, <1>9, <1>11, <1>12
<1> QED  BY <1>2, <1>6, <1>8, <1>9, <1>10, <1>11, <1>13

-----------------------------------------------------------------------------
(* What tryExtractRtsp and tryExtractInterleaved do with a buffer.          *)

\* Without the end of a header there is no request.
LEMMA ExtractNoEnd ==
  ASSUME NEW b \in Seq(Tokens), ~Has(b, "end")
  PROVE  ~tryExtractRtsp(b).found
<1>1. HeaderEnd(b) = 0
  BY HeaderEndProperties
<1> QED  BY <1>1 DEF tryExtractRtsp, NotFound

\* A TEARDOWN in a buffer with the end of a header is found, and empties the buffer.
LEMMA ExtractTeardown ==
  ASSUME NEW b \in Seq(Tokens), Has(b, "end"), Has(b, "TEARDOWN")
  PROVE  LET r == tryExtractRtsp(b) IN
         /\ r.found /\ r.left = <<>>
         /\ r.item = SubSeq(b, LastTeardown(b), HeaderEnd(b))
         /\ r.throws <=> LastTeardown(b) > HeaderEnd(b) + 1
<1>1. DOMAIN b = 1..Len(b) /\ Len(b) \in Nat
  BY LenProperties
<1>2. HeaderEnd(b) # 0 /\ LastTeardown(b) # 0
  BY <1>1, HeaderEndProperties, LastTeardownProperties
<1> QED  BY <1>2 DEF tryExtractRtsp

\* Else the header and its body are found when they are there, and taken out.
LEMMA ExtractRequest ==
  ASSUME NEW b \in Seq(Tokens), Has(b, "end"), ~Has(b, "TEARDOWN")
  PROVE  LET r == tryExtractRtsp(b)
             total == HeaderEnd(b) + ContentLength(b, HeaderEnd(b))
         IN /\ total \in Nat \ {0} /\ ~r.throws
            /\ r.found <=> total <= Len(b)
            /\ r.found => /\ r.item = SubSeq(b, 1, total)
                          /\ r.left = SubSeq(b, total + 1, Len(b))
<1>1. DOMAIN b = 1..Len(b) /\ Len(b) \in Nat
  BY LenProperties
<1>2. HeaderEnd(b) \in 1..Len(b) /\ LastTeardown(b) = 0
  BY <1>1, HeaderEndProperties, LastTeardownProperties
<1>3. ContentLength(b, HeaderEnd(b)) \in Nat
  BY <1>2, ContentLengthProperties
<1> DEFINE total == HeaderEnd(b) + ContentLength(b, HeaderEnd(b))
<1>4. total \in Nat \ {0}
  BY <1>2, <1>3, <1>1
<1>5. /\ Len(b) < total => tryExtractRtsp(b) = NotFound(b)
      /\ ~(Len(b) < total) =>
           tryExtractRtsp(b) = [found |-> TRUE, throws |-> FALSE, item |-> SubSeq(b, 1, total),
                                left |-> SubSeq(b, total + 1, Len(b))]
  BY <1>2 DEF tryExtractRtsp
<1> HIDE DEF total
<1>6. CASE Len(b) < total
  <2>1. ~(total <= Len(b))
    BY <1>1, <1>4, <1>6
  <2> QED  BY <1>4, <1>5, <1>6, <2>1 DEF NotFound, total
<1>7. CASE ~(Len(b) < total)
  <2>1. total <= Len(b)
    <3>1. Len(b) \in Nat
      BY <1>1
    <3> QED  BY <1>4, <1>7, <3>1
  <2>2. /\ tryExtractRtsp(b).found /\ ~tryExtractRtsp(b).throws
        /\ tryExtractRtsp(b).item = SubSeq(b, 1, total)
        /\ tryExtractRtsp(b).left = SubSeq(b, total + 1, Len(b))
    BY <1>5, <1>7
  <2> QED  BY <1>4, <2>1, <2>2 DEF total
<1> QED  BY <1>6, <1>7

\* What is left of a buffer from which k tokens are taken.
IsRest(left, b, k) == k \in 0..Len(b) /\ left = SubSeq(b, k + 1, Len(b))

\* A request leaves what is behind its header, or less.
LEMMA RtspLeavesRest ==
  ASSUME NEW b \in Seq(Tokens), tryExtractRtsp(b).found
  PROVE  /\ Has(b, "end")
         /\ \E k \in HeaderEnd(b)..Len(b) : IsRest(tryExtractRtsp(b).left, b, k)
<1>1. Len(b) \in Nat /\ DOMAIN b = 1..Len(b)
  BY LenProperties
<1>2. Has(b, "end")
  BY ExtractNoEnd
<1>3. HeaderEnd(b) \in 1..Len(b)
  BY <1>1, <1>2, HeaderEndProperties
<1>4. CASE Has(b, "TEARDOWN")
  <2>1. tryExtractRtsp(b).left = <<>>
    BY <1>2, <1>4, ExtractTeardown
  <2>2. /\ SubSeq(b, Len(b) + 1, Len(b)) = <<>> /\ Len(b) \in 0..Len(b)
        /\ Len(b) \in HeaderEnd(b)..Len(b)
    BY <1>1, <1>3, SubSeqEmpty
  <2> QED  BY <1>2, <2>1, <2>2 DEF IsRest
<1>5. CASE ~Has(b, "TEARDOWN")
  <2> DEFINE total == HeaderEnd(b) + ContentLength(b, HeaderEnd(b))
  <2>1. /\ total \in Nat \ {0} /\ total <= Len(b)
        /\ tryExtractRtsp(b).left = SubSeq(b, total + 1, Len(b))
    BY <1>2, <1>5, ExtractRequest
  <2>2. ContentLength(b, HeaderEnd(b)) \in Nat
    BY <1>3, ContentLengthProperties
  <2>3. total \in 0..Len(b) /\ total \in HeaderEnd(b)..Len(b)
    BY <1>1, <1>3, <2>1, <2>2
  <2> HIDE DEF total
  <2> QED  BY <1>2, <2>1, <2>3 DEF IsRest
<1> QED  BY <1>4, <1>5

\* Where no header announces a body, a header is found as soon as its end is there.
LEMMA EndIsFound ==
  ASSUME NEW b \in Seq(Tokens), Has(b, "end"), ~Has(b, "clen")
  PROVE  tryExtractRtsp(b).found
<1>1. Len(b) \in Nat /\ DOMAIN b = 1..Len(b)
  BY LenProperties
<1>2. HeaderEnd(b) \in 1..Len(b)
  BY <1>1, HeaderEndProperties
<1>3. \A i \in 1..HeaderEnd(b) : i \in 1..Len(b)
  BY <1>1, <1>2
<1>4. \A i \in 1..HeaderEnd(b) : b[i].k # "clen"
  BY <1>1, <1>3 DEF Has
<1>5. ContentLength(b, HeaderEnd(b)) = 0
  BY <1>2, <1>4, ContentLengthProperties
<1>6. HeaderEnd(b) + ContentLength(b, HeaderEnd(b)) <= Len(b)
  BY <1>1, <1>2, <1>5
<1> QED  BY <1>6, ExtractTeardown, ExtractRequest

\* What is not a request is left, or a frame is taken, or a '$' dropped that is not
\* followed by a length.
LEMMA InterleavedLeavesRest ==
  ASSUME NEW b \in Seq(Tokens)
  PROVE  LET f == tryExtractInterleaved(b) IN
         \/ ~f.found /\ f.left = b
         \/ /\ ~f.found /\ IsRest(f.left, b, 1)
            /\ 1 \in DOMAIN b /\ 2 \in DOMAIN b /\ b[1].k = "$" /\ b[2].k # "len"
         \/ /\ f.found /\ IsRest(f.left, b, FrameEnd(b))
            /\ f.item = SubSeq(b, 1, FrameEnd(b))
            /\ 1 \in DOMAIN b /\ 2 \in DOMAIN b /\ b[1].k = "$" /\ b[2].k = "len"
            /\ FrameEnd(b) \in 2..Len(b)
<1> DEFINE f == tryExtractInterleaved(b)
<1>1. Len(b) \in Nat /\ DOMAIN b = 1..Len(b)
  BY LenProperties
<1>2. CASE b = <<>> \/ b[1].k # "$" \/ Len(b) < 2
  <2>1. f = NotFound(b)
    BY <1>2 DEF tryExtractInterleaved
  <2> QED  BY <2>1 DEF NotFound
<1>3. CASE b # <<>> /\ b[1].k = "$" /\ ~(Len(b) < 2)
  <2>1. 1 \in DOMAIN b /\ 2 \in DOMAIN b /\ 1 \in 0..Len(b) /\ 2 \in 1..Len(b)
    BY <1>1, <1>3
  <2>2. CASE b[2].k # "len"
    <3>1. f = [NotFound(b) EXCEPT !.left = Tail(b)]
      BY <1>3, <2>2 DEF tryExtractInterleaved
    <3>2. f.left = Tail(b) /\ ~f.found
      BY <3>1 DEF NotFound
    <3>3. Tail(b) = SubSeq(b, 1 + 1, Len(b))
      BY <1>3, TailIsSubSeq
    <3> QED  BY <1>3, <2>1, <2>2, <3>2, <3>3 DEF IsRest
  <2>3. CASE b[2].k = "len" /\ Len(b) < FrameEnd(b)
    <3>1. f = NotFound(b)
      BY <1>3, <2>3 DEF tryExtractInterleaved
    <3> QED  BY <3>1 DEF NotFound
  <2>4. CASE b[2].k = "len" /\ ~(Len(b) < FrameEnd(b))
    <3>1. f.left = SubSeq(b, FrameEnd(b) + 1, Len(b)) /\ f.found
          /\ f.item = SubSeq(b, 1, FrameEnd(b))
      BY <1>3, <2>4 DEF tryExtractInterleaved
    <3>2. b[2] \in Tokens
      BY <2>1, ElementOfSeq
    <3>3. FrameEnd(b) \in 0..Len(b) /\ FrameEnd(b) \in 2..Len(b)
      BY <1>1, <2>4, <3>2 DEF FrameEnd, Tokens
    <3> QED  BY <1>3, <2>1, <2>4, <3>1, <3>3 DEF IsRest
  <2> QED  BY <2>2, <2>3, <2>4
<1> QED  BY <1>2, <1>3

\* What does not begin with a '$' is left.
LEMMA NoFrame ==
  ASSUME NEW b \in Seq(Tokens), b[1].k # "$"
  PROVE  ~tryExtractInterleaved(b).found /\ tryExtractInterleaved(b).left = b
BY DEF tryExtractInterleaved, NotFound

-----------------------------------------------------------------------------
(* Parts of a stream.                                                       *)

\* A concatenation has the tokens of both parts.
LEMMA HasConcat ==
  ASSUME NEW s \in Seq(Tokens), NEW t \in Seq(Tokens), NEW k
  PROVE  Has(s \o t, k) <=> Has(s, k) \/ Has(t, k)
<1>1. /\ Len(s) \in Nat /\ Len(t) \in Nat /\ DOMAIN s = 1..Len(s) /\ DOMAIN t = 1..Len(t)
      /\ DOMAIN (s \o t) = 1..(Len(s) + Len(t))
      /\ \A i \in 1..(Len(s) + Len(t)) :
           (s \o t)[i] = IF i <= Len(s) THEN s[i] ELSE t[i - Len(s)]
  BY LenProperties, ConcatProperties
<1>2. ASSUME Has(s \o t, k)
      PROVE  Has(s, k) \/ Has(t, k)
  <2>1. PICK i \in 1..(Len(s) + Len(t)) : (s \o t)[i].k = k
    BY <1>1, <1>2 DEF Has
  <2>2. i \in 1..Len(s) \/ (i > Len(s) /\ i - Len(s) \in 1..Len(t))
    BY <1>1
  <2>3. i \in 1..Len(s) => (s \o t)[i] = s[i]
    BY <1>1
  <2>4. i > Len(s) => (s \o t)[i] = t[i - Len(s)]
    BY <1>1
  <2> QED  BY <1>1, <2>1, <2>2, <2>3, <2>4 DEF Has
<1>3. ASSUME NEW i \in DOMAIN s, s[i].k = k
      PROVE  Has(s \o t, k)
  <2>1. i \in 1..(Len(s) + Len(t)) /\ (s \o t)[i] = s[i]
    BY <1>1
  <2> QED  BY <1>1, <1>3, <2>1 DEF Has
<1>4. ASSUME NEW i \in DOMAIN t, t[i].k = k
      PROVE  Has(s \o t, k)
  <2>1. i + Len(s) \in 1..(Len(s) + Len(t)) /\ (s \o t)[i + Len(s)] = t[i]
    BY <1>1
  <2> QED  BY <1>1, <1>4, <2>1 DEF Has
<1> QED  BY <1>2, <1>3, <1>4 DEF Has

\* Concatenation of streams is associative.
LEMMA Assoc ==
  ASSUME NEW s \in Seq(Tokens), NEW t \in Seq(Tokens), NEW u \in Seq(Tokens)
  PROVE  (s \o t) \o u = s \o (t \o u)
BY ConcatAssociative

\* A concatenation is empty when both parts are.
LEMMA EmptyConcat ==
  ASSUME NEW s \in Seq(Tokens), NEW t \in Seq(Tokens)
  PROVE  s \o t = <<>> <=> s = <<>> /\ t = <<>>
BY ConcatEqualIffEmpty

\* A part of a stream has no other tokens.
LEMMA Part ==
  ASSUME NEW s \in Seq(Tokens), NEW m \in Nat \ {0}, NEW n \in 0..Len(s), m <= n + 1
  PROVE  /\ SubSeq(s, m, n) \in Seq(Tokens) /\ Len(SubSeq(s, m, n)) = n - m + 1
         /\ DOMAIN SubSeq(s, m, n) = 1..(n - m + 1)
         /\ \A i \in 1..(n - m + 1) : SubSeq(s, m, n)[i] = s[i + m - 1]
         /\ \A k : Has(SubSeq(s, m, n), k) => Has(s, k)
<1>1. Len(s) \in Nat /\ s \in [1..Len(s) -> Tokens] /\ DOMAIN s = 1..Len(s)
  BY LenProperties
<1>2. \A i \in m..n : s[i] \in Tokens
  BY <1>1
<1>3. /\ SubSeq(s, m, n) \in Seq(Tokens)
      /\ Len(SubSeq(s, m, n)) = IF m <= n THEN n - m + 1 ELSE 0
      /\ \A i \in 1..(n - m + 1) : SubSeq(s, m, n)[i] = s[m + i - 1]
  BY <1>1, <1>2, SubSeqProperties
<1>4. Len(SubSeq(s, m, n)) = n - m + 1 /\ \A i \in 1..(n - m + 1) : i + m - 1 = m + i - 1
  BY <1>1, <1>3
<1>5. DOMAIN SubSeq(s, m, n) = 1..(n - m + 1)
  BY <1>3, <1>4, LenProperties
<1>6. \A i \in 1..(n - m + 1) : m + i - 1 \in 1..Len(s)
  BY <1>1
<1>7. \A k : Has(SubSeq(s, m, n), k) => Has(s, k)
  BY <1>1, <1>3, <1>5, <1>6 DEF Has
<1> QED  BY <1>3, <1>4, <1>5, <1>7

\* t is s from its element k + 1 on.
Shifted(t, s, k) ==
  /\ k \in 0..Len(s) /\ Len(t) = Len(s) - k
  /\ \A i \in 1..Len(t) : i + k \in 1..Len(s) /\ t[i] = s[i + k]

\* When a stream loses its beginning, the whole is shifted.
LEMMA RestIsShifted ==
  ASSUME NEW b \in Seq(Tokens), NEW c \in Seq(Tokens), NEW left, NEW k, IsRest(left, b, k)
  PROVE  /\ left \in Seq(Tokens) /\ Shifted(left \o c, b \o c, k)
         /\ \A x : Has(left, x) => Has(b, x)
<1>1. k \in 0..Len(b) /\ left = SubSeq(b, k + 1, Len(b))
  BY DEF IsRest
<1>2. Len(b) \in Nat /\ Len(c) \in Nat /\ k \in Nat /\ k <= Len(b)
  <2>1. Len(b) \in Nat /\ Len(c) \in Nat
    BY LenProperties
  <2> QED  BY <1>1, <2>1
<1>3. /\ left \in Seq(Tokens) /\ Len(left) = Len(b) - k
      /\ \A i \in 1..(Len(b) - k) : left[i] = b[i + k]
  <2>1. /\ k + 1 \in Nat \ {0} /\ Len(b) \in 0..Len(b) /\ k + 1 <= Len(b) + 1
        /\ Len(b) - (k + 1) + 1 = Len(b) - k
        /\ \A i \in 1..(Len(b) - k) : i + (k + 1) - 1 = i + k
    BY <1>2
  <2>2. /\ left \in Seq(Tokens) /\ Len(left) = Len(b) - (k + 1) + 1
        /\ \A i \in 1..(Len(b) - (k + 1) + 1) : left[i] = b[i + (k + 1) - 1]
    BY <1>1, <2>1, Part
  <2> QED  BY <2>1, <2>2
<1>4. /\ Len(left \o c) = Len(b) - k + Len(c) /\ Len(b \o c) = Len(b) + Len(c)
      /\ \A i \in 1..(Len(left) + Len(c)) :
           (left \o c)[i] = IF i <= Len(left) THEN left[i] ELSE c[i - Len(left)]
      /\ \A i \in 1..(Len(b) + Len(c)) :
           (b \o c)[i] = IF i <= Len(b) THEN b[i] ELSE c[i - Len(b)]
  BY <1>3, ConcatProperties
<1>5. ASSUME NEW i \in 1..Len(left \o c)
      PROVE  i + k \in 1..Len(b \o c) /\ (left \o c)[i] = (b \o c)[i + k]
  <2>1. i \in 1..(Len(left) + Len(c)) /\ i + k \in 1..(Len(b) + Len(c))
    BY <1>2, <1>3, <1>4
  <2>2. CASE i <= Len(left)
    <3>1. i \in 1..(Len(b) - k) /\ i + k <= Len(b)
      BY <1>2, <1>3, <2>1, <2>2
    <3>2. (left \o c)[i] = left[i] /\ (b \o c)[i + k] = b[i + k]
      BY <1>4, <2>1, <2>2, <3>1
    <3> QED  BY <1>3, <1>4, <2>1, <3>1, <3>2
  <2>3. CASE i > Len(left)
    <3>1. ~(i <= Len(left)) /\ ~(i + k <= Len(b)) /\ i - Len(left) = (i + k) - Len(b)
      BY <1>2, <1>3, <2>1, <2>3
    <3>2. (left \o c)[i] = c[i - Len(left)]
      BY <1>4, <2>1, <3>1
    <3>3. (b \o c)[i + k] = c[(i + k) - Len(b)]
      BY <1>4, <2>1, <3>1
    <3>4. c[i - Len(left)] = c[(i + k) - Len(b)]
      BY <3>1
    <3>5. i + k \in 1..Len(b \o c)
      BY <1>4, <2>1
    <3> QED  BY <3>2, <3>3, <3>4, <3>5
  <2> QED  BY <1>2, <1>3, <2>1, <2>2, <2>3
<1>6. k \in 0..Len(b \o c) /\ Len(left \o c) = Len(b \o c) - k
  BY <1>2, <1>4
<1>7. Shifted(left \o c, b \o c, k)
  BY <1>5, <1>6 DEF Shifted
<1>8. \A x : Has(left, x) => Has(b, x)
  <2>1. DOMAIN left = 1..Len(left) /\ DOMAIN b = 1..Len(b)
    BY <1>3, LenProperties
  <2>2. \A i \in 1..(Len(b) - k) : i + k \in 1..Len(b)
    BY <1>2
  <2> QED  BY <1>3, <2>1, <2>2 DEF Has
<1> QED  BY <1>3, <1>7, <1>8

\* A shifted stream has no other tokens.
LEMMA ShiftedHas ==
  ASSUME NEW s \in Seq(Tokens), NEW t \in Seq(Tokens), NEW k, Shifted(t, s, k), NEW x, Has(t, x)
  PROVE  Has(s, x)
<1>1. DOMAIN s = 1..Len(s) /\ DOMAIN t = 1..Len(t)
  BY LenProperties
<1> QED  BY <1>1 DEF Has, Shifted

\* A sequence is what a read took of it and what is left.
LEMMA Cut ==
  ASSUME NEW s \in Seq(Tokens), NEW n \in 0..Len(s)
  PROVE  /\ SubSeq(s, 1, n) \in Seq(Tokens) /\ SubSeq(s, n + 1, Len(s)) \in Seq(Tokens)
         /\ s = SubSeq(s, 1, n) \o SubSeq(s, n + 1, Len(s))
<1>1. Len(s) \in Nat /\ 1 \in Nat \ {0} /\ n + 1 \in Nat \ {0} /\ Len(s) \in 0..Len(s)
      /\ 1 <= n + 1 /\ n + 1 <= Len(s) + 1
  BY LenProperties
<1>2. SubSeq(s, 1, n) \in Seq(Tokens) /\ SubSeq(s, n + 1, Len(s)) \in Seq(Tokens)
  BY <1>1, Part
<1>3. s = SubSeq(s, 1, n) \o SubSeq(s, n + 1, Len(s))
  <2>1. 1 \in 1..(Len(s) + 1) /\ n \in (1 - 1)..Len(s) /\ Len(s) \in n..Len(s)
    BY <1>1
  <2>2. SubSeq(s, 1, n) \o SubSeq(s, n + 1, Len(s)) = SubSeq(s, 1, Len(s))
    BY <2>1, ConcatAdjacentSubSeq
  <2> QED  BY <2>2, SubSeqFull
<1> QED  BY <1>2, <1>3

-----------------------------------------------------------------------------
(* The types.                                                               *)

\* The buffer after a read of `size' tokens.
Buffer(size) == recvBuffer \o SubSeq(net, 1, size)

\* A read moves the beginning of net to the end of the buffer.
LEMMA Read ==
  ASSUME TypeOK, NEW size \in 1..Len(net), ReceiveItem(size)
  PROVE  /\ Buffer(size) \in Seq(Tokens) /\ Buffer(size) # <<>> /\ net' \in Seq(Tokens)
         /\ Pending = Buffer(size) \o net'
         /\ Stream = Buffer(size) \o (net' \o rest)
         /\ net = SubSeq(net, 1, size) \o net' /\ SubSeq(net, 1, size) \in Seq(Tokens)
<1>1. recvBuffer \in Seq(Tokens) /\ net \in Seq(Tokens) /\ rest \in Seq(Tokens)
  BY DEF TypeOK
<1>2. Len(net) \in Nat /\ Len(recvBuffer) \in Nat /\ size \in 0..Len(net) /\ size \in Nat \ {0}
  BY <1>1, LenProperties
<1>3. net' = SubSeq(net, size + 1, Len(net))
  BY DEF ReceiveItem
<1>4. /\ SubSeq(net, 1, size) \in Seq(Tokens) /\ net' \in Seq(Tokens)
      /\ net = SubSeq(net, 1, size) \o net'
  BY <1>1, <1>2, <1>3, Cut
<1>5. Buffer(size) \in Seq(Tokens) /\ Pending = Buffer(size) \o net'
  <2>1. Buffer(size) \in Seq(Tokens)
    BY <1>1, <1>4, ConcatProperties DEF Buffer
  <2>2. Pending = recvBuffer \o (SubSeq(net, 1, size) \o net')
    BY <1>4 DEF Pending
  <2> DEFINE x == SubSeq(net, 1, size)
             y == net'
  <2>3. x \in Seq(Tokens) /\ y \in Seq(Tokens)
    BY <1>4
  <2>4. Pending = recvBuffer \o (x \o y) /\ Buffer(size) = recvBuffer \o x
    BY <2>2 DEF Buffer
  <2> HIDE DEF x, y
  <2>5. (recvBuffer \o x) \o y = recvBuffer \o (x \o y)
    <3>1. recvBuffer \in Seq(Tokens)
      BY <1>1
    <3> QED  BY <2>3, <3>1, Assoc
  <2>6. Pending = Buffer(size) \o y
    BY <2>4, <2>5
  <2> QED  BY <2>1, <2>6 DEF y
<1>6. Stream = Buffer(size) \o (net' \o rest)
  <2> DEFINE y == net'
  <2>1. y \in Seq(Tokens) /\ Stream = (Buffer(size) \o y) \o rest
    BY <1>4, <1>5 DEF Stream
  <2> HIDE DEF y
  <2>2. (Buffer(size) \o y) \o rest = Buffer(size) \o (y \o rest)
    <3>1. Buffer(size) \in Seq(Tokens) /\ rest \in Seq(Tokens) /\ y \in Seq(Tokens)
      BY <1>1, <1>5, <2>1
    <3> QED  BY <3>1, Assoc
  <2>3. Stream = Buffer(size) \o (y \o rest)
    BY <2>1, <2>2
  <2> QED  BY <2>3 DEF y
<1>7. Buffer(size) # <<>>
  <2>1. 1 \in Nat \ {0} /\ 1 <= size + 1
    BY <1>2
  <2>2. Len(SubSeq(net, 1, size)) = size - 1 + 1
    BY <1>1, <1>2, <2>1, Part
  <2>3. Len(Buffer(size)) = Len(recvBuffer) + size
    BY <1>1, <1>2, <1>4, <2>2, ConcatProperties DEF Buffer
  <2>4. Len(Buffer(size)) # 0
    BY <1>2, <2>3
  <2> QED  BY <2>4, EmptySeq
<1> QED  BY <1>4, <1>5, <1>6, <1>7

\* A client's step keeps the types.
LEMMA ClientTypes ==
  ASSUME TypeOK, Client
  PROVE  TypeOK'
<1>0. /\ asked \in 0..Teardown /\ answers \in Nat /\ handled \in 0..asked
      /\ frames \in 0..MaxFrames
      /\ net \in Seq(Tokens) /\ rest \in Seq(Tokens)
  BY DEF TypeOK
<1>1. Len(Requests) \in Nat /\ Teardown \in Nat \ {0} /\ asked \in Nat /\ answers \in Nat
      /\ MaxFrames \in Nat /\ frames \in Nat
  BY <1>0, Constants
<1>2. CASE SendRequest
  <2>1. asked + 1 \in 1..Teardown /\ asked' = asked + 1
    BY <1>1, <1>2 DEF SendRequest
  <2>2. RequestTokens(asked + 1) \in Seq(Tokens)
    BY <2>1, RequestTokensProperties
  <2>3. net' \in Seq(Tokens)
    BY <1>2, <2>2, ConcatProperties DEF SendRequest, TypeOK
  <2>4. asked' \in 0..Teardown /\ handled' \in 0..asked'
    BY <1>0, <1>1, <1>2, <2>1 DEF SendRequest, serverVars
  <2>5. waiting' \in BOOLEAN /\ split' \in BOOLEAN
    BY <1>2 DEF SendRequest, TypeOK
  <2>6. /\ answers' = answers /\ frames' = frames /\ rest' = rest /\ peer' = peer
        /\ error' = error /\ recvBuffer' = recvBuffer /\ conn' = conn /\ marked' = marked
        /\ stuck' = stuck /\ garbled' = garbled /\ fault' = fault
    BY <1>2 DEF SendRequest, serverVars
  <2> QED  BY <2>3, <2>4, <2>5, <2>6 DEF TypeOK
<1>3. CASE ReadResponse
  <2>1. /\ answers' = 0 /\ waiting' = FALSE
        /\ UNCHANGED <<asked, frames, rest, marked, split, serverVars, peer, net, error, fault>>
    BY <1>3 DEF ReadResponse
  <2>2. 0 \in Nat /\ FALSE \in BOOLEAN
    OBVIOUS
  <2> QED  BY <2>1, <2>2 DEF TypeOK, serverVars
<1>4. CASE FinishFrame
  <2>1. net' = net \o rest /\ rest' = <<>>
        /\ UNCHANGED <<asked, waiting, frames, marked, split, answers, serverVars, peer, error,
                       fault>>
    BY <1>4 DEF FinishFrame
  <2>2. net' \in Seq(Tokens) /\ rest' \in Seq(Tokens)
    BY <1>0, <2>1, ConcatProperties, EmptySeq
  <2> QED  BY <2>1, <2>2 DEF TypeOK, serverVars
<1>5. CASE CloseClient
  <2>1. peer' \in {"open", "fin", "reset"} /\ error' = (answers > 0)
        /\ UNCHANGED <<clientVars, answers, serverVars, net, fault>>
    BY <1>5 DEF CloseClient
  <2>2. error' \in BOOLEAN
    BY <2>1
  <2> QED  BY <2>1, <2>2 DEF TypeOK, serverVars, clientVars
<1>6. ASSUME NEW payload \in Payloads, NEW cut \in 1..(2 + MaxPayload), SendFrame(payload, cut)
      PROVE  TypeOK'
  <2> DEFINE t == FrameTokens(frames + 1, payload)
  <2>1. frames + 1 \in 1..MaxFrames
    BY <1>0, <1>1, <1>6 DEF SendFrame
  <2>2. t \in Seq(Tokens)
    BY <2>1, FrameTokensProperties
  <2>3. /\ cut \in 1..Len(t) /\ net' = net \o SubSeq(t, 1, cut)
        /\ rest' = SubSeq(t, cut + 1, Len(t)) /\ frames' = frames + 1
        /\ UNCHANGED <<asked, waiting, split, answers, serverVars, peer, error, fault>>
    BY <1>6 DEF SendFrame
  <2> HIDE DEF t
  <2>4. cut \in 0..Len(t)
    BY <2>3
  <2>5. SubSeq(t, 1, cut) \in Seq(Tokens) /\ rest' \in Seq(Tokens)
    BY <2>2, <2>3, <2>4, Cut
  <2>6. net' \in Seq(Tokens)
    BY <2>3, <2>5, ConcatProperties DEF TypeOK
  <2>7. marked' \in BOOLEAN
    BY <1>6 DEF SendFrame, TypeOK
  <2>8. frames' \in 0..MaxFrames
    BY <2>1, <2>3
  <2> QED  BY <2>3, <2>5, <2>6, <2>7, <2>8 DEF TypeOK, serverVars
<1> QED  BY <1>2, <1>3, <1>4, <1>5, <1>6 DEF Client

\* What is left of a handler: it responds, ends the process or gets stuck.
LEMMA HandlerCases ==
  ASSUME NEW item, HandleRequest(item)
  PROVE  /\ \/ Respond /\ stuck' = stuck
            \/ fault' = "handler" /\ UNCHANGED <<answers, peer, error, stuck>>
            \/ stuck' = TRUE /\ UNCHANGED <<answers, peer, error, fault>>
         /\ handled' = HandledAfter(item)
         /\ garbled' = (garbled \/ ~IsNextRequest(item))
BY DEF HandleRequest

\* A response is counted, and the server handles no more than was asked.
LEMMA HandleTypes ==
  ASSUME TypeOK, NEW item, HandleRequest(item), asked' = asked
  PROVE  /\ answers' \in Nat /\ handled' \in 0..asked' /\ garbled' \in BOOLEAN
         /\ peer' \in {"open", "fin", "reset"} /\ error' \in BOOLEAN
         /\ stuck' \in BOOLEAN
         /\ fault' \in {"none", "length_error", "write to a dead peer", "handler"}
<1>0. /\ answers \in Nat /\ handled \in 0..asked /\ asked \in 0..Teardown
      /\ peer \in {"open", "fin", "reset"}
  BY DEF TypeOK
<1>1. asked \in Nat /\ answers \in Nat /\ answers + 1 \in Nat
  BY <1>0, Constants
<1>2. WriteTo(peer) \in {"open", "reset", "dead"}
  BY <1>0 DEF WriteTo
<1>3. handled' \in 0..asked'
  <2>1. handled' = HandledAfter(item)
    BY HandlerCases
  <2>2. handled' = handled \/ (handled < asked /\ handled' = handled + 1)
    BY <2>1 DEF HandledAfter, IsNextRequest
  <2> QED  BY <1>0, <1>1, <2>2
<1>4. garbled' \in BOOLEAN
  BY HandlerCases DEF TypeOK
<1>5. CASE Respond /\ stuck' = stuck
  <2>1. answers' \in Nat /\ error' \in BOOLEAN
    BY <1>1, <1>5 DEF Respond, TypeOK
  <2>2. peer' \in {"open", "fin", "reset"} /\ fault' \in {"none", "write to a dead peer"}
    BY <1>0, <1>2, <1>5 DEF Respond
  <2> QED  BY <1>3, <1>4, <1>5, <2>1, <2>2 DEF TypeOK
<1>6. CASE fault' = "handler" /\ UNCHANGED <<answers, peer, error, stuck>>
  BY <1>3, <1>4, <1>6 DEF TypeOK
<1>7. CASE stuck' = TRUE /\ UNCHANGED <<answers, peer, error, fault>>
  BY <1>3, <1>4, <1>7 DEF TypeOK
<1> QED  BY <1>5, <1>6, <1>7, HandlerCases

\* A step of the server keeps the types.
LEMMA ServerTypes ==
  ASSUME TypeOK, Server
  PROVE  TypeOK'
<1>1. CASE PeekError
  <2>1. error' = FALSE /\ UNCHANGED <<clientVars, serverVars, answers, peer, net, fault>>
    BY <1>1 DEF PeekError
  <2> QED  BY <2>1 DEF TypeOK, clientVars, serverVars
<1>2. CASE HandleClose
  <2>1. /\ conn' \in {conn, FALSE} /\ stuck' \in {stuck, TRUE} /\ fault' \in {fault, "handler"}
        /\ UNCHANGED <<clientVars, recvBuffer, handled, garbled, answers, peer, net, error>>
    BY <1>2 DEF HandleClose
  <2> QED  BY <2>1 DEF TypeOK, clientVars
<1>3. ASSUME NEW size \in 1..Len(net), ReceiveItem(size)
      PROVE  TypeOK'
  <2> DEFINE b == Buffer(size)
             r == tryExtractRtsp(b)
             f == tryExtractInterleaved(b)
  <2>1. net' \in Seq(Tokens) /\ b \in Seq(Tokens)
    BY <1>3, Read
  <2>2. UNCHANGED <<clientVars, conn>>
    BY <1>3 DEF ReceiveItem
  <2>3. r.found => r.left \in Seq(Tokens)
    BY <2>1, RtspLeavesRest, RestIsShifted
  <2>4. f.left \in Seq(Tokens)
    <3>1. f.left = b \/ \E k \in Nat : IsRest(f.left, b, k)
      BY <2>1, InterleavedLeavesRest
    <3> QED  BY <2>1, <3>1, RestIsShifted
  <2>5. \/ /\ r.found /\ r.throws
           /\ fault' = "length_error"
           /\ UNCHANGED <<recvBuffer, stuck, handled, garbled, answers, peer, error>>
        \/ /\ r.found /\ ~r.throws
           /\ recvBuffer' = r.left
           /\ HandleRequest(r.item)
        \/ /\ ~r.found
           /\ recvBuffer' = f.left
           /\ garbled' = (garbled \/ (f.found /\ ~IsFrame(f.item)))
           /\ UNCHANGED <<stuck, handled, answers, peer, error, fault>>
    BY <1>3 DEF ReceiveItem, Buffer
  <2>6. asked' = asked
    BY <2>2 DEF clientVars
  <2> HIDE DEF b, r, f
  <2>7. CASE r.found /\ r.throws /\ fault' = "length_error"
             /\ UNCHANGED <<recvBuffer, stuck, handled, garbled, answers, peer, error>>
    BY <2>1, <2>2, <2>7 DEF TypeOK, clientVars
  <2>8. CASE r.found /\ recvBuffer' = r.left /\ HandleRequest(r.item)
    <3>1. /\ answers' \in Nat /\ handled' \in 0..asked' /\ garbled' \in BOOLEAN
          /\ peer' \in {"open", "fin", "reset"} /\ error' \in BOOLEAN
          /\ stuck' \in BOOLEAN
          /\ fault' \in {"none", "length_error", "write to a dead peer", "handler"}
      BY <2>6, <2>8, HandleTypes
    <3> QED  BY <2>1, <2>2, <2>3, <2>8, <3>1 DEF TypeOK, clientVars
  <2>9. CASE /\ recvBuffer' = f.left
             /\ garbled' = (garbled \/ (f.found /\ ~IsFrame(f.item)))
             /\ UNCHANGED <<stuck, handled, answers, peer, error, fault>>
    <3>1. garbled' \in BOOLEAN
      BY <2>9 DEF TypeOK
    <3> QED  BY <2>1, <2>2, <2>4, <2>9, <3>1 DEF TypeOK, clientVars
  <2> QED  BY <2>5, <2>7, <2>8, <2>9
<1> QED  BY <1>1, <1>2, <1>3 DEF Server

-----------------------------------------------------------------------------
(* Before the first frame.                                                  *)

\* A request that is there as a whole is found, and nothing else is in the buffer.
LEMMA WholeRequest ==
  ASSUME NEW i \in 1..Teardown
  PROVE  LET r == tryExtractRtsp(RequestTokens(i)) IN
         r.found /\ ~r.throws /\ r.item = RequestTokens(i) /\ r.left = <<>>
<1> DEFINE R == RequestTokens(i)
<1>1. R \in Seq(Tokens) /\ Len(R) = HeaderLen(i) + Body(i) /\ Body(i) \in Nat
      /\ HeaderLen(i) \in {2, 3}
  BY RequestTokensProperties
<1>2. Len(R) \in Nat /\ DOMAIN R = 1..Len(R) /\ HeaderLen(i) \in 1..Len(R)
  BY <1>1, LenProperties
<1>3. /\ \A j \in 1..Len(R) : R[j].k = "end" <=> j = HeaderLen(i)
      /\ \A j \in 1..Len(R) : R[j].k = "TEARDOWN" <=> (i = Teardown /\ j = 1)
      /\ \A j \in 1..Len(R) : R[j].k = "clen" <=> (Body(i) # 0 /\ j = 2)
      /\ Body(i) # 0 => R[2].n = Body(i)
  BY RequestTokensProperties
<1> HIDE DEF R
<1>4. Has(R, "end") /\ HeaderEnd(R) = HeaderLen(i)
  <2>1. Has(R, "end")
    BY <1>2, <1>3 DEF Has
  <2> QED  BY <1>1, <1>2, <1>3, <2>1, HeaderEndProperties
<1>5. CASE i = Teardown
  <2>1. 1 \in DOMAIN R /\ R[1].k = "TEARDOWN" /\ Has(R, "TEARDOWN")
    BY <1>2, <1>3, <1>5 DEF Has
  <2>2. LastTeardown(R) = 1
    BY <1>1, <1>2, <1>3, <2>1, LastTeardownProperties
  <2>3. HeaderLen(i) = Len(R) /\ 1 <= HeaderLen(i) + 1 /\ ~(1 > HeaderLen(i) + 1)
    BY <1>1, <1>2, <1>5 DEF Body, HeaderLen
  <2>4. SubSeq(R, 1, Len(R)) = R
    BY <1>1, SubSeqFull
  <2> QED  BY <1>1, <1>4, <2>1, <2>2, <2>3, <2>4, ExtractTeardown DEF R
<1>6. CASE i # Teardown
  <2>1. ~Has(R, "TEARDOWN")
    BY <1>2, <1>3, <1>6 DEF Has
  <2>2. ContentLength(R, HeaderLen(i)) = Body(i)
    <3>1. CASE Body(i) = 0
      <4>1. \A j \in 1..HeaderLen(i) : j \in 1..Len(R)
        BY <1>2
      <4>2. \A j \in 1..HeaderLen(i) : R[j].k # "clen"
        BY <1>3, <3>1, <4>1
      <4> QED  BY <1>1, <1>2, <3>1, <4>2, ContentLengthProperties
    <3>2. CASE Body(i) # 0
      <4>1. 1 \in 1..Len(R) /\ 2 \in 1..Len(R) /\ HeaderLen(i) >= 2
        BY <1>1, <1>2
      <4>2. R[1].k # "clen" /\ R[2].k = "clen" /\ R[2].n = Body(i)
        BY <1>3, <3>2, <4>1
      <4> QED  BY <1>1, <1>2, <4>1, <4>2, ContentLengthProperties
    <3> QED  BY <3>1, <3>2
  <2>3. HeaderEnd(R) + ContentLength(R, HeaderEnd(R)) = Len(R) /\ Len(R) <= Len(R)
    BY <1>1, <1>2, <1>4, <2>2
  <2>4. SubSeq(R, 1, Len(R)) = R /\ SubSeq(R, Len(R) + 1, Len(R)) = <<>>
    BY <1>1, <1>2, SubSeqFull, SubSeqEmpty
  <2>5. /\ ~tryExtractRtsp(R).throws
        /\ tryExtractRtsp(R).found
    BY <1>1, <1>4, <2>1, <2>3, ExtractRequest
  <2>6. /\ tryExtractRtsp(R).item = R
        /\ tryExtractRtsp(R).left = <<>>
    BY <1>1, <1>4, <2>1, <2>3, <2>4, <2>5, ExtractRequest
  <2> QED  BY <2>5, <2>6 DEF R
<1> QED  BY <1>5, <1>6

\* The beginning of a request is left until the rest has come.
LEMMA PartOfRequest ==
  ASSUME NEW i \in 1..Teardown, NEW b \in Seq(Tokens), NEW c \in Seq(Tokens),
         b # <<>>, c # <<>>, RequestTokens(i) = b \o c
  PROVE  /\ ~tryExtractRtsp(b).found
         /\ ~tryExtractInterleaved(b).found /\ tryExtractInterleaved(b).left = b
<1> DEFINE R == RequestTokens(i)
<1>1. R \in Seq(Tokens) /\ Len(R) = HeaderLen(i) + Body(i) /\ Body(i) \in Nat
      /\ HeaderLen(i) \in {2, 3}
  BY RequestTokensProperties
<1>2. /\ \A j \in 1..Len(R) : R[j].k = "end" <=> j = HeaderLen(i)
      /\ \A j \in 1..Len(R) : R[j].k # "$"
      /\ \A j \in 1..Len(R) : R[j].k = "TEARDOWN" <=> (i = Teardown /\ j = 1)
      /\ \A j \in 1..Len(R) : R[j].k = "clen" <=> (Body(i) # 0 /\ j = 2)
      /\ Body(i) # 0 => R[2].n = Body(i)
  BY RequestTokensProperties
<1>3. /\ Len(b) \in Nat \ {0} /\ Len(c) \in Nat \ {0} /\ DOMAIN b = 1..Len(b)
      /\ Len(R) = Len(b) + Len(c)
      /\ \A j \in 1..(Len(b) + Len(c)) : (b \o c)[j] = IF j <= Len(b) THEN b[j] ELSE c[j - Len(b)]
  BY EmptySeq, LenProperties, ConcatProperties
<1>4. Len(b) < Len(R) /\ \A j \in 1..Len(b) : j \in 1..Len(R) /\ b[j] = R[j]
  BY <1>3
<1> HIDE DEF R
<1>5. tryExtractInterleaved(b).found = FALSE /\ tryExtractInterleaved(b).left = b
  <2>1. 1 \in 1..Len(b) /\ b[1].k # "$"
    BY <1>2, <1>3, <1>4
  <2> QED  BY <2>1 DEF tryExtractInterleaved, NotFound
<1>6. CASE Len(b) < HeaderLen(i)
  <2>1. \A j \in 1..Len(b) : j # HeaderLen(i)
    BY <1>1, <1>3, <1>6
  <2>2. ~Has(b, "end")
    BY <1>2, <1>3, <1>4, <2>1 DEF Has
  <2> QED  BY <1>5, <2>2, ExtractNoEnd
<1>7. CASE HeaderLen(i) <= Len(b)
  <2>1. Body(i) # 0 /\ HeaderLen(i) \in 1..Len(b)
    BY <1>1, <1>3, <1>4, <1>7
  <2>2. i # Teardown
    BY <2>1 DEF Body
  <2>3. ~Has(b, "TEARDOWN")
    BY <1>2, <1>3, <1>4, <2>2 DEF Has
  <2>4. \A j \in 1..Len(b) : b[j].k = "end" <=> j = HeaderLen(i)
    BY <1>2, <1>4
  <2>5. Has(b, "end")
    BY <1>3, <2>1, <2>4 DEF Has
  <2>6. HeaderEnd(b) = HeaderLen(i)
    BY <1>3, <2>4, <2>5, HeaderEndProperties
  <2>7. 1 \in 1..Len(b) /\ 2 \in 1..Len(b) /\ HeaderLen(i) >= 2
    BY <1>1, <1>3, <2>1
  <2>8. b[1].k # "clen" /\ b[2].k = "clen" /\ b[2].n = Body(i)
    BY <1>2, <1>4, <2>1, <2>7
  <2>9. ContentLength(b, HeaderLen(i)) = Body(i)
    BY <2>1, <2>7, <2>8, ContentLengthProperties
  <2>10. HeaderEnd(b) + ContentLength(b, HeaderEnd(b)) = Len(R) /\ ~(Len(R) <= Len(b))
    BY <1>1, <1>3, <1>4, <2>6, <2>9
  <2>11. ~tryExtractRtsp(b).found
    BY <2>3, <2>5, <2>10, ExtractRequest
  <2> QED  BY <1>5, <2>11
<1>8. Len(b) < HeaderLen(i) \/ HeaderLen(i) <= Len(b)
  BY <1>1, <1>3
<1> QED  BY <1>6, <1>7, <1>8

-----------------------------------------------------------------------------
(* The parts of the invariant, step by step.                                *)

\* What the types say of the numbers and sequences.
LEMMA Basics ==
  ASSUME TypeOK
  PROVE  /\ asked \in Nat /\ asked <= Teardown /\ handled \in Nat /\ handled <= asked
         /\ answers \in Nat /\ frames \in Nat /\ frames <= MaxFrames
         /\ recvBuffer \in Seq(Tokens) /\ net \in Seq(Tokens) /\ rest \in Seq(Tokens)
         /\ Pending \in Seq(Tokens) /\ Stream \in Seq(Tokens)
         /\ Len(Pending) = Len(recvBuffer) + Len(net)
<1>1. /\ asked \in 0..Teardown /\ handled \in 0..asked /\ answers \in Nat
      /\ frames \in 0..MaxFrames
      /\ recvBuffer \in Seq(Tokens) /\ net \in Seq(Tokens) /\ rest \in Seq(Tokens)
  BY DEF TypeOK
<1>2. /\ asked \in Nat /\ asked <= Teardown /\ handled \in Nat /\ handled <= asked
      /\ frames \in Nat /\ frames <= MaxFrames
  BY <1>1, Constants
<1>3. Pending \in Seq(Tokens) /\ Len(Pending) = Len(recvBuffer) + Len(net)
  BY <1>1, ConcatProperties DEF Pending
<1>4. Stream \in Seq(Tokens)
  BY <1>1, <1>3, ConcatProperties DEF Stream
<1> QED  BY <1>1, <1>2, <1>3, <1>4

\* A step that leaves the stream and the dialogue alone.
Quiet ==
  UNCHANGED <<asked, frames, rest, marked, split, recvBuffer, net, handled, garbled>>

\* A request under way has the end of its header.
LEMMA RequestHasEnd ==
  ASSUME NEW i \in 1..Teardown
  PROVE  /\ RequestTokens(i) \in Seq(Tokens) /\ RequestTokens(i) # <<>>
         /\ Has(RequestTokens(i), "end")
<1>1. /\ RequestTokens(i) \in Seq(Tokens) /\ HeaderLen(i) \in {2, 3} /\ Body(i) \in Nat
      /\ Len(RequestTokens(i)) = HeaderLen(i) + Body(i)
      /\ \A j \in 1..Len(RequestTokens(i)) :
           RequestTokens(i)[j].k = "end" <=> j = HeaderLen(i)
  BY RequestTokensProperties
<1>2. HeaderLen(i) \in 1..Len(RequestTokens(i)) /\ Len(RequestTokens(i)) # 0
  BY <1>1
<1>3. DOMAIN RequestTokens(i) = 1..Len(RequestTokens(i))
  BY <1>1, LenProperties
<1> QED  BY <1>1, <1>2, <1>3, EmptySeq DEF Has

\* When the client waits for nothing, nothing is under way before the first frame.
LEMMA EarlyIdle ==
  ASSUME TypeOK, BeforeFrames, OneHeader, frames = 0, ~waiting
  PROVE  handled = asked /\ Pending = <<>>
<1>1. CASE handled + 1 = asked /\ Pending = RequestTokens(asked)
  <2>1. asked \in 1..Teardown
    BY <1>1, Basics, Constants
  <2>2. Has(Pending, "end")
    BY <1>1, <2>1, RequestHasEnd
  <2> QED  BY <2>2 DEF OneHeader
<1> QED  BY <1>1 DEF BeforeFrames

\* A read before the first frame: the request is there as a whole and is handled, or
\* nothing happens.
LEMMA EarlyReceive ==
  ASSUME TypeOK, BeforeFrames, frames = 0, NEW size \in 1..Len(net), ReceiveItem(size)
  PROVE  /\ handled + 1 = asked
         /\ \/ /\ Pending' = <<>> /\ handled' = asked
               /\ HandleRequest(RequestTokens(asked)) /\ garbled' = garbled
            \/ /\ Pending' = Pending /\ net' # <<>>
               /\ UNCHANGED <<handled, garbled, answers, peer, error, fault>>
<1> DEFINE b == Buffer(size)
<1>1. /\ b \in Seq(Tokens) /\ b # <<>> /\ net' \in Seq(Tokens)
      /\ Pending = b \o net'
  BY Read
<1>2. Pending # <<>>
  BY <1>1, ConcatEqualIffEmpty
<1>3. handled + 1 = asked /\ Pending = RequestTokens(asked)
  BY <1>2 DEF BeforeFrames
<1>4. asked \in 1..Teardown
  BY <1>3, Basics, Constants
<1>5. \/ /\ tryExtractRtsp(b).found /\ tryExtractRtsp(b).throws
      \/ /\ tryExtractRtsp(b).found /\ ~tryExtractRtsp(b).throws
         /\ recvBuffer' = tryExtractRtsp(b).left
         /\ HandleRequest(tryExtractRtsp(b).item)
      \/ /\ ~tryExtractRtsp(b).found
         /\ recvBuffer' = tryExtractInterleaved(b).left
         /\ garbled' = (garbled \/ (tryExtractInterleaved(b).found
                                      /\ ~IsFrame(tryExtractInterleaved(b).item)))
         /\ UNCHANGED <<stuck, handled, answers, peer, error, fault>>
  BY DEF ReceiveItem, Buffer
<1> HIDE DEF b
<1>6. CASE net' = <<>>
  <2>1. b = RequestTokens(asked)
    BY <1>1, <1>3, <1>6, ConcatEmptySeq
  <2>2. /\ tryExtractRtsp(b).found /\ ~tryExtractRtsp(b).throws
        /\ tryExtractRtsp(b).item = RequestTokens(asked) /\ tryExtractRtsp(b).left = <<>>
    BY <1>4, <2>1, WholeRequest
  <2>3. recvBuffer' = <<>> /\ HandleRequest(RequestTokens(asked))
    BY <1>5, <2>2
  <2>4. Pending' = <<>>
    BY <1>6, <2>3, ConcatEmptySeq, EmptySeq DEF Pending
  <2>5. IsNextRequest(RequestTokens(asked))
    BY <1>3, Basics DEF IsNextRequest
  <2>6. handled' = asked
    BY <1>3, <2>3, <2>5 DEF HandleRequest, HandledAfter
  <2>7. garbled' = garbled
    BY <2>3, <2>5 DEF HandleRequest, TypeOK
  <2> QED  BY <1>3, <2>3, <2>4, <2>6, <2>7
<1>7. CASE net' # <<>>
  <2>1. /\ ~tryExtractRtsp(b).found /\ ~tryExtractInterleaved(b).found
        /\ tryExtractInterleaved(b).left = b
    BY <1>1, <1>3, <1>4, <1>7, PartOfRequest
  <2>2. recvBuffer' = b /\ garbled' = garbled
        /\ UNCHANGED <<stuck, handled, answers, peer, error, fault>>
    BY <1>5, <2>1 DEF TypeOK
  <2>3. Pending' = Pending
    BY <1>1, <2>2 DEF Pending
  <2> QED  BY <1>3, <1>7, <2>2, <2>3
<1> QED  BY <1>6, <1>7

\* What every step but a read, a request and a frame does to the stream.
LEMMA QuietSteps ==
  ASSUME ReadResponse \/ CloseClient \/ PeekError \/ HandleClose \/ UNCHANGED vars
  PROVE  Quiet /\ Pending' = Pending /\ Stream' = Stream
<1>1. Quiet
  <2>1. CASE HandleClose
    BY <2>1 DEF HandleClose, clientVars, Quiet
  <2>2. CASE ReadResponse \/ CloseClient \/ PeekError \/ UNCHANGED vars
    BY <2>2 DEF ReadResponse, CloseClient, PeekError, vars, clientVars, serverVars, Quiet
  <2> QED  BY <2>1, <2>2
<1> QED  BY <1>1 DEF Quiet, Pending, Stream

\* The steps of the client that write, in terms of the stream.
LEMMA WritingSteps ==
  ASSUME TypeOK
  PROVE  /\ SendRequest =>
              /\ asked + 1 \in 1..Teardown /\ asked' = asked + 1 /\ rest' = rest
              /\ net' = net \o RequestTokens(asked + 1)
              /\ Pending' = Pending \o RequestTokens(asked + 1)
              /\ rest = <<>> => Stream' = Stream \o RequestTokens(asked + 1)
              /\ UNCHANGED <<frames, recvBuffer, stuck, handled, garbled, marked, answers, peer,
                            fault>>
         /\ FinishFrame =>
              /\ net' = net \o rest /\ Pending' = Pending \o rest /\ Stream' = Stream
              /\ UNCHANGED <<frames, recvBuffer, stuck, handled, garbled, marked, answers, peer,
                             fault, asked, waiting, split>>
         /\ \A payload \in Payloads, cut \in 1..(2 + MaxPayload) :
              SendFrame(payload, cut) =>
                \E x, y \in Seq(Tokens) :
                  /\ FrameTokens(frames + 1, payload) = x \o y
                  /\ net' = net \o x /\ rest' = y
                  /\ Pending' = Pending \o x
                  /\ Stream' = Pending \o FrameTokens(frames + 1, payload)
                  /\ frames + 1 \in 1..MaxFrames /\ frames' = frames + 1
                  /\ UNCHANGED <<recvBuffer, stuck, handled, garbled, answers, peer, fault,
                                 asked, waiting, split>>
<1>0. /\ recvBuffer \in Seq(Tokens) /\ net \in Seq(Tokens) /\ rest \in Seq(Tokens)
      /\ Pending \in Seq(Tokens) /\ asked \in Nat /\ asked <= Teardown
      /\ frames \in Nat /\ frames <= MaxFrames
  BY Basics
<1>1. ASSUME SendRequest
      PROVE  /\ asked + 1 \in 1..Teardown /\ asked' = asked + 1 /\ rest' = rest
             /\ net' = net \o RequestTokens(asked + 1)
             /\ Pending' = Pending \o RequestTokens(asked + 1)
             /\ rest = <<>> => Stream' = Stream \o RequestTokens(asked + 1)
             /\ UNCHANGED <<frames, recvBuffer, stuck, handled, garbled, marked, answers, peer,
                            fault>>
  <2>1. asked + 1 \in 1..Teardown
    BY <1>0, <1>1, Constants DEF SendRequest
  <2>2. RequestTokens(asked + 1) \in Seq(Tokens)
    BY <2>1, RequestTokensProperties
  <2>3. /\ net' = net \o RequestTokens(asked + 1) /\ rest' = rest /\ asked' = asked + 1
        /\ UNCHANGED <<frames, recvBuffer, stuck, handled, garbled, marked, answers, peer,
                            fault>>
    BY <1>1 DEF SendRequest, serverVars
  <2>4. Pending' = Pending \o RequestTokens(asked + 1)
    <3>1. (recvBuffer \o net) \o RequestTokens(asked + 1)
            = recvBuffer \o (net \o RequestTokens(asked + 1))
      <4>1. recvBuffer \in Seq(Tokens) /\ net \in Seq(Tokens)
        BY <1>0
      <4> QED  BY <2>2, <4>1, Assoc
    <3> QED  BY <2>3, <3>1 DEF Pending
  <2>5. rest = <<>> => Stream' = Stream \o RequestTokens(asked + 1)
    <3>1. Pending \o RequestTokens(asked + 1) \in Seq(Tokens)
      BY <1>0, <2>2, ConcatProperties
    <3>2. rest = <<>> => Stream = Pending
      BY <1>0, ConcatEmptySeq DEF Stream
    <3>3. rest = <<>> => Stream' = Pending \o RequestTokens(asked + 1)
      BY <2>3, <2>4, <3>1, ConcatEmptySeq DEF Stream
    <3> QED  BY <3>2, <3>3
  <2> QED  BY <2>1, <2>3, <2>4, <2>5
<1>2. ASSUME FinishFrame
      PROVE  /\ net' = net \o rest /\ Pending' = Pending \o rest /\ Stream' = Stream
             /\ UNCHANGED <<frames, recvBuffer, stuck, handled, garbled, marked, answers, peer,
                            fault, asked, waiting, split>>
  <2>1. /\ net' = net \o rest /\ rest' = <<>>
        /\ UNCHANGED <<frames, recvBuffer, stuck, handled, garbled, marked, answers, peer, fault,
                       asked, waiting, split>>
    BY <1>2 DEF FinishFrame, serverVars
  <2>2. Pending' = Pending \o rest
    BY <1>0, <2>1, Assoc DEF Pending
  <2>3. Stream' = Stream
    <3>1. Pending \o rest \in Seq(Tokens)
      BY <1>0, ConcatProperties
    <3> QED  BY <2>1, <2>2, <3>1, ConcatEmptySeq DEF Stream
  <2> QED  BY <2>1, <2>2, <2>3
<1>3. ASSUME NEW payload \in Payloads, NEW cut \in 1..(2 + MaxPayload), SendFrame(payload, cut)
      PROVE  \E x, y \in Seq(Tokens) :
               /\ FrameTokens(frames + 1, payload) = x \o y
               /\ net' = net \o x /\ rest' = y
               /\ Pending' = Pending \o x
               /\ Stream' = Pending \o FrameTokens(frames + 1, payload)
               /\ frames + 1 \in 1..MaxFrames /\ frames' = frames + 1
               /\ UNCHANGED <<recvBuffer, stuck, handled, garbled, answers, peer, fault,
                              asked, waiting, split>>
  <2> DEFINE t == FrameTokens(frames + 1, payload)
             x == SubSeq(t, 1, cut)
             y == SubSeq(t, cut + 1, Len(t))
  <2>1. frames + 1 \in 1..MaxFrames
    BY <1>0, <1>3, Constants DEF SendFrame
  <2>2. t \in Seq(Tokens)
    BY <2>1, FrameTokensProperties
  <2>3. /\ cut \in 1..Len(t) /\ net' = net \o x /\ rest' = y /\ frames' = frames + 1
        /\ UNCHANGED <<recvBuffer, stuck, handled, garbled, answers, peer, fault, asked, waiting,
                       split>>
    BY <1>3 DEF SendFrame, serverVars
  <2> HIDE DEF t
  <2>4. cut \in 0..Len(t)
    BY <2>3
  <2>5. x \in Seq(Tokens) /\ y \in Seq(Tokens) /\ t = x \o y
    BY <2>2, <2>4, Cut
  <2> HIDE DEF x, y
  <2>6. Pending' = Pending \o x
    <3>1. (recvBuffer \o net) \o x = recvBuffer \o (net \o x)
      <4>1. recvBuffer \in Seq(Tokens) /\ net \in Seq(Tokens) /\ x \in Seq(Tokens)
        BY <1>0, <2>5
      <4> QED  BY <4>1, Assoc
    <3> QED  BY <2>3, <3>1 DEF Pending
  <2>7. Stream' = Pending \o t
    BY <1>0, <2>3, <2>5, <2>6, Assoc DEF Stream
  <2> QED  BY <2>1, <2>3, <2>5, <2>6, <2>7 DEF t
<1> QED  BY <1>1, <1>2, <1>3

\* BeforeFrames is kept.
LEMMA BeforeFramesStep ==
  ASSUME IInv, [Next]_vars
  PROVE  BeforeFrames'
<1> USE DEF IInv
<1>1. ASSUME ReadResponse \/ CloseClient \/ PeekError \/ HandleClose \/ UNCHANGED vars
      PROVE  BeforeFrames'
  BY <1>1, QuietSteps DEF BeforeFrames, Quiet
<1>2. CASE SendRequest
  <2>1. /\ asked + 1 \in 1..Teardown /\ asked' = asked + 1 /\ rest' = rest
        /\ net' = net \o RequestTokens(asked + 1)
        /\ Pending' = Pending \o RequestTokens(asked + 1)
        /\ UNCHANGED <<frames, recvBuffer, handled, garbled, marked, answers, peer, fault>>
    BY <1>2, WritingSteps
  <2> SUFFICES ASSUME frames = 0
               PROVE  BeforeFrames'
    BY <2>1 DEF BeforeFrames
  <2>2. ~marked /\ ~split /\ rest = <<>>
    BY DEF BeforeFrames
  <2>3. ~waiting /\ split' = (split \/ rest # <<>>)
    BY <1>2 DEF SendRequest
  <2>4. handled = asked /\ Pending = <<>>
    BY <2>2, <2>3, EarlyIdle
  <2>5. RequestTokens(asked + 1) \in Seq(Tokens) /\ RequestTokens(asked + 1) # <<>>
    BY <2>1, RequestHasEnd
  <2>6. Pending' = RequestTokens(asked')
    BY <2>1, <2>4, <2>5, ConcatEmptySeq
  <2>7. net' # <<>>
    BY <2>1, <2>5, Basics, ConcatEqualIffEmpty
  <2> QED  BY <2>1, <2>2, <2>3, <2>4, <2>6, <2>7 DEF BeforeFrames
<1>3. CASE FinishFrame
  BY <1>3 DEF FinishFrame, BeforeFrames
<1>4. ASSUME NEW payload \in Payloads, NEW cut \in 1..(2 + MaxPayload), SendFrame(payload, cut)
      PROVE  BeforeFrames'
  <2>1. frames' # 0
    BY <1>4, Basics DEF SendFrame
  <2> QED  BY <2>1 DEF BeforeFrames
<1>5. ASSUME NEW size \in 1..Len(net), ReceiveItem(size)
      PROVE  BeforeFrames'
  <2>1. UNCHANGED <<asked, frames, rest, marked, split>>
    BY <1>5 DEF ReceiveItem, clientVars
  <2>2. CASE frames = 0
    <3>1. /\ (handled + 1 = asked /\ Pending = RequestTokens(asked)) \/ handled = asked
          /\ \/ Pending' = <<>> /\ handled' = asked
             \/ Pending' = Pending /\ net' # <<>> /\ handled' = handled
      BY <1>5, <2>2, EarlyReceive DEF BeforeFrames
    <3>2. handled + 1 = asked
      BY <1>5, <2>2, EarlyReceive
    <3>3. handled # asked
      BY <3>2, Basics
    <3> QED  BY <2>1, <2>2, <3>1, <3>2, <3>3 DEF BeforeFrames
  <2>3. CASE frames # 0
    BY <2>1, <2>3 DEF BeforeFrames
  <2> QED  BY <2>2, <2>3
<1> QED  BY <1>1, <1>2, <1>3, <1>4, <1>5 DEF Next, Client, Server

\* TEARDOWN and frames have no Content-Length line, nor the body of a frame.
LEMMA NoBody ==
  /\ ~Has(RequestTokens(Teardown), "clen")
  /\ \A f \in 1..MaxFrames, payload \in Payloads : ~Has(FrameTokens(f, payload), "clen")
<1>1. ~Has(RequestTokens(Teardown), "clen")
  <2>1. Teardown \in 1..Teardown
    BY Constants
  <2>2. RequestTokens(Teardown) \in Seq(Tokens)
        /\ \A j \in 1..Len(RequestTokens(Teardown)) :
             RequestTokens(Teardown)[j].k = "clen" <=> (Body(Teardown) # 0 /\ j = 2)
    BY <2>1, RequestTokensProperties
  <2>3. Body(Teardown) = 0 /\ DOMAIN RequestTokens(Teardown) = 1..Len(RequestTokens(Teardown))
    BY <2>2, LenProperties DEF Body
  <2> QED  BY <2>2, <2>3 DEF Has
<1>2. ASSUME NEW f \in 1..MaxFrames, NEW payload \in Payloads
      PROVE  ~Has(FrameTokens(f, payload), "clen")
  <2> DEFINE t == FrameTokens(f, payload)
  <2>1. /\ t \in Seq(Tokens) /\ Len(payload) \in Nat \ {0}
        /\ Len(t) = 2 + Len(payload)
        /\ t[1].k = "$" /\ t[2].k = "len"
        /\ \A j \in 3..(2 + Len(payload)) : /\ t[j].k = payload[j - 2]
                                            /\ payload[j - 2] \in {"byte", "end", "TEARDOWN"}
    BY FrameTokensProperties
  <2>2. DOMAIN t = 1..(2 + Len(payload))
    BY <2>1, LenProperties
  <2> HIDE DEF t
  <2>3. \A j \in 1..(2 + Len(payload)) : j = 1 \/ j = 2 \/ j \in 3..(2 + Len(payload))
    BY <2>1
  <2>4. \A j \in 1..(2 + Len(payload)) : t[j].k # "clen"
    BY <2>1, <2>3
  <2> QED  BY <2>2, <2>4 DEF Has, t
<1> QED  BY <1>1, <1>2

\* What a read leaves of the buffer has no more than the buffer.
LEMMA ReadLeaves ==
  ASSUME TypeOK, NEW size \in 1..Len(net), ReceiveItem(size), NEW x,
         ~Has(recvBuffer, x), ~Has(net, x)
  PROVE  ~Has(Buffer(size), x) /\ ~Has(recvBuffer', x) /\ ~Has(net', x)
<1> DEFINE b == Buffer(size)
           s == SubSeq(net, 1, size)
<1>1. b \in Seq(Tokens) /\ s \in Seq(Tokens) /\ net' \in Seq(Tokens) /\ net = s \o net'
  BY Read
<1>2. b = recvBuffer \o s
  BY DEF Buffer
<1>3. recvBuffer' = recvBuffer \/ recvBuffer' = tryExtractInterleaved(b).left
      \/ (tryExtractRtsp(b).found /\ recvBuffer' = tryExtractRtsp(b).left)
  BY DEF ReceiveItem, Buffer
<1> HIDE DEF b, s
<1>4. ~Has(s, x) /\ ~Has(net', x)
  <2> DEFINE y == net'
  <2>1. y \in Seq(Tokens) /\ net = s \o y
    BY <1>1
  <2> HIDE DEF y
  <2>2. ~Has(s, x) /\ ~Has(y, x)
    BY <1>1, <2>1, HasConcat
  <2> QED  BY <2>2 DEF y
<1>5. ~Has(b, x)
  BY <1>1, <1>2, <1>4, Basics, HasConcat
<1>6. ~Has(tryExtractInterleaved(b).left, x)
  <2>1. tryExtractInterleaved(b).left = b
        \/ \E k \in Nat : IsRest(tryExtractInterleaved(b).left, b, k)
    BY <1>1, InterleavedLeavesRest
  <2> QED  BY <1>1, <1>5, <2>1, RestIsShifted
<1>7. tryExtractRtsp(b).found => ~Has(tryExtractRtsp(b).left, x)
  <2>1. tryExtractRtsp(b).found => \E k \in Int : IsRest(tryExtractRtsp(b).left, b, k)
    BY <1>1, RtspLeavesRest
  <2> QED  BY <1>1, <1>5, <2>1, RestIsShifted
<1> QED  BY <1>3, <1>4, <1>5, <1>6, <1>7 DEF b

\* AfterDialogue is kept.
LEMMA AfterDialogueStep ==
  ASSUME IInv, [Next]_vars
  PROVE  AfterDialogue'
<1> USE DEF IInv
<1>0. /\ recvBuffer \in Seq(Tokens) /\ net \in Seq(Tokens) /\ rest \in Seq(Tokens)
      /\ Pending = recvBuffer \o net
  BY Basics DEF Pending
<1>1. CASE ReadResponse \/ CloseClient \/ PeekError \/ HandleClose \/ UNCHANGED vars
  <2>1. Quiet
    BY <1>1, QuietSteps
  <2>2. waiting' = waiting \/ waiting' = FALSE
    BY <1>1 DEF ReadResponse, CloseClient, PeekError, HandleClose, vars, clientVars
  <2> QED  BY <2>1, <2>2 DEF AfterDialogue, Quiet
<1>2. CASE SendRequest
  <2>1. /\ asked + 1 \in 1..Teardown /\ asked' = asked + 1 /\ rest' = rest
        /\ net' = net \o RequestTokens(asked + 1)
        /\ UNCHANGED <<frames, recvBuffer, handled, garbled, marked, answers, peer, fault>>
    BY <1>2, WritingSteps
  <2> SUFFICES ASSUME frames > 0
               PROVE  AfterDialogue'
    BY <2>1 DEF AfterDialogue
  <2>2. /\ asked >= Len(Requests)
        /\ ~Has(recvBuffer, "clen") /\ ~Has(net, "clen") /\ ~Has(rest, "clen")
    BY DEF AfterDialogue
  <2>3. asked + 1 = Teardown /\ asked' # Len(Requests) /\ asked' >= Len(Requests)
    <3>1. asked \in Nat /\ Len(Requests) \in Nat /\ Teardown = Len(Requests) + 1
      BY Basics, Constants
    <3> QED  BY <2>1, <2>2, <3>1
  <2>4. RequestTokens(Teardown) \in Seq(Tokens) /\ ~Has(RequestTokens(Teardown), "clen")
    BY <2>1, <2>3, RequestHasEnd, NoBody
  <2>5. ~Has(net', "clen")
    BY <1>0, <2>1, <2>2, <2>3, <2>4, HasConcat
  <2> QED  BY <2>1, <2>2, <2>3, <2>5 DEF AfterDialogue
<1>3. CASE FinishFrame
  <2>1. /\ net' = net \o rest /\ rest' = <<>>
        /\ UNCHANGED <<frames, recvBuffer, asked, waiting>>
    BY <1>3 DEF FinishFrame, serverVars
  <2>2. ~Has(net, "clen") /\ ~Has(rest, "clen") => ~Has(net', "clen")
    BY <1>0, <2>1, HasConcat
  <2>3. ~Has(<<>>, "clen")
    BY DEF Has
  <2> QED  BY <2>1, <2>2, <2>3 DEF AfterDialogue
<1>4. ASSUME NEW payload \in Payloads, NEW cut \in 1..(2 + MaxPayload), SendFrame(payload, cut)
      PROVE  AfterDialogue'
  <2>1. PICK x, y \in Seq(Tokens) :
          /\ FrameTokens(frames + 1, payload) = x \o y
          /\ net' = net \o x /\ rest' = y
          /\ frames + 1 \in 1..MaxFrames /\ frames' = frames + 1
          /\ UNCHANGED <<recvBuffer, asked, waiting>>
    BY <1>4, WritingSteps
  <2>2. ~Has(x, "clen") /\ ~Has(y, "clen")
    <3>1. ~Has(x \o y, "clen")
      BY <2>1, NoBody
    <3> QED  BY <3>1, HasConcat
  <2>3. asked = Teardown \/ (asked = Len(Requests) /\ ~waiting)
    BY <1>4 DEF SendFrame
  <2>4. asked' >= Len(Requests) /\ (asked' = Len(Requests) => ~waiting')
    BY <2>1, <2>3, Constants
  <2>5. ~Has(recvBuffer, "clen") /\ ~Has(net, "clen")
    <3>1. CASE frames > 0
      BY <3>1 DEF AfterDialogue
    <3>2. CASE frames = 0 /\ Pending = <<>>
      <4>1. recvBuffer = <<>> /\ net = <<>>
        BY <1>0, <3>2, EmptyConcat
      <4> QED  BY <4>1 DEF Has
    <3>3. CASE frames = 0 /\ handled + 1 = asked /\ Pending = RequestTokens(asked)
      <4>1. ~marked
        BY <3>3 DEF BeforeFrames
      <4>2. waiting
        BY <3>3, <4>1, Basics, EarlyIdle DEF BeforeFrames
      <4>3. ~Has(Pending, "clen")
        BY <2>3, <3>3, <4>2, NoBody
      <4> QED  BY <1>0, <4>3, HasConcat
    <3>4. frames > 0 \/ frames = 0
      BY Basics
    <3> QED  BY <3>1, <3>2, <3>3, <3>4 DEF BeforeFrames
  <2>6. ~Has(net', "clen")
    BY <1>0, <2>1, <2>2, <2>5, HasConcat
  <2> QED  BY <2>1, <2>2, <2>4, <2>5, <2>6 DEF AfterDialogue
<1>5. ASSUME NEW size \in 1..Len(net), ReceiveItem(size)
      PROVE  AfterDialogue'
  <2>1. UNCHANGED <<asked, waiting, frames, rest>>
    BY <1>5 DEF ReceiveItem, clientVars
  <2>2. frames > 0 => ~Has(recvBuffer', "clen") /\ ~Has(net', "clen")
    BY <1>5, ReadLeaves DEF AfterDialogue
  <2> QED  BY <2>1, <2>2 DEF AfterDialogue
<1> QED  BY <1>1, <1>2, <1>3, <1>4, <1>5 DEF Next, Client, Server

\* A response to a peer that is there counts as an answer.
LEMMA AnswerCounts ==
  ASSUME TypeOK, NEW item, HandleRequest(item), peer' = "open", fault' = "none", ~stuck'
  PROVE  answers' # 0
<1>1. peer \in {"open", "fin", "reset"} /\ answers \in Nat
  BY DEF TypeOK
<1>2. Respond
  BY HandlerCases
<1>3. WriteTo(peer) = "open"
  BY <1>1, <1>2 DEF Respond, WriteTo
<1>4. answers' = answers + 1
  BY <1>2, <1>3 DEF Respond
<1> QED  BY <1>1, <1>4

\* RequestUnderWay is kept.
LEMMA RequestUnderWayStep ==
  ASSUME IInv, [Next]_vars
  PROVE  RequestUnderWay'
<1> USE DEF IInv
<1>0. /\ recvBuffer \in Seq(Tokens) /\ net \in Seq(Tokens) /\ rest \in Seq(Tokens)
      /\ Pending = recvBuffer \o net
      /\ asked \in Nat /\ handled \in Nat /\ handled <= asked /\ frames \in Nat
  BY Basics DEF Pending
<1>1. CASE ReadResponse
  BY <1>1 DEF ReadResponse, RequestUnderWay
<1>2. CASE CloseClient
  <2>1. peer' # "open"
    BY <1>2 DEF CloseClient
  <2> QED  BY <2>1 DEF RequestUnderWay
<1>3. CASE PeekError \/ HandleClose \/ UNCHANGED vars
  <2>1. UNCHANGED <<waiting, answers, peer, frames, handled, asked, net>>
    BY <1>3 DEF PeekError, HandleClose, vars, clientVars, serverVars
  <2>2. fault' = "none" /\ ~stuck' => fault = "none" /\ (stuck' = stuck)
    BY <1>3 DEF PeekError, HandleClose, vars, serverVars
  <2> QED  BY <2>1, <2>2 DEF RequestUnderWay
<1>4. CASE SendRequest
  <2>1. /\ asked + 1 \in 1..Teardown /\ asked' = asked + 1
        /\ net' = net \o RequestTokens(asked + 1)
        /\ UNCHANGED <<frames, handled>>
    BY <1>4, WritingSteps
  <2>2. handled' # asked'
    BY <1>0, <2>1
  <2>3. Has(net', "end")
    BY <1>0, <2>1, RequestHasEnd, HasConcat
  <2> QED  BY <2>2, <2>3 DEF RequestUnderWay
<1>5. CASE FinishFrame
  <2>1. net' = net \o rest
        /\ UNCHANGED <<frames, stuck, handled, answers, peer, fault, asked, waiting>>
    BY <1>5, WritingSteps
  <2>2. Has(net, "end") => Has(net', "end")
    BY <1>0, <2>1, HasConcat
  <2> QED  BY <2>1, <2>2 DEF RequestUnderWay
<1>6. ASSUME NEW payload \in Payloads, NEW cut \in 1..(2 + MaxPayload), SendFrame(payload, cut)
      PROVE  RequestUnderWay'
  <2>1. PICK x, y \in Seq(Tokens) :
          /\ net' = net \o x
          /\ frames' = frames + 1
          /\ UNCHANGED <<stuck, handled, answers, peer, fault, asked, waiting>>
    BY <1>6, WritingSteps
  <2>2. asked = Teardown \/ (asked = Len(Requests) /\ ~waiting)
    BY <1>6 DEF SendFrame
  <2> SUFFICES ASSUME waiting, answers = 0, peer = "open", fault = "none", ~stuck
               PROVE  Has(net', "end") /\ frames' # 0
    BY <2>1 DEF RequestUnderWay
  <2>3. CASE frames > 0
    BY <1>0, <2>1, <2>3, HasConcat DEF RequestUnderWay
  <2>4. CASE frames = 0
    <3>1. handled + 1 = asked /\ Pending = RequestTokens(asked) /\ net # <<>>
      BY <2>4 DEF RequestUnderWay, BeforeFrames
    <3>2. asked = Teardown /\ Teardown \in 1..Teardown
      BY <2>2, Constants
    <3>3. Len(Pending) = 3 /\ Pending[3].k = "end"
      <4>1. /\ HeaderLen(Teardown) = 3 /\ Body(Teardown) = 0
            /\ Len(Pending) = HeaderLen(Teardown) + Body(Teardown)
            /\ \A j \in 1..Len(Pending) : Pending[j].k = "end" <=> j = HeaderLen(Teardown)
        <5>1. HeaderLen(Teardown) = 3 /\ Body(Teardown) = 0
          BY DEF HeaderLen, Body
        <5>2. Pending = RequestTokens(Teardown)
          BY <3>1, <3>2
        <5>3. /\ Len(RequestTokens(Teardown)) = HeaderLen(Teardown) + Body(Teardown)
              /\ \A j \in 1..Len(RequestTokens(Teardown)) :
                   RequestTokens(Teardown)[j].k = "end" <=> j = HeaderLen(Teardown)
          BY <3>2, RequestTokensProperties
        <5> QED  BY <5>1, <5>2, <5>3
      <4> QED  BY <4>1
    <3>4. /\ Len(net) \in Nat \ {0} /\ Len(recvBuffer) \in Nat
          /\ Len(Pending) = Len(recvBuffer) + Len(net)
          /\ DOMAIN net = 1..Len(net)
          /\ \A j \in 1..(Len(recvBuffer) + Len(net)) :
               Pending[j] = IF j <= Len(recvBuffer) THEN recvBuffer[j]
                            ELSE net[j - Len(recvBuffer)]
      <4>1. Len(net) \in Nat /\ Len(net) # 0 /\ Len(recvBuffer) \in Nat
            /\ DOMAIN net = 1..Len(net)
        BY <1>0, <3>1, EmptySeq, LenProperties
      <4> QED  BY <1>0, <4>1, ConcatProperties
    <3>5. Len(net) \in DOMAIN net /\ 3 - Len(recvBuffer) = Len(net) /\ ~(3 <= Len(recvBuffer))
          /\ 3 \in 1..(Len(recvBuffer) + Len(net))
      <4>1. /\ Len(net) \in Nat \ {0} /\ Len(recvBuffer) \in Nat
            /\ 3 = Len(recvBuffer) + Len(net) /\ DOMAIN net = 1..Len(net)
        BY <3>3, <3>4
      <4> QED  BY <4>1
    <3>6. net[Len(net)] = Pending[3]
      BY <3>4, <3>5
    <3>7. Has(net, "end")
      BY <3>3, <3>5, <3>6 DEF Has
    <3> QED  BY <1>0, <2>1, <2>4, <3>7, HasConcat
  <2> QED  BY <1>0, <2>3, <2>4
<1>7. ASSUME NEW size \in 1..Len(net), ReceiveItem(size)
      PROVE  RequestUnderWay'
  <2>1. UNCHANGED <<asked, waiting, frames>>
    BY <1>7 DEF ReceiveItem, clientVars
  <2>2. CASE frames = 0
    <3>1. CASE HandleRequest(RequestTokens(asked))
      BY <3>1, AnswerCounts DEF RequestUnderWay
    <3>2. CASE UNCHANGED <<handled, answers, peer, fault>>
      <4>1. handled' # asked'
        BY <1>0, <1>7, <2>1, <2>2, <3>2, EarlyReceive
      <4> QED  BY <2>1, <2>2, <3>2, <4>1 DEF RequestUnderWay
    <3> QED  BY <1>7, <2>2, <3>1, <3>2, EarlyReceive
  <2>3. CASE frames > 0
    <3> DEFINE b == Buffer(size)
               s == SubSeq(net, 1, size)
               z == net'
    <3>1. /\ b \in Seq(Tokens) /\ s \in Seq(Tokens) /\ z \in Seq(Tokens) /\ net = s \o z
          /\ b = recvBuffer \o s
      BY <1>7, Read DEF Buffer
    <3>2. \/ fault' = "length_error"
          \/ HandleRequest(tryExtractRtsp(b).item)
          \/ /\ ~tryExtractRtsp(b).found
             /\ UNCHANGED <<stuck, answers, peer, fault>>
      BY <1>7 DEF ReceiveItem, Buffer
    <3>3. ~Has(b, "clen")
      BY <1>7, <2>3, ReadLeaves DEF AfterDialogue
    <3> HIDE DEF b, s, z
    <3>4. CASE fault' = "length_error"
      BY <3>4 DEF RequestUnderWay
    <3>5. CASE HandleRequest(tryExtractRtsp(b).item)
      BY <3>5, AnswerCounts DEF RequestUnderWay
    <3>6. CASE ~tryExtractRtsp(b).found /\ UNCHANGED <<stuck, answers, peer, fault>>
      <4>1. ~Has(b, "end")
        BY <3>1, <3>3, <3>6, EndIsFound
      <4>2. ~Has(s, "end")
        BY <1>0, <3>1, <4>1, HasConcat
      <4>3. Has(net, "end") => Has(z, "end")
        BY <3>1, <4>2, HasConcat
      <4> QED  BY <2>1, <2>3, <3>6, <4>3 DEF RequestUnderWay, z
    <3> QED  BY <3>2, <3>4, <3>5, <3>6
  <2> QED  BY <1>0, <2>2, <2>3
<1> QED  BY <1>1, <1>2, <1>3, <1>4, <1>5, <1>6, <1>7 DEF Next, Client, Server

-----------------------------------------------------------------------------
(* One header in the stream.                                                *)

\* Where the tokens of a concatenation are.
LEMMA Places ==
  ASSUME NEW s \in Seq(Tokens), NEW t \in Seq(Tokens)
  PROVE  /\ Len(s) \in Nat /\ Len(t) \in Nat /\ DOMAIN s = 1..Len(s) /\ DOMAIN t = 1..Len(t)
         /\ s \o t \in Seq(Tokens)
         /\ DOMAIN (s \o t) = 1..(Len(s) + Len(t)) /\ Len(s \o t) = Len(s) + Len(t)
         /\ \A i \in DOMAIN s : i \in DOMAIN (s \o t) /\ (s \o t)[i] = s[i]
         /\ \A i \in DOMAIN t : i + Len(s) \in DOMAIN (s \o t) /\ (s \o t)[i + Len(s)] = t[i]
         /\ \A i \in DOMAIN (s \o t) :
              i \in DOMAIN s \/ (i > Len(s) /\ i - Len(s) \in DOMAIN t
                                 /\ (s \o t)[i] = t[i - Len(s)])
<1>1. /\ Len(s) \in Nat /\ Len(t) \in Nat /\ DOMAIN s = 1..Len(s) /\ DOMAIN t = 1..Len(t)
      /\ s \o t \in Seq(Tokens)
      /\ Len(s \o t) = Len(s) + Len(t)
      /\ \A i \in 1..(Len(s) + Len(t)) :
           (s \o t)[i] = IF i <= Len(s) THEN s[i] ELSE t[i - Len(s)]
  BY LenProperties, ConcatProperties
<1>2. DOMAIN (s \o t) = 1..(Len(s) + Len(t))
  BY <1>1, LenProperties
<1>3. \A i \in 1..Len(s) : i \in 1..(Len(s) + Len(t)) /\ (s \o t)[i] = s[i]
  BY <1>1
<1>4. \A i \in 1..Len(t) :
        i + Len(s) \in 1..(Len(s) + Len(t)) /\ (s \o t)[i + Len(s)] = t[i]
  BY <1>1
<1>5. \A i \in 1..(Len(s) + Len(t)) :
        i \in 1..Len(s) \/ (i > Len(s) /\ i - Len(s) \in 1..Len(t)
                            /\ (s \o t)[i] = t[i - Len(s)])
  BY <1>1
<1> QED  BY <1>1, <1>2, <1>3, <1>4, <1>5

\* Frames behind the header change nothing.
LEMMA OrderedConcat ==
  ASSUME NEW s \in Seq(Tokens), NEW t \in Seq(Tokens), Ordered(s),
         ~Has(t, "end"), ~Has(t, "TEARDOWN")
  PROVE  Ordered(s \o t)
<1>1. \A i \in DOMAIN (s \o t) :
        (s \o t)[i].k \in {"end", "TEARDOWN"} => i \in DOMAIN s /\ (s \o t)[i] = s[i]
  BY Places DEF Has
<1> QED  BY <1>1 DEF Ordered

\* A request goes behind a stream without a header.
LEMMA OrderedRequest ==
  ASSUME NEW s \in Seq(Tokens), ~Has(s, "end"), NEW i \in 1..Teardown
  PROVE  Ordered(s \o RequestTokens(i))
<1> DEFINE t == RequestTokens(i)
<1>1. /\ t \in Seq(Tokens) /\ HeaderLen(i) \in {2, 3}
      /\ \A j \in 1..Len(t) : t[j].k = "end" <=> j = HeaderLen(i)
      /\ \A j \in 1..Len(t) : t[j].k = "TEARDOWN" <=> (i = Teardown /\ j = 1)
  BY RequestTokensProperties
<1> HIDE DEF t
<1>2. /\ Len(s) \in Nat /\ DOMAIN s = 1..Len(s) /\ DOMAIN t = 1..Len(t)
      /\ DOMAIN (s \o t) = 1..(Len(s) + Len(t)) /\ Len(t) \in Nat
      /\ \A j \in DOMAIN s : (s \o t)[j] = s[j]
      /\ \A j \in DOMAIN (s \o t) :
              j \in DOMAIN s \/ (j > Len(s) /\ j - Len(s) \in DOMAIN t
                                 /\ (s \o t)[j] = t[j - Len(s)])
  BY <1>1, Places
<1>3. \A j \in DOMAIN (s \o t) : (s \o t)[j].k = "end" => j = Len(s) + HeaderLen(i)
  <2> TAKE j \in DOMAIN (s \o t)
  <2> HAVE (s \o t)[j].k = "end"
  <2>1. j \notin DOMAIN s
    BY <1>2 DEF Has
  <2>2. j - Len(s) = HeaderLen(i)
    BY <1>1, <1>2, <2>1
  <2> QED  BY <1>1, <1>2, <2>2
<1>4. \A j \in DOMAIN (s \o t) : (s \o t)[j].k = "TEARDOWN" => j <= Len(s) + 1
  <2> TAKE j \in DOMAIN (s \o t)
  <2> HAVE (s \o t)[j].k = "TEARDOWN"
  <2>1. j \in DOMAIN s \/ j - Len(s) = 1
    BY <1>1, <1>2
  <2> QED  BY <1>2, <2>1
<1>5. \A p, q \in DOMAIN (s \o t) :
        (s \o t)[p].k = "end" /\ (s \o t)[q].k = "end" => p = q
  BY <1>3
<1>6. \A p, q \in DOMAIN (s \o t) :
        (s \o t)[p].k = "TEARDOWN" /\ (s \o t)[q].k = "end" => p < q
  <2> TAKE p, q \in DOMAIN (s \o t)
  <2> HAVE (s \o t)[p].k = "TEARDOWN" /\ (s \o t)[q].k = "end"
  <2>1. p <= Len(s) + 1 /\ q = Len(s) + HeaderLen(i) /\ p \in Int
    BY <1>2, <1>3, <1>4
  <2> QED  BY <1>1, <1>2, <2>1
<1> QED  BY <1>5, <1>6 DEF Ordered, t

\* A stream that loses its beginning stays ordered, and loses the header with its end.
LEMMA OrderedShift ==
  ASSUME NEW s \in Seq(Tokens), NEW t \in Seq(Tokens), NEW k, Shifted(t, s, k), Ordered(s)
  PROVE  /\ Ordered(t)
         /\ \A e \in 1..k : e \in DOMAIN s /\ s[e].k = "end" => ~Has(t, "end")
<1>1. /\ DOMAIN s = 1..Len(s) /\ DOMAIN t = 1..Len(t) /\ Len(s) \in Nat /\ Len(t) \in Nat
      /\ k \in 0..Len(s)
      /\ \A i \in DOMAIN t : i + k \in DOMAIN s /\ t[i] = s[i + k]
  BY LenProperties DEF Shifted
<1>2. k \in Nat
  BY <1>1
<1>3. \A p, q \in DOMAIN t : t[p].k = "end" /\ t[q].k = "end" => p = q
  <2> TAKE p, q \in DOMAIN t
  <2> HAVE t[p].k = "end" /\ t[q].k = "end"
  <2>1. p + k = q + k
    BY <1>1 DEF Ordered
  <2> QED  BY <1>1, <1>2, <2>1
<1>4. \A p, q \in DOMAIN t : t[p].k = "TEARDOWN" /\ t[q].k = "end" => p < q
  <2> TAKE p, q \in DOMAIN t
  <2> HAVE t[p].k = "TEARDOWN" /\ t[q].k = "end"
  <2>1. p + k < q + k
    BY <1>1 DEF Ordered
  <2> QED  BY <1>1, <1>2, <2>1
<1>5. ASSUME NEW e \in 1..k, e \in DOMAIN s, s[e].k = "end", NEW i \in DOMAIN t, t[i].k = "end"
      PROVE  FALSE
  <2>1. e = i + k
    BY <1>1, <1>5 DEF Ordered
  <2> QED  BY <1>1, <1>2, <2>1
<1> QED  BY <1>3, <1>4, <1>5 DEF Ordered, Has

\* What a frame has, as long as no payload contains the end of a header.
LEMMA PlainFrame ==
  ASSUME NEW f \in 1..MaxFrames, NEW payload \in Payloads,
         ~ \E j \in DOMAIN payload : payload[j] # "byte"
  PROVE  /\ \A j \in 3..(2 + Len(payload)) : FrameTokens(f, payload)[j].k = "byte"
         /\ ~Has(FrameTokens(f, payload), "end") /\ ~Has(FrameTokens(f, payload), "TEARDOWN")
<1> DEFINE t == FrameTokens(f, payload)
<1>1. /\ t \in Seq(Tokens) /\ Len(payload) \in Nat \ {0} /\ DOMAIN payload = 1..Len(payload)
      /\ Len(t) = 2 + Len(payload)
      /\ t[1].k = "$" /\ t[2].k = "len"
      /\ \A j \in 3..(2 + Len(payload)) : /\ t[j].k = payload[j - 2]
                                          /\ payload[j - 2] \in {"byte", "end", "TEARDOWN"}
  BY FrameTokensProperties
<1>2. DOMAIN t = 1..(2 + Len(payload))
  BY <1>1, LenProperties
<1> HIDE DEF t
<1>3. \A j \in 3..(2 + Len(payload)) : j - 2 \in DOMAIN payload
  BY <1>1
<1>4. \A j \in 3..(2 + Len(payload)) : t[j].k = "byte"
  BY <1>1, <1>3
<1>5. \A j \in 1..(2 + Len(payload)) : j = 1 \/ j = 2 \/ j \in 3..(2 + Len(payload))
  BY <1>1
<1>6. \A j \in 1..(2 + Len(payload)) : t[j].k # "end" /\ t[j].k # "TEARDOWN"
  BY <1>1, <1>4, <1>5
<1> QED  BY <1>2, <1>4, <1>6 DEF Has, t

\* With one header in the stream a read throws nothing: a TEARDOWN is before the end
\* of its header.
LEMMA NothingThrown ==
  ASSUME TypeOK, Ordered(Pending), NEW size \in 1..Len(net), ReceiveItem(size)
  PROVE  LET b == Buffer(size) IN
         \/ /\ tryExtractRtsp(b).found /\ Has(b, "end")
            /\ recvBuffer' = tryExtractRtsp(b).left
            /\ HandleRequest(tryExtractRtsp(b).item)
         \/ /\ ~tryExtractRtsp(b).found
            /\ recvBuffer' = tryExtractInterleaved(b).left
            /\ garbled' = (garbled \/ (tryExtractInterleaved(b).found
                                         /\ ~IsFrame(tryExtractInterleaved(b).item)))
            /\ UNCHANGED <<stuck, handled, answers, peer, error, fault>>
<1> DEFINE b == Buffer(size)
           z == net'
<1>1. b \in Seq(Tokens) /\ z \in Seq(Tokens) /\ Pending = b \o z
  BY Read
<1>2. \/ tryExtractRtsp(b).found /\ tryExtractRtsp(b).throws
      \/ /\ tryExtractRtsp(b).found
         /\ recvBuffer' = tryExtractRtsp(b).left
         /\ HandleRequest(tryExtractRtsp(b).item)
      \/ /\ ~tryExtractRtsp(b).found
         /\ recvBuffer' = tryExtractInterleaved(b).left
         /\ garbled' = (garbled \/ (tryExtractInterleaved(b).found
                                      /\ ~IsFrame(tryExtractInterleaved(b).item)))
         /\ UNCHANGED <<stuck, handled, answers, peer, error, fault>>
  BY DEF ReceiveItem, Buffer
<1>3. tryExtractRtsp(b).found => Has(b, "end")
  BY <1>1, ExtractNoEnd
<1> HIDE DEF b, z
<1>4. ASSUME tryExtractRtsp(b).found
      PROVE  ~tryExtractRtsp(b).throws
  <2>1. Has(b, "end")
    BY <1>3, <1>4
  <2>2. CASE Has(b, "TEARDOWN")
    <3>1. /\ HeaderEnd(b) \in DOMAIN b /\ b[HeaderEnd(b)].k = "end"
          /\ LastTeardown(b) \in DOMAIN b /\ b[LastTeardown(b)].k = "TEARDOWN"
      BY <1>1, <2>1, <2>2, HeaderEndProperties, LastTeardownProperties
    <3>2. DOMAIN b = 1..Len(b) /\ \A i \in DOMAIN b : i \in DOMAIN Pending /\ Pending[i] = b[i]
      BY <1>1, Places
    <3>3. LastTeardown(b) < HeaderEnd(b)
      BY <3>1, <3>2 DEF Ordered
    <3>4. ~(LastTeardown(b) > HeaderEnd(b) + 1)
      BY <3>1, <3>2, <3>3
    <3> QED  BY <1>1, <2>1, <2>2, <3>4, ExtractTeardown
  <2>3. CASE ~Has(b, "TEARDOWN")
    BY <1>1, <2>1, <2>3, ExtractRequest
  <2> QED  BY <2>2, <2>3
<1> QED  BY <1>2, <1>3, <1>4 DEF b

\* The part that tryExtractInterleaved leaves.
LEMMA InterleavedRest ==
  ASSUME NEW b \in Seq(Tokens)
  PROVE  \/ tryExtractInterleaved(b).left = b
         \/ \E k \in Nat : IsRest(tryExtractInterleaved(b).left, b, k)
<1> QED  BY InterleavedLeavesRest

\* OneHeader is kept.
LEMMA OneHeaderStep ==
  ASSUME IInv, [Next]_vars, ~marked'
  PROVE  OneHeader'
<1> USE DEF IInv
<1>0. /\ recvBuffer \in Seq(Tokens) /\ net \in Seq(Tokens) /\ rest \in Seq(Tokens)
      /\ Pending \in Seq(Tokens) /\ Pending = recvBuffer \o net
  BY Basics DEF Pending
<1>1. CASE ReadResponse
  <2>0. answers # 0
    BY <1>1 DEF ReadResponse
  <2>1. Quiet /\ Pending' = Pending /\ answers' = 0 /\ fault' = fault
    BY <1>1, QuietSteps DEF ReadResponse
  <2>2. OneHeader
    BY <2>1 DEF Quiet
  <2>3. ~Has(Pending, "end")
    BY <2>0, <2>2 DEF OneHeader
  <2>4. ~Has(Pending', "end")
    BY <2>1, <2>3
  <2> QED  BY <2>1, <2>2, <2>4 DEF OneHeader, Quiet
<1>2. CASE CloseClient
  <2>1. Quiet /\ Pending' = Pending /\ UNCHANGED <<answers, waiting, fault>>
    BY <1>2, QuietSteps DEF CloseClient, clientVars
  <2>2. OneHeader
    BY <2>1 DEF Quiet
  <2>3. answers = 0 => peer' = "fin"
    BY <1>2, Basics DEF CloseClient
  <2> QED  BY <2>1, <2>2, <2>3 DEF OneHeader, Quiet
<1>3. CASE PeekError \/ HandleClose \/ UNCHANGED vars
  <2>1. Quiet /\ Pending' = Pending
    BY <1>3, QuietSteps
  <2>2. UNCHANGED <<answers, waiting, peer>> /\ fault' \in {fault, "handler"}
    BY <1>3 DEF PeekError, HandleClose, vars, clientVars
  <2>3. OneHeader
    BY <2>1 DEF Quiet
  <2> QED  BY <2>1, <2>2, <2>3 DEF OneHeader, Quiet
<1>4. CASE SendRequest
  <2>1. /\ asked + 1 \in 1..Teardown /\ rest' = rest
        /\ Pending' = Pending \o RequestTokens(asked + 1)
        /\ UNCHANGED <<marked, answers, peer, fault>>
    BY <1>4, WritingSteps
  <2>2. OneHeader
    BY <2>1
  <2>3. ~waiting /\ waiting' /\ peer = "open"
    BY <1>4 DEF SendRequest, ClientAlive
  <2>4. ~Has(Pending, "end") /\ answers = 0
    BY <2>2, <2>3 DEF OneHeader
  <2>5. Ordered(Pending')
    BY <1>0, <2>1, <2>4, OrderedRequest
  <2> QED  BY <2>1, <2>2, <2>3, <2>4, <2>5 DEF OneHeader
<1>5. CASE FinishFrame
  <2>1. /\ Pending' = Pending \o rest
        /\ UNCHANGED <<marked, answers, peer, fault, waiting>>
    BY <1>5, WritingSteps
  <2>2. rest' = <<>>
    BY <1>5 DEF FinishFrame
  <2>3. OneHeader
    BY <2>1
  <2>4. Ordered(Pending') /\ (Has(Pending', "end") => Has(Pending, "end"))
    BY <1>0, <2>1, <2>3, OrderedConcat, HasConcat DEF OneHeader
  <2>5. ~Has(rest', "end") /\ ~Has(rest', "TEARDOWN")
    BY <2>2 DEF Has
  <2> QED  BY <2>1, <2>3, <2>4, <2>5 DEF OneHeader
<1>6. ASSUME NEW payload \in Payloads, NEW cut \in 1..(2 + MaxPayload), SendFrame(payload, cut)
      PROVE  OneHeader'
  <2>1. PICK x, y \in Seq(Tokens) :
          /\ FrameTokens(frames + 1, payload) = x \o y
          /\ rest' = y
          /\ Pending' = Pending \o x
          /\ frames + 1 \in 1..MaxFrames
          /\ UNCHANGED <<answers, peer, fault, waiting>>
    BY <1>6, WritingSteps
  <2>2. ~marked /\ ~ \E j \in DOMAIN payload : payload[j] # "byte"
    BY <1>6 DEF SendFrame
  <2>3. OneHeader
    BY <2>2
  <2>4. ~Has(x \o y, "end") /\ ~Has(x \o y, "TEARDOWN")
    BY <2>1, <2>2, PlainFrame
  <2>5. ~Has(x, "end") /\ ~Has(x, "TEARDOWN") /\ ~Has(y, "end") /\ ~Has(y, "TEARDOWN")
    BY <2>4, HasConcat
  <2>6. Ordered(Pending') /\ (Has(Pending', "end") => Has(Pending, "end"))
    BY <1>0, <2>1, <2>3, <2>5, OrderedConcat, HasConcat DEF OneHeader
  <2> QED  BY <2>1, <2>3, <2>5, <2>6 DEF OneHeader
<1>7. ASSUME NEW size \in 1..Len(net), ReceiveItem(size)
      PROVE  OneHeader'
  <2> DEFINE b == Buffer(size)
             z == net'
  <2>1. UNCHANGED <<waiting, rest, marked>>
    BY <1>7 DEF ReceiveItem, clientVars
  <2>2. OneHeader
    BY <2>1
  <2>3. /\ b \in Seq(Tokens) /\ z \in Seq(Tokens) /\ Pending = b \o z
        /\ Pending' = recvBuffer' \o z
    BY <1>7, Read DEF Pending
  <2>4. \/ /\ tryExtractRtsp(b).found /\ Has(b, "end")
           /\ recvBuffer' = tryExtractRtsp(b).left
           /\ HandleRequest(tryExtractRtsp(b).item)
        \/ /\ ~tryExtractRtsp(b).found
           /\ recvBuffer' = tryExtractInterleaved(b).left
           /\ UNCHANGED <<answers, peer, fault>>
    BY <1>7, <2>2, NothingThrown DEF OneHeader
  <2> HIDE DEF b, z
  <2>5. CASE /\ tryExtractRtsp(b).found /\ Has(b, "end")
             /\ recvBuffer' = tryExtractRtsp(b).left
             /\ HandleRequest(tryExtractRtsp(b).item)
    <3>1. PICK k \in HeaderEnd(b)..Len(b) : IsRest(tryExtractRtsp(b).left, b, k)
      BY <2>3, <2>5, RtspLeavesRest
    <3>2. recvBuffer' \in Seq(Tokens) /\ Shifted(Pending', Pending, k)
      BY <2>3, <2>5, <3>1, RestIsShifted
    <3>3. Pending' \in Seq(Tokens)
      BY <2>3, <3>2, ConcatProperties
    <3>4. HeaderEnd(b) \in DOMAIN b /\ b[HeaderEnd(b)].k = "end"
      BY <2>3, <2>5, HeaderEndProperties
    <3>5. HeaderEnd(b) \in 1..k /\ HeaderEnd(b) \in DOMAIN Pending
          /\ Pending[HeaderEnd(b)].k = "end"
      <4>1. DOMAIN b = 1..Len(b) /\ Len(b) \in Nat
        BY <2>3, LenProperties
      <4>2. HeaderEnd(b) \in 1..k
        BY <3>1, <3>4, <4>1
      <4> QED  BY <2>3, <3>4, <4>2, Places
    <3>6. Ordered(Pending') /\ ~Has(Pending', "end")
      BY <1>0, <2>2, <3>2, <3>3, <3>5, OrderedShift DEF OneHeader
    <3>7. waiting /\ peer # "reset" /\ fault = "none"
      BY <1>7, <2>2, <3>5 DEF OneHeader, Has, ReceiveItem, LoopServes
    <3>8. fault' \in {"none", "handler"}
      <4>1. WriteTo(peer) # "dead"
        BY <3>7 DEF WriteTo, TypeOK
      <4>2. Respond => fault' = "none"
        BY <4>1 DEF Respond
      <4> QED  BY <2>5, <3>7, <4>2, HandlerCases
    <3> QED  BY <2>1, <2>2, <3>6, <3>7, <3>8 DEF OneHeader
  <2>6. CASE /\ recvBuffer' = tryExtractInterleaved(b).left
             /\ UNCHANGED <<answers, peer, fault>>
    <3>0. \/ tryExtractInterleaved(b).left = b
          \/ \E k \in Nat : IsRest(tryExtractInterleaved(b).left, b, k)
      BY <2>3, InterleavedRest
    <3>1. Pending' = Pending \/ \E k \in Nat : IsRest(recvBuffer', b, k)
      BY <2>3, <2>6, <3>0
    <3>2. Pending' = Pending \/ \E k \in Nat : Shifted(Pending', Pending, k)
                                               /\ Pending' \in Seq(Tokens)
      BY <2>3, <3>1, RestIsShifted, ConcatProperties
    <3>3. Ordered(Pending') /\ (Has(Pending', "end") => Has(Pending, "end"))
      BY <1>0, <2>2, <3>2, OrderedShift, ShiftedHas DEF OneHeader
    <3> QED  BY <2>1, <2>2, <2>6, <3>3 DEF OneHeader
  <2> QED  BY <2>4, <2>5, <2>6
<1> QED  BY <1>1, <1>2, <1>3, <1>4, <1>5, <1>6, <1>7 DEF Next, Client, Server

-----------------------------------------------------------------------------
(* Whole frames and requests.                                               *)

\* s has t from its element k + 1 on.
Holds(s, t, k) ==
  /\ k \in Nat
  /\ \A i \in DOMAIN t : i + k \in DOMAIN s /\ s[i + k] = t[i]

\* The numbers of a frame's tokens, moved by k.
LEMMA MovedNumbers ==
  ASSUME NEW p \in Nat, NEW n \in Nat, NEW k \in Nat
  PROVE  /\ (p + k) + 1 = (p + 1) + k /\ (p + k) + 1 + n = (p + 1 + n) + k
         /\ \A j \in (p + 2)..(p + 1 + n) : j \in p..(p + 1 + n)
         /\ \A j \in p..(p + 1 + n) : j + k \in (p + k)..((p + k) + 1 + n)
         /\ \A j \in (p + 2)..(p + 1 + n) : j + k \in ((p + k) + 2)..((p + k) + 1 + n)
         /\ \A j \in (p + k)..((p + k) + 1 + n) : j - k \in p..(p + 1 + n) /\ (j - k) + k = j
         /\ \A j \in ((p + k) + 2)..((p + k) + 1 + n) :
              j \in (p + k)..((p + k) + 1 + n) /\ j - k \in (p + 2)..(p + 1 + n)
OBVIOUS

\* A frame and a TEARDOWN in a part are in the whole.
LEMMA WholeInPart ==
  ASSUME NEW s \in Seq(Tokens), NEW t \in Seq(Tokens), NEW k, Holds(s, t, k),
         NEW p \in DOMAIN t
  PROVE  /\ FrameAt(t, p) => FrameAt(s, p + k)
         /\ TeardownAt(t, p) => TeardownAt(s, p + k)
<1>1. /\ DOMAIN s = 1..Len(s) /\ DOMAIN t = 1..Len(t) /\ Len(s) \in Nat /\ Len(t) \in Nat
      /\ k \in Nat /\ p \in Nat \ {0}
      /\ \A i \in DOMAIN t : i + k \in DOMAIN s /\ s[i + k] = t[i]
  BY LenProperties DEF Holds
<1>0. k \in Nat /\ p \in Nat
  BY <1>1
<1>2. ASSUME FrameAt(t, p)
      PROVE  FrameAt(s, p + k)
  <2> DEFINE n == t[p + 1].n
  <2>1. t[p + 1] \in Tokens
    BY <1>2, ElementOfSeq DEF FrameAt
  <2>2. n \in Nat
    BY <2>1 DEF Tokens
  <2>3. /\ p + 1 \in DOMAIN t /\ t[p + 1].k = "len" /\ p + 1 + n \in DOMAIN t
        /\ \A j \in p..(p + 1 + n) : t[j].id = t[p].id
        /\ \A j \in (p + 2)..(p + 1 + n) : t[j].k = "byte"
    BY <1>2 DEF FrameAt
  <2>10. n = t[p + 1].n
    OBVIOUS
  <2> HIDE DEF n
  <2>4. (p + k) + 1 = (p + 1) + k /\ (p + k) + 1 + n = (p + 1 + n) + k
    BY <1>0, <2>2, MovedNumbers
  <2>5. /\ s[(p + k) + 1] = t[p + 1]
        /\ (p + k) + 1 \in DOMAIN s /\ (p + k) + 1 + n \in DOMAIN s
    BY <1>1, <2>3, <2>4
  <2>6. \A j \in (p + k)..((p + k) + 1 + n) : j - k \in p..(p + 1 + n) /\ (j - k) + k = j
    BY <1>0, <2>2, MovedNumbers
  <2>11. \A i \in p..(p + 1 + n) : i \in DOMAIN t
    <3>1. p >= 1 /\ p + 1 + n <= Len(t) /\ Len(t) \in Nat /\ DOMAIN t = 1..Len(t)
      BY <1>1, <2>3
    <3> QED  BY <1>0, <2>2, <3>1
  <2>7. \A j \in (p + k)..((p + k) + 1 + n) : s[j] = t[j - k]
    BY <1>1, <2>6, <2>11
  <2>12. s[p + k] = t[p]
    BY <1>1
  <2>8. \A j \in (p + k)..((p + k) + 1 + n) : s[j].id = s[p + k].id
    BY <2>3, <2>6, <2>7, <2>12
  <2>9. \A j \in ((p + k) + 2)..((p + k) + 1 + n) : s[j].k = "byte"
    <3>1. \A j \in ((p + k) + 2)..((p + k) + 1 + n) :
            j \in (p + k)..((p + k) + 1 + n) /\ j - k \in (p + 2)..(p + 1 + n)
      BY <1>0, <2>2, MovedNumbers
    <3> QED  BY <2>3, <2>7, <3>1
  <2> QED  BY <2>3, <2>5, <2>8, <2>9, <2>10 DEF FrameAt
<1>3. ASSUME TeardownAt(t, p)
      PROVE  TeardownAt(s, p + k)
  <2>0. p - 2 \in DOMAIN t
    BY <1>3 DEF TeardownAt
  <2>1. /\ p - 2 \in DOMAIN t /\ p - 1 \in DOMAIN t
        /\ (p - 2) + k = (p + k) - 2 /\ (p - 1) + k = (p + k) - 1
    BY <1>0, <1>1, <2>0
  <2>2. /\ s[(p + k) - 2] = t[p - 2] /\ s[(p + k) - 1] = t[p - 1] /\ s[p + k] = t[p]
        /\ (p + k) - 2 \in DOMAIN s /\ p + k \in DOMAIN s
    BY <1>1, <2>1
  <2> QED  BY <1>3, <2>2 DEF TeardownAt
<1> QED  BY <1>2, <1>3

\* What is put together of whole items is whole.
LEMMA WholeConcat ==
  ASSUME NEW s \in Seq(Tokens), NEW t \in Seq(Tokens), Whole(s), Whole(t)
  PROVE  Whole(s \o t)
<1>1. /\ Len(s) \in Nat /\ Len(t) \in Nat /\ DOMAIN s = 1..Len(s) /\ DOMAIN t = 1..Len(t)
      /\ s \o t \in Seq(Tokens)
      /\ \A i \in DOMAIN s : i \in DOMAIN (s \o t) /\ (s \o t)[i] = s[i]
      /\ \A i \in DOMAIN t : i + Len(s) \in DOMAIN (s \o t) /\ (s \o t)[i + Len(s)] = t[i]
      /\ \A i \in DOMAIN (s \o t) :
           i \in DOMAIN s \/ (i > Len(s) /\ i - Len(s) \in DOMAIN t
                              /\ (s \o t)[i] = t[i - Len(s)])
  BY Places
<1>2. DOMAIN (s \o t) = 1..(Len(s) + Len(t))
  BY Places
<1> DEFINE u == s \o t
<1>3. Holds(u, s, 0) /\ Holds(u, t, Len(s))
  <2>1. \A i \in DOMAIN s : i + 0 = i
    BY <1>1
  <2> QED  BY <1>1, <2>1 DEF Holds
<1> HIDE DEF u
<1>4. u \in Seq(Tokens)
  BY <1>1 DEF u
<1>5. ASSUME NEW i \in DOMAIN u
      PROVE  /\ u[i].k = "$" => FrameAt(u, i)
             /\ u[i].k = "end" => TeardownAt(u, i)
  <2>1. CASE i \in DOMAIN s
    <3>1. u[i] = s[i] /\ i + 0 = i
      BY <1>1, <2>1 DEF u
    <3>2. /\ FrameAt(s, i) => FrameAt(u, i + 0)
          /\ TeardownAt(s, i) => TeardownAt(u, i + 0)
      BY <1>3, <1>4, <2>1, WholeInPart
    <3> QED  BY <2>1, <3>1, <3>2 DEF Whole
  <2>2. CASE i - Len(s) \in DOMAIN t /\ u[i] = t[i - Len(s)]
    <3>1. (i - Len(s)) + Len(s) = i
      BY <1>1, <1>2 DEF u
    <3>2. /\ FrameAt(t, i - Len(s)) => FrameAt(u, (i - Len(s)) + Len(s))
          /\ TeardownAt(t, i - Len(s)) => TeardownAt(u, (i - Len(s)) + Len(s))
      BY <1>3, <1>4, <2>2, WholeInPart
    <3> QED  BY <2>2, <3>1, <3>2 DEF Whole
  <2> QED  BY <1>1, <2>1, <2>2 DEF u
<1>6. Whole(u)
  BY <1>5 DEF Whole
<1> QED  BY <1>6 DEF u

\* Nothing, TEARDOWN and a frame without the end of a header in it are whole.
LEMMA WholeItems ==
  /\ Whole(<<>>) /\ Whole(RequestTokens(Teardown))
  /\ \A f \in 1..MaxFrames, payload \in Payloads :
       (~ \E j \in DOMAIN payload : payload[j] # "byte") => Whole(FrameTokens(f, payload))
<1>1. Whole(<<>>)
  BY DEF Whole
<1>2. Whole(RequestTokens(Teardown))
  <2> DEFINE t == RequestTokens(Teardown)
  <2>1. Teardown \in 1..Teardown /\ Body(Teardown) = 0 /\ HeaderLen(Teardown) = 3
    BY Constants DEF Body, HeaderLen
  <2>2. /\ t \in Seq(Tokens) /\ Len(t) = 3
        /\ \A j \in 1..3 : (t[j].k = "end" <=> j = 3) /\ t[j].k # "$"
    <3>1. t \in Seq(Tokens) /\ Len(t) = HeaderLen(Teardown) + Body(Teardown)
      BY <2>1, RequestTokensProperties
    <3>2. \A j \in 1..Len(t) : t[j].k = "end" <=> j = HeaderLen(Teardown)
      BY <2>1, RequestTokensProperties
    <3>3. \A j \in 1..Len(t) : t[j].k # "$"
      BY <2>1, RequestTokensProperties
    <3> HIDE DEF t
    <3>4. Len(t) = 3
      BY <2>1, <3>1
    <3> QED  BY <2>1, <3>1, <3>2, <3>3, <3>4
  <2>6. /\ t[1] = Token("TEARDOWN", 0, Teardown)
        /\ t[2] = Token("line", 0, Teardown)
        /\ t[3] = Token("end", 0, Teardown)
    BY <2>1, RequestTokensProperties, SMTT(30)
  <2> HIDE DEF t
  <2>3. DOMAIN t = 1..3 /\ Len(t) = 3
    BY <2>1, <2>2, LenProperties
  <2>4. TeardownAt(t, 3)
    BY <2>3, <2>6 DEF TeardownAt
  <2>5. Whole(t)
    BY <2>1, <2>2, <2>3, <2>4 DEF Whole
  <2> QED  BY <2>5 DEF t
<1>3. ASSUME NEW f \in 1..MaxFrames, NEW payload \in Payloads,
             ~ \E j \in DOMAIN payload : payload[j] # "byte"
      PROVE  Whole(FrameTokens(f, payload))
  <2> DEFINE t == FrameTokens(f, payload)
             n == Len(payload)
  <2>1. /\ t \in Seq(Tokens) /\ n \in Nat /\ Len(t) = 2 + n
        /\ t[2].k = "len" /\ t[2].n = n
        /\ \A j \in 1..(2 + n) : t[j].id = FrameId(f)
    BY FrameTokensProperties
  <2>2. /\ \A j \in 3..(2 + n) : t[j].k = "byte"
        /\ ~Has(t, "end")
    BY <1>3, PlainFrame
  <2> HIDE DEF t, n
  <2>3. DOMAIN t = 1..(2 + n)
    BY <2>1, LenProperties
  <2>4. \A j \in 1..(2 + n) : j = 1 \/ j = 2 \/ j \in 3..(2 + n)
    BY <2>1
  <2>5. \A j \in DOMAIN t : t[j].k = "$" => j = 1
    BY <2>1, <2>2, <2>3, <2>4
  <2>6. FrameAt(t, 1)
    <3>1. 2 \in DOMAIN t /\ 2 + n \in DOMAIN t /\ 1 + 1 = 2 /\ 1 \in 1..(2 + n) /\ 1 + 2 = 3
      BY <2>1, <2>3
    <3>2. \A j \in 1..(2 + n) : t[j].id = t[1].id
      BY <2>1, <3>1
    <3> QED  BY <2>1, <2>2, <3>1, <3>2 DEF FrameAt
  <2>7. Whole(t)
    BY <2>2, <2>5, <2>6 DEF Whole, Has
  <2> QED  BY <2>7 DEF t
<1> QED  BY <1>1, <1>2, <1>3

\* A stream that loses its beginning stays whole, when no TEARDOWN is cut in two.
LEMMA WholeShift ==
  ASSUME NEW s \in Seq(Tokens), NEW t \in Seq(Tokens), NEW k, Shifted(t, s, k), Whole(s),
         \A q \in DOMAIN s : s[q].k = "end" /\ q > k => q - 2 > k
  PROVE  Whole(t)
<1>1. /\ DOMAIN s = 1..Len(s) /\ DOMAIN t = 1..Len(t) /\ Len(s) \in Nat /\ Len(t) \in Nat
      /\ k \in 0..Len(s) /\ Len(t) = Len(s) - k
      /\ \A i \in DOMAIN t : i + k \in DOMAIN s /\ t[i] = s[i + k]
  BY LenProperties DEF Shifted
<1>2. k \in Nat
  BY <1>1
<1>3. \A j \in Int : j + k \in DOMAIN s /\ j > 0 => j \in DOMAIN t
  BY <1>1, <1>2
<1>4. ASSUME NEW p \in DOMAIN t, t[p].k = "$"
      PROVE  FrameAt(t, p)
  <2>1. FrameAt(s, p + k)
    BY <1>1, <1>4 DEF Whole
  <2> DEFINE n == s[(p + k) + 1].n
  <2>2. /\ (p + k) + 1 \in DOMAIN s /\ s[(p + k) + 1].k = "len" /\ (p + k) + 1 + n \in DOMAIN s
        /\ \A j \in (p + k)..((p + k) + 1 + n) : s[j].id = s[p + k].id
        /\ \A j \in ((p + k) + 2)..((p + k) + 1 + n) : s[j].k = "byte"
    BY <2>1 DEF FrameAt
  <2>3. s[(p + k) + 1] \in Tokens
    BY <2>2, ElementOfSeq
  <2>4. n \in Nat
    BY <2>3 DEF Tokens
  <2>5. p \in Nat \ {0} /\ (p + k) + 1 = (p + 1) + k
    BY <1>1, <1>2
  <2>12. n = s[(p + k) + 1].n
    OBVIOUS
  <2>6. p + 1 \in DOMAIN t /\ t[p + 1] = s[(p + k) + 1]
    BY <1>1, <1>3, <2>2, <2>5
  <2> HIDE DEF n
  <2>7. p + 1 + n \in DOMAIN t
    <3>1. p + 1 + n \in Int /\ p + 1 + n > 0
      BY <2>4, <2>5
    <3>2. (p + 1 + n) + k = (p + k) + 1 + n
      BY <1>2, <2>4, <2>5
    <3> QED  BY <1>3, <2>2, <3>1, <3>2
  <2>8. \A j \in p..(p + 1 + n) :
          /\ j + k \in (p + k)..((p + k) + 1 + n)
          /\ j \in (p + 2)..(p + 1 + n) => j + k \in ((p + k) + 2)..((p + k) + 1 + n)
    <3>1. p \in Nat /\ k \in Nat /\ n \in Nat
      BY <1>2, <2>4, <2>5
    <3> QED  BY <3>1, MovedNumbers
  <2>13. \A j \in p..(p + 1 + n) : j \in DOMAIN t
    <3>1. p >= 1 /\ p + 1 + n <= Len(t) /\ Len(t) \in Nat /\ DOMAIN t = 1..Len(t)
          /\ p \in Nat
      BY <1>1, <2>5, <2>7
    <3> QED  BY <2>4, <3>1
  <2>9. \A j \in p..(p + 1 + n) : t[j] = s[j + k]
    BY <1>1, <2>13
  <2>10. \A j \in p..(p + 1 + n) : t[j].id = t[p].id
    BY <1>1, <2>2, <2>8, <2>9
  <2>11. \A j \in (p + 2)..(p + 1 + n) : t[j].k = "byte"
    <3>0. p \in Nat
      BY <2>5
    <3>1. \A j \in (p + 2)..(p + 1 + n) : j \in p..(p + 1 + n)
      BY <1>2, <2>4, <3>0, MovedNumbers
    <3> QED  BY <2>2, <2>8, <2>9, <3>1
  <2> QED  BY <2>2, <2>6, <2>7, <2>10, <2>11, <2>12 DEF FrameAt
<1>5. ASSUME NEW q \in DOMAIN t, t[q].k = "end"
      PROVE  TeardownAt(t, q)
  <2>1. TeardownAt(s, q + k) /\ q + k \in DOMAIN s /\ s[q + k].k = "end"
    BY <1>1, <1>5 DEF Whole
  <2>2. (q + k) - 2 > k
    <3>1. q + k > k
      BY <1>1, <1>2
    <3> QED  BY <2>1, <3>1
  <2>3. q - 2 \in DOMAIN t /\ q - 1 \in DOMAIN t
        /\ (q - 2) + k = (q + k) - 2 /\ (q - 1) + k = (q + k) - 1
    <3>1. q \in 1..Len(t) /\ DOMAIN t = 1..Len(t) /\ Len(t) \in Nat
      BY <1>1
    <3>2. q - 2 > 0 /\ q \in Nat
      BY <1>2, <2>2, <3>1
    <3>3. (q - 2) + k = (q + k) - 2 /\ (q - 1) + k = (q + k) - 1
      BY <1>2, <3>2, SMTT(30)
    <3>4. q - 2 \in 1..Len(t) /\ q - 1 \in 1..Len(t)
      BY <3>1, <3>2
    <3> QED  BY <3>1, <3>3, <3>4
  <2>4. t[q - 2] = s[(q + k) - 2] /\ t[q - 1] = s[(q + k) - 1] /\ t[q] = s[q + k]
    BY <1>1, <2>3
  <2> QED  BY <2>1, <2>3, <2>4 DEF TeardownAt
<1> QED  BY <1>4, <1>5 DEF Whole

\* A buffer with the end of TEARDOWN: it is taken as it was sent.
LEMMA TeardownIsTaken ==
  ASSUME TypeOK, OneHeader, Whole(Stream), NEW size \in 1..Len(net), ReceiveItem(size),
         Has(Buffer(size), "end")
  PROVE  LET b == Buffer(size) IN
         /\ tryExtractRtsp(b).item = RequestTokens(Teardown)
         /\ tryExtractRtsp(b).left = <<>>
<1> DEFINE b == Buffer(size)
           e == HeaderEnd(b)
           z == net'
<1>1. /\ b \in Seq(Tokens) /\ z \in Seq(Tokens) /\ rest \in Seq(Tokens)
      /\ Pending = b \o z /\ Stream = b \o (z \o rest) /\ Has(b, "end")
  BY Read DEF TypeOK
<1> HIDE DEF b, z
<1>2. /\ e \in DOMAIN b /\ b[e].k = "end"
  BY <1>1, HeaderEndProperties
<1> HIDE DEF e
<1>3. /\ DOMAIN b = 1..Len(b) /\ Len(b) \in Nat
      /\ \A i \in DOMAIN b : i \in DOMAIN Pending /\ Pending[i] = b[i]
  BY <1>1, Places
<1>4. \A i \in DOMAIN b : i \in DOMAIN Stream /\ Stream[i] = b[i]
  <2> DEFINE w == z \o rest
  <2>1. w \in Seq(Tokens) /\ Stream = b \o w
    BY <1>1, ConcatProperties
  <2> HIDE DEF w
  <2> QED  BY <1>1, <2>1, Places
<1>5. TeardownAt(Stream, e)
  BY <1>2, <1>4 DEF Whole
<1>6. e - 2 \in DOMAIN Stream
  BY <1>5 DEF TeardownAt
<1>7. DOMAIN Stream = 1..Len(Stream)
  BY Basics, LenProperties
<1>8. e - 2 \in DOMAIN b /\ e - 1 \in DOMAIN b
  BY <1>2, <1>3, <1>6, <1>7
<1>9. /\ b[e - 2] = Token("TEARDOWN", 0, Teardown)
      /\ b[e - 1] = Token("line", 0, Teardown)
      /\ b[e] = Token("end", 0, Teardown)
  BY <1>2, <1>4, <1>5, <1>8 DEF TeardownAt
<1>10. b[e - 2].k = "TEARDOWN" /\ b[e - 1].k = "line"
  BY <1>9 DEF Token
<1>11. Has(b, "TEARDOWN")
  BY <1>8, <1>10 DEF Has
<1>12. LastTeardown(b) = e - 2
  <2>1. /\ LastTeardown(b) \in DOMAIN b /\ b[LastTeardown(b)].k = "TEARDOWN"
        /\ LastTeardown(b) >= e - 2
    BY <1>1, <1>8, <1>10, <1>11, LastTeardownProperties
  <2>2. LastTeardown(b) < e
    BY <1>2, <1>3, <2>1 DEF OneHeader, Ordered
  <2>3. LastTeardown(b) # e - 1
    BY <1>10, <2>1
  <2> QED  BY <1>2, <1>3, <2>1, <2>2, <2>3
<1>13. tryExtractRtsp(b).item = SubSeq(b, e - 2, e) /\ tryExtractRtsp(b).left = <<>>
  BY <1>1, <1>11, <1>12, ExtractTeardown DEF e
<1>14. SubSeq(b, e - 2, e) = RequestTokens(Teardown)
  <2> DEFINE s == SubSeq(b, e - 2, e)
             t == RequestTokens(Teardown)
  <2>1. e - 2 \in Nat \ {0} /\ e \in 0..Len(b) /\ e - 2 <= e + 1 /\ (e - (e - 2)) + 1 = 3
    BY <1>2, <1>3, <1>8
  <2>2. /\ s \in Seq(Tokens) /\ Len(s) = (e - (e - 2)) + 1
        /\ \A i \in 1..((e - (e - 2)) + 1) : s[i] = b[i + (e - 2) - 1]
    BY <1>1, <2>1, Part
  <2>3. /\ 1 + (e - 2) - 1 = e - 2 /\ 2 + (e - 2) - 1 = e - 1 /\ 3 + (e - 2) - 1 = e
    BY <1>2, <1>3
  <2>4. Len(s) = 3 /\ s[1] = b[e - 2] /\ s[2] = b[e - 1] /\ s[3] = b[e]
    <3> HIDE DEF s
    <3> QED  BY <2>1, <2>2, <2>3
  <2>5. Teardown \in 1..Teardown /\ Body(Teardown) = 0 /\ HeaderLen(Teardown) = 3
    BY Constants DEF Body, HeaderLen
  <2>6. /\ t \in Seq(Tokens) /\ Len(t) = HeaderLen(Teardown) + Body(Teardown)
        /\ t[1] = Token("TEARDOWN", 0, Teardown)
        /\ t[2] = Token("line", 0, Teardown)
        /\ t[3] = Token("end", 0, Teardown)
    BY <2>5, RequestTokensProperties
  <2> HIDE DEF s, t
  <2>7. Len(t) = 3
    BY <2>5, <2>6
  <2>8. \A i \in 1..Len(s) : s[i] = t[i]
    <3>1. \A i \in 1..Len(s) : i = 1 \/ i = 2 \/ i = 3
      BY <2>4
    <3> QED  BY <1>9, <2>4, <2>6, <3>1
  <2>9. s = t
    BY <2>2, <2>4, <2>6, <2>7, <2>8, SeqEqual
  <2> QED  BY <2>9 DEF s, t
<1> QED  BY <1>13, <1>14 DEF b

\* A buffer without: a whole frame is taken, or nothing.
LEMMA WholeFrameIsTaken ==
  ASSUME TypeOK, Whole(Stream), NEW size \in 1..Len(net), ReceiveItem(size)
  PROVE  LET b == Buffer(size)
             f == tryExtractInterleaved(b)
         IN \/ ~f.found /\ f.left = b
            \/ /\ f.found /\ IsFrame(f.item)
               /\ IsRest(f.left, b, FrameEnd(b))
               /\ FrameEnd(b) \in DOMAIN b /\ FrameEnd(b) >= 2
               /\ \A i \in 2..FrameEnd(b) : b[i].k \in {"len", "byte"}
               /\ b[1].k = "$"
<1> DEFINE b == Buffer(size)
           f == tryExtractInterleaved(b)
           w == net' \o rest
<1>1. b \in Seq(Tokens) /\ w \in Seq(Tokens) /\ Stream = b \o w
  BY Read, ConcatProperties DEF TypeOK
<1>2. \/ ~f.found /\ f.left = b
      \/ /\ ~f.found /\ IsRest(f.left, b, 1)
         /\ 1 \in DOMAIN b /\ 2 \in DOMAIN b /\ b[1].k = "$" /\ b[2].k # "len"
      \/ /\ f.found /\ IsRest(f.left, b, FrameEnd(b))
         /\ f.item = SubSeq(b, 1, FrameEnd(b))
         /\ 1 \in DOMAIN b /\ 2 \in DOMAIN b /\ b[1].k = "$" /\ b[2].k = "len"
         /\ FrameEnd(b) \in 2..Len(b)
  BY <1>1, InterleavedLeavesRest
<1> HIDE DEF b, f, w
<1>3. /\ DOMAIN b = 1..Len(b) /\ Len(b) \in Nat
      /\ \A i \in DOMAIN b : i \in DOMAIN Stream /\ Stream[i] = b[i]
  BY <1>1, Places
<1> SUFFICES ASSUME 1 \in DOMAIN b, 2 \in DOMAIN b, b[1].k = "$",
                    b[2].k = "len" =>
                       /\ f.found /\ IsRest(f.left, b, FrameEnd(b))
                       /\ f.item = SubSeq(b, 1, FrameEnd(b))
                       /\ FrameEnd(b) \in 2..Len(b)
             PROVE  /\ f.found /\ IsFrame(f.item)
                    /\ IsRest(f.left, b, FrameEnd(b))
                    /\ FrameEnd(b) \in DOMAIN b /\ FrameEnd(b) >= 2
                    /\ \A i \in 2..FrameEnd(b) : b[i].k \in {"len", "byte"}
  BY <1>2 DEF b, f
<1>4. FrameAt(Stream, 1)
  BY <1>3 DEF Whole
<1>5. /\ b[2].k = "len"
      /\ \A j \in 1..(1 + 1 + b[2].n) : Stream[j].id = b[1].id
      /\ \A j \in (1 + 2)..(1 + 1 + b[2].n) : Stream[j].k = "byte"
  <2>1. Stream[1 + 1] = b[2] /\ Stream[1] = b[1]
    BY <1>3
  <2> QED  BY <1>4, <2>1 DEF FrameAt
<1>6. /\ f.found /\ IsRest(f.left, b, FrameEnd(b))
      /\ f.item = SubSeq(b, 1, FrameEnd(b))
      /\ FrameEnd(b) \in 2..Len(b)
  BY <1>5
<1>7. FrameEnd(b) = 1 + 1 + b[2].n
  <2>1. b[2] \in Tokens
    BY <1>1, ElementOfSeq
  <2> QED  BY <2>1 DEF FrameEnd, Tokens
<1>8. \A j \in 1..FrameEnd(b) : j \in DOMAIN b
  BY <1>3, <1>6
<1>9. \A j \in 1..FrameEnd(b) : b[j].id = b[1].id
  BY <1>3, <1>5, <1>7, <1>8
<1>10. \A j \in 2..FrameEnd(b) : b[j].k \in {"len", "byte"}
  <2>1. \A j \in 2..FrameEnd(b) : (j = 2 \/ j \in (1 + 2)..FrameEnd(b)) /\ j \in 1..FrameEnd(b)
    BY <1>3, <1>6
  <2> QED  BY <1>3, <1>5, <1>7, <1>8, <2>1
<1>11. IsFrame(f.item)
  <2> DEFINE s == SubSeq(b, 1, FrameEnd(b))
             n == FrameEnd(b)
  <2>1. n \in 0..Len(b) /\ 1 \in Nat \ {0} /\ 1 <= n + 1 /\ n \in Nat /\ n >= 2
    BY <1>3, <1>6
  <2>2. /\ s \in Seq(Tokens) /\ Len(s) = (n - 1) + 1 /\ DOMAIN s = 1..((n - 1) + 1)
        /\ \A i \in 1..((n - 1) + 1) : s[i] = b[i + 1 - 1]
    BY <1>1, <2>1, Part
  <2> HIDE DEF s, n
  <2>3. (n - 1) + 1 = n /\ 1 \in 1..n
    BY <2>1
  <2>4. \A i \in 1..n : s[i] = b[i]
    <3>1. \A i \in 1..n : i + 1 - 1 = i
      BY <2>1
    <3> QED  BY <2>2, <2>3, <3>1
  <2>5. \A i \in DOMAIN s : s[i].id = s[1].id
    BY <1>9, <2>2, <2>3, <2>4 DEF n
  <2>6. s # <<>>
    BY <2>2, <2>3, EmptySeq
  <2>7. f.item = s
    BY <1>6 DEF s
  <2> QED  BY <2>5, <2>6, <2>7 DEF IsFrame
<1>12. FrameEnd(b) \in DOMAIN b /\ FrameEnd(b) >= 2
  BY <1>3, <1>6
<1> QED  BY <1>6, <1>10, <1>11, <1>12

\* Behind a buffer with the end of a header there is no other.
LEMMA NoEndBehind ==
  ASSUME NEW b \in Seq(Tokens), NEW z \in Seq(Tokens), Ordered(b \o z), Has(b, "end")
  PROVE  ~Has(z, "end")
<1>1. PICK i \in DOMAIN b : b[i].k = "end"
  BY DEF Has
<1>2. /\ Len(b) \in Nat /\ DOMAIN b = 1..Len(b) /\ DOMAIN z = 1..Len(z) /\ Len(z) \in Nat
      /\ i \in DOMAIN (b \o z) /\ (b \o z)[i] = b[i]
      /\ \A j \in DOMAIN z : j + Len(b) \in DOMAIN (b \o z) /\ (b \o z)[j + Len(b)] = z[j]
  BY Places
<1>3. ASSUME NEW j \in DOMAIN z, z[j].k = "end"
      PROVE  FALSE
  <2>1. i = j + Len(b)
    BY <1>1, <1>2, <1>3 DEF Ordered
  <2> QED  BY <1>2, <2>1
<1> QED  BY <1>3 DEF Has

\* The stream after a read.
LEMMA StreamAfterRead ==
  ASSUME TypeOK, NEW size \in 1..Len(net), ReceiveItem(size), recvBuffer' \in Seq(Tokens)
  PROVE  Stream' = recvBuffer' \o (net' \o rest)
<1> DEFINE a == recvBuffer'
           z == net'
<1>1. a \in Seq(Tokens) /\ z \in Seq(Tokens) /\ rest \in Seq(Tokens)
  BY Read DEF TypeOK
<1>2. rest' = rest
  BY DEF ReceiveItem, clientVars
<1>3. Stream' = (a \o z) \o rest
  BY <1>2 DEF Stream, Pending
<1> HIDE DEF a, z
<1>4. Stream' = a \o (z \o rest)
  BY <1>1, <1>3, Assoc
<1> QED  BY <1>4 DEF a, z

\* A read takes a whole item and leaves whole items.
LEMMA WholeReceive ==
  ASSUME TypeOK, OneHeader, AfterDialogue, frames > 0, ItemsWhole,
         NEW size \in 1..Len(net), ReceiveItem(size)
  PROVE  ItemsWhole' /\ garbled' = garbled
<1> DEFINE b == Buffer(size)
           w == net' \o rest
<1>1. b \in Seq(Tokens) /\ net' \in Seq(Tokens) /\ w \in Seq(Tokens) /\ Stream = b \o w
      /\ Pending = b \o net'
  BY Read, ConcatProperties DEF TypeOK
<1>2. \/ /\ tryExtractRtsp(b).found /\ Has(b, "end")
         /\ recvBuffer' = tryExtractRtsp(b).left
         /\ HandleRequest(tryExtractRtsp(b).item)
      \/ /\ ~tryExtractRtsp(b).found
         /\ recvBuffer' = tryExtractInterleaved(b).left
         /\ garbled' = (garbled \/ (tryExtractInterleaved(b).found
                                      /\ ~IsFrame(tryExtractInterleaved(b).item)))
         /\ UNCHANGED <<stuck, handled, answers, peer, error, fault>>
  BY NothingThrown DEF OneHeader
<1>3. recvBuffer' \in Seq(Tokens) => Stream' = recvBuffer' \o w
  BY StreamAfterRead
<1>4. UNCHANGED <<asked, rest>> /\ garbled \in BOOLEAN
  BY DEF ReceiveItem, clientVars, TypeOK
<1>5. Stream \in Seq(Tokens) /\ asked \in Nat /\ handled \in Nat /\ Len(Requests) \in Nat
      /\ Teardown = Len(Requests) + 1
  BY Basics, Constants
<1>6. CASE /\ tryExtractRtsp(b).found /\ Has(b, "end")
           /\ recvBuffer' = tryExtractRtsp(b).left
           /\ HandleRequest(tryExtractRtsp(b).item)
  <2>1. /\ tryExtractRtsp(b).item = RequestTokens(Teardown)
        /\ recvBuffer' = <<>>
    BY <1>6, TeardownIsTaken DEF ItemsWhole
  <2>2. ~Has(w, "end")
    <3> DEFINE z == net'
    <3>1. ~Has(z, "end")
      <4>1. Ordered(b \o z)
        BY <1>1 DEF OneHeader
      <4> HIDE DEF b, z
      <4>2. b \in Seq(Tokens) /\ z \in Seq(Tokens)
        BY <1>1 DEF z
      <4> QED  BY <1>6, <4>1, <4>2, NoEndBehind
    <3>2. ~Has(rest, "end") /\ rest \in Seq(Tokens)
      BY DEF OneHeader, TypeOK
    <3>3. z \in Seq(Tokens) /\ w = z \o rest
      BY <1>1
    <3> HIDE DEF w, z
    <3> QED  BY <3>1, <3>2, <3>3, HasConcat
  <2> HIDE DEF b, w
  <2>3. Has(Stream, "end")
    BY <1>1, <1>6, HasConcat
  <2>4. handled = Len(Requests) /\ asked = Teardown
    BY <2>3 DEF ItemsWhole
  <2>5. IsNextRequest(tryExtractRtsp(b).item)
    BY <1>5, <2>1, <2>4 DEF IsNextRequest
  <2>6. garbled' = garbled
    BY <1>4, <1>6, <2>5 DEF HandleRequest
  <2>7. Stream' = w
    <3>1. recvBuffer' \in Seq(Tokens)
      BY <2>1, EmptySeq
    <3>2. Stream' = <<>> \o w
      BY <1>3, <2>1, <3>1
    <3> QED  BY <1>1, <3>2, ConcatEmptySeq
  <2>8. Whole(w)
    <3>1. /\ Len(b) \in Nat /\ DOMAIN b = 1..Len(b) /\ DOMAIN w = 1..Len(w) /\ Len(w) \in Nat
          /\ \A i \in DOMAIN w : i + Len(b) \in DOMAIN Stream /\ Stream[i + Len(b)] = w[i]
          /\ Len(Stream) = Len(b) + Len(w)
          /\ \A i \in DOMAIN Stream :
               i \in DOMAIN b \/ (i > Len(b) /\ i - Len(b) \in DOMAIN w
                                  /\ Stream[i] = w[i - Len(b)])
      BY <1>1, Places, SMTT(30)
    <3>2. Shifted(w, Stream, Len(b))
      <4>0. Len(b) \in Nat /\ Len(w) \in Nat /\ Len(Stream) = Len(b) + Len(w)
        BY <3>1
      <4>1. Len(b) \in 0..Len(Stream) /\ Len(w) = Len(Stream) - Len(b)
        BY <4>0
      <4>2. DOMAIN Stream = 1..Len(Stream)
        BY <1>5, LenProperties
      <4> QED  BY <3>1, <4>1, <4>2 DEF Shifted
    <3>3. \A q \in DOMAIN Stream : ~(Stream[q].k = "end" /\ q > Len(b))
      <4> SUFFICES ASSUME NEW q \in DOMAIN Stream, Stream[q].k = "end", q > Len(b)
                   PROVE  FALSE
        OBVIOUS
      <4>1. \/ q \in DOMAIN b
            \/ q - Len(b) \in DOMAIN w /\ Stream[q] = w[q - Len(b)]
        BY <3>1
      <4>2. q \notin DOMAIN b
        BY <3>1
      <4> QED  BY <2>2, <4>1, <4>2 DEF Has
    <3> QED  BY <1>1, <1>5, <3>2, <3>3, WholeShift DEF ItemsWhole
  <2>9. asked' # Len(Requests)
    BY <1>4, <1>5, <2>4
  <2> QED  BY <2>2, <2>6, <2>7, <2>8, <2>9 DEF ItemsWhole
<1>7. CASE /\ ~tryExtractRtsp(b).found
           /\ recvBuffer' = tryExtractInterleaved(b).left
           /\ garbled' = (garbled \/ (tryExtractInterleaved(b).found
                                        /\ ~IsFrame(tryExtractInterleaved(b).item)))
           /\ UNCHANGED <<stuck, handled, answers, peer, error, fault>>
  <2> DEFINE f == tryExtractInterleaved(b)
  <2>1. \/ ~f.found /\ f.left = b
        \/ /\ f.found /\ IsFrame(f.item)
           /\ IsRest(f.left, b, FrameEnd(b))
           /\ FrameEnd(b) \in DOMAIN b /\ FrameEnd(b) >= 2
           /\ \A i \in 2..FrameEnd(b) : b[i].k \in {"len", "byte"}
           /\ b[1].k = "$"
    BY WholeFrameIsTaken DEF ItemsWhole
  <2>2. garbled' = garbled
    BY <1>4, <1>7, <2>1
  <2> HIDE DEF b, w
  <2>3. CASE ~f.found /\ f.left = b
    <3>1. Stream' = Stream
      BY <1>1, <1>3, <1>7, <2>3
    <3> QED  BY <1>4, <1>7, <2>2, <3>1 DEF ItemsWhole
  <2>4. CASE /\ f.found /\ IsFrame(f.item)
             /\ IsRest(f.left, b, FrameEnd(b))
             /\ FrameEnd(b) \in DOMAIN b /\ FrameEnd(b) >= 2
             /\ \A i \in 2..FrameEnd(b) : b[i].k \in {"len", "byte"}
    <3> DEFINE k == FrameEnd(b)
    <3>1. recvBuffer' \in Seq(Tokens) /\ Shifted(recvBuffer' \o w, Stream, k)
      BY <1>1, <1>7, <2>4, RestIsShifted
    <3>2. Stream' \in Seq(Tokens) /\ Shifted(Stream', Stream, k)
      BY <1>1, <1>3, <3>1, ConcatProperties
    <3>3. Whole(Stream)
      BY DEF ItemsWhole
    <3>4. k \in DOMAIN Stream /\ Stream[k].k \in {"len", "byte"} /\ k \in Nat /\ k >= 2
      <4>1. DOMAIN b = 1..Len(b) /\ Len(b) \in Nat /\ k \in DOMAIN Stream /\ Stream[k] = b[k]
        BY <1>1, <2>4, Places
      <4>2. k \in 2..k /\ k \in Nat
        BY <2>4, <4>1
      <4> QED  BY <2>4, <4>1, <4>2
    <3>5. ASSUME NEW q \in DOMAIN Stream, Stream[q].k = "end", q > k
          PROVE  q - 2 > k
      <4>1. TeardownAt(Stream, q)
        BY <3>3, <3>5 DEF Whole
      <4>2. Stream[q - 2].k = "TEARDOWN" /\ Stream[q - 1].k = "line"
        BY <4>1 DEF TeardownAt, Token
      <4>3. q - 2 # k /\ q - 1 # k
        BY <3>4, <4>2
      <4>4. q \in Nat
        BY <1>5, LenProperties
      <4> HIDE DEF k
      <4> QED  BY <3>4, <3>5, <4>3, <4>4
    <3> HIDE DEF k
    <3>6. Whole(Stream')
      BY <1>5, <3>2, <3>3, <3>5, WholeShift
    <3>7. Has(Stream', "end") => Has(Stream, "end")
      BY <1>5, <3>2, ShiftedHas
    <3> QED  BY <1>4, <1>7, <2>2, <3>6, <3>7 DEF ItemsWhole
  <2> QED  BY <2>1, <2>3, <2>4
<1> QED  BY <1>2, <1>6, <1>7

\* A frame goes behind whole items.
LEMMA WholeSendFrame ==
  ASSUME IInv, NEW payload \in Payloads, NEW cut \in 1..(2 + MaxPayload),
         SendFrame(payload, cut), ~marked', ~split'
  PROVE  ItemsWhole'
<1> USE DEF IInv
<1>1. /\ frames + 1 \in 1..MaxFrames
      /\ Stream' = Pending \o FrameTokens(frames + 1, payload)
      /\ UNCHANGED <<handled, asked, waiting, split>>
  BY WritingSteps
<1>2. /\ ~marked /\ ~split /\ rest = <<>>
      /\ ~ \E j \in DOMAIN payload : payload[j] # "byte"
      /\ asked = Teardown \/ (asked = Len(Requests) /\ ~waiting)
  BY DEF SendFrame, clientVars
<1>3. FrameTokens(frames + 1, payload) \in Seq(Tokens) /\ Pending \in Seq(Tokens)
      /\ Len(Requests) \in Nat /\ Teardown = Len(Requests) + 1
      /\ asked \in Nat /\ handled \in Nat /\ frames \in Nat
  BY <1>1, FrameTokensProperties, Basics, Constants
<1>4. Whole(FrameTokens(frames + 1, payload)) /\ ~Has(FrameTokens(frames + 1, payload), "end")
  BY <1>1, <1>2, WholeItems, PlainFrame
<1>5. /\ Whole(Pending)
      /\ Has(Pending, "end") => handled = Len(Requests) /\ asked = Teardown
      /\ asked = Len(Requests) => handled = Len(Requests)
  <2>1. CASE frames > 0
    <3>1. Stream = Pending
      BY <1>2, <1>3, ConcatEmptySeq DEF Stream
    <3> QED  BY <1>2, <2>1, <3>1 DEF ItemsWhole
  <2>2. CASE frames = 0 /\ handled = asked /\ Pending = <<>>
    BY <2>2, WholeItems DEF Has
  <2>3. CASE frames = 0 /\ handled + 1 = asked /\ Pending = RequestTokens(asked)
    <3>1. asked = Teardown
      <4>1. OneHeader
        BY <1>2
      <4>2. ~waiting => handled = asked
        BY <2>3, <4>1, EarlyIdle
      <4> QED  BY <1>2, <1>3, <2>3, <4>2
    <3> QED  BY <1>3, <2>3, <3>1, WholeItems
  <2> QED  BY <1>3, <2>1, <2>2, <2>3 DEF BeforeFrames
<1>6. Whole(Stream') /\ (Has(Stream', "end") => Has(Pending, "end"))
  BY <1>1, <1>3, <1>4, <1>5, WholeConcat, HasConcat
<1> QED  BY <1>1, <1>5, <1>6 DEF ItemsWhole

\* TEARDOWN goes behind whole items.
LEMMA WholeSendRequest ==
  ASSUME IInv, SendRequest, frames > 0, ~marked', ~split'
  PROVE  ItemsWhole'
<1> USE DEF IInv
<1>1. /\ asked + 1 \in 1..Teardown /\ asked' = asked + 1
      /\ rest = <<>> => Stream' = Stream \o RequestTokens(asked + 1)
      /\ UNCHANGED <<frames, handled, marked>>
  BY WritingSteps
<1>2. ~marked /\ ~split /\ rest = <<>>
  <2>1. split' = (split \/ rest # <<>>)
    BY DEF SendRequest
  <2>2. ~(split \/ rest # <<>>)
    BY <2>1, Zenon
  <2> QED  BY <1>1, <2>2
<1>3. ItemsWhole
  BY <1>2
<1>4. Len(Requests) \in Nat /\ Teardown = Len(Requests) + 1 /\ asked \in Nat
      /\ Teardown \in 1..Teardown
  BY Basics, Constants
<1>5. asked >= Len(Requests)
  BY DEF AfterDialogue
<1>6. asked = Len(Requests)
  BY <1>1, <1>4, <1>5
<1>7. asked' = Teardown /\ asked' # Len(Requests)
  BY <1>1, <1>4, <1>6
<1>8. handled' = Len(Requests)
  BY <1>1, <1>3, <1>6 DEF ItemsWhole
<1>9. Whole(Stream')
  <2>1. Stream' = Stream \o RequestTokens(Teardown)
    BY <1>1, <1>2, <1>7
  <2>2. RequestTokens(Teardown) \in Seq(Tokens) /\ Stream \in Seq(Tokens)
    BY <1>4, RequestHasEnd, Basics
  <2> QED  BY <1>3, <2>1, <2>2, WholeItems, WholeConcat DEF ItemsWhole
<1> QED  BY <1>7, <1>8, <1>9 DEF ItemsWhole

\* ItemsWhole and ItemsIntact are kept.
LEMMA ItemsStep ==
  ASSUME IInv, [Next]_vars
  PROVE  /\ frames' > 0 /\ ~marked' /\ ~split' => ItemsWhole'
         /\ ItemsIntact'
<1> USE DEF IInv
<1>1. ASSUME ReadResponse \/ CloseClient \/ PeekError \/ HandleClose \/ UNCHANGED vars
      PROVE  (frames' > 0 /\ ~marked' /\ ~split' => ItemsWhole') /\ ItemsIntact'
  BY <1>1, QuietSteps DEF ItemsWhole, ItemsIntact, Quiet
<1>2. CASE SendRequest
  <2>1. UNCHANGED <<frames, garbled, marked>> /\ (split => split')
    BY <1>2, WritingSteps DEF SendRequest
  <2>2. frames' > 0 /\ ~marked' /\ ~split' => ItemsWhole'
    BY <1>2, <2>1, WholeSendRequest
  <2> QED  BY <2>1, <2>2 DEF ItemsIntact
<1>3. CASE FinishFrame
  <2>1. Stream' = Stream /\ UNCHANGED <<frames, garbled, marked, split, handled, asked>>
    BY <1>3, WritingSteps
  <2> QED  BY <2>1 DEF ItemsIntact, ItemsWhole
<1>4. ASSUME NEW payload \in Payloads, NEW cut \in 1..(2 + MaxPayload), SendFrame(payload, cut)
      PROVE  (frames' > 0 /\ ~marked' /\ ~split' => ItemsWhole') /\ ItemsIntact'
  <2>1. UNCHANGED <<garbled, split>> /\ (marked => marked')
    BY <1>4 DEF SendFrame, serverVars
  <2>2. ~marked' /\ ~split' => ItemsWhole'
    BY <1>4, WholeSendFrame
  <2> QED  BY <2>1, <2>2 DEF ItemsIntact
<1>5. ASSUME NEW size \in 1..Len(net), ReceiveItem(size)
      PROVE  (frames' > 0 /\ ~marked' /\ ~split' => ItemsWhole') /\ ItemsIntact'
  <2>1. UNCHANGED <<frames, marked, split>>
    BY <1>5 DEF ReceiveItem, clientVars
  <2>2. CASE marked \/ split
    BY <2>1, <2>2 DEF ItemsIntact
  <2>3. CASE ~marked /\ ~split /\ frames > 0
    <3>1. ItemsWhole' /\ garbled' = garbled
      BY <1>5, <2>3, WholeReceive
    <3> QED  BY <2>1, <3>1 DEF ItemsIntact
  <2>4. CASE frames = 0
    <3>1. garbled' = garbled
      BY <1>5, <2>4, EarlyReceive
    <3>2. ~(frames' > 0)
      BY <2>1, <2>4
    <3> QED  BY <2>1, <3>1, <3>2 DEF ItemsIntact
  <2> QED  BY <2>2, <2>3, <2>4, Basics
<1> QED  BY <1>1, <1>2, <1>3, <1>4, <1>5 DEF Next, Client, Server

-----------------------------------------------------------------------------
(* The theorems.                                                            *)

\* The invariant holds in the beginning and is kept.
LEMMA InitIInv == Init => IInv
<1> SUFFICES ASSUME Init
             PROVE  IInv
  OBVIOUS
<1>1. TypeOK
  <2>1. 0 \in 0..Teardown /\ 0 \in 0..MaxFrames /\ 0 \in 0..0 /\ <<>> \in Seq(Tokens)
    BY Constants, EmptySeq
  <2> QED  BY <2>1 DEF Init, TypeOK
<1>2. Pending = <<>> /\ Stream = <<>>
  BY ConcatEmptySeq, EmptySeq DEF Init, Pending, Stream
<1>3. BeforeFrames /\ AfterDialogue /\ RequestUnderWay /\ ItemsIntact
  BY <1>2 DEF Init, BeforeFrames, AfterDialogue, RequestUnderWay, ItemsIntact
<1>4. OneHeader
  BY <1>2 DEF Init, OneHeader, Ordered, Has
<1>5. ~(frames > 0)
  BY DEF Init
<1> QED  BY <1>1, <1>3, <1>4, <1>5 DEF IInv

\* Every step keeps it.
LEMMA NextIInv == IInv /\ [Next]_vars => IInv'
<1> SUFFICES ASSUME IInv, [Next]_vars
             PROVE  IInv'
  OBVIOUS
<1>1. TypeOK'
  <2>1. TypeOK
    BY DEF IInv
  <2>2. ASSUME UNCHANGED vars
        PROVE  TypeOK'
    BY <2>1, <2>2 DEF TypeOK, vars, clientVars, serverVars
  <2> QED  BY <2>1, <2>2, ClientTypes, ServerTypes DEF Next
<1> QED  BY <1>1, BeforeFramesStep, AfterDialogueStep, RequestUnderWayStep, OneHeaderStep,
            ItemsStep DEF IInv

\* What everything below follows from.
LEMMA Invariant == Spec => []IInv
BY InitIInv, NextIInv, PTL DEF Spec

\* However the bytes arrive and however they are read, the server handles the client's
\* requests in order and whole, and takes whole frames, as long as no payload contains a
\* text that the server looks for and TEARDOWN is not written into the middle of a frame.
THEOREM StreamCorrect == Spec => []StreamInv
<1>1. IInv => StreamInv
  BY DEF IInv, StreamInv
<1> QED  BY <1>1, Invariant, PTL

\* Nobody waits for ever: what the server has read it has answered, though it takes one
\* item per event, and though TEARDOWN may lie between frames; unless it failed or is
\* stuck in the handler.
THEOREM AnswerCorrect == Spec => []AnswerIsThere
<1>1. IInv => AnswerIsThere
  <2> SUFFICES ASSUME IInv, waiting, peer = "open", net = <<>>, fault = "none", ~stuck,
                      answers = 0
               PROVE  FALSE
    BY Basics DEF IInv, AnswerIsThere
  <2>1. ~Has(net, "end")
    BY DEF Has
  <2>2. frames = 0
    BY <2>1, Basics DEF IInv, RequestUnderWay
  <2>3. handled # asked
    BY <2>2 DEF IInv, RequestUnderWay
  <2> QED  BY <2>2, <2>3 DEF IInv, BeforeFrames
<1> QED  BY <1>1, Invariant, PTL

\* Neither the framing nor the writing of answers ends the server, whenever the client
\* closes or dies, as long as no payload contains a text that the server looks for: no
\* length wraps, and there is one answer to write at most, and so no second write to a
\* socket that has been refused.
THEOREM TransportCorrect == Spec => []TransportSurvives
<1>1. IInv => TransportSurvives
  BY DEF IInv, OneHeader, TransportSurvives
<1> QED  BY <1>1, Invariant, PTL
=============================================================================
