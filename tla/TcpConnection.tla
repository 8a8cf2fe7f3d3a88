--------------------------- MODULE TcpConnection ---------------------------
(***************************************************************************)
(* The server's end of an RTSP connection (reactor/TcpConnection.cc), the  *)
(* loop's handleMessage and the callbacks onMessage and onClose: requests  *)
(* and interleaved frames are cut out of a stream of bytes.                *)
(*                                                                         *)
(* The other end is the camera with RTP over TCP (camera/rtsp_client.c):   *)
(* one thread sends requests, each after the answer to the one before;     *)
(* once all but TEARDOWN are answered another thread sends frames.  Each   *)
(* writes with tcp_write; a write that has to wait for room in the socket  *)
(* may be cut in two by the other thread's.  The client may close or die   *)
(* at any time.                                                            *)
(*                                                                         *)
(* The stream is a sequence of tokens, each of them a piece of a request   *)
(* or frame that the server tells apart; a read returns any number of      *)
(* them. The end of a header is a token, because the server looks for it   *)
(* in the whole buffer.  The payload of a frame is arbitrary bytes: it may *)
(* contain these four, and the text TEARDOWN, for which the server looks   *)
(* in the whole buffer too.                                                *)
(*                                                                         *)
(* What a request does is left to module RtspConnect.  Here its handler,   *)
(* or the release of the session at the close, answers, ends the process   *)
(* or does not return.                                                     *)
(*                                                                         *)
(* The server's sockets are blocking ones (accept does not hand down       *)
(* O_NONBLOCK, and nobody sets it): writen sends all or fails, the send    *)
(* buffer stays empty and EPOLLOUT is never asked for.                     *)
(***************************************************************************)
EXTENDS Naturals, Sequences, FiniteSets, SequencesExt

CONSTANTS Requests,   \* the requests of the dialogue, as the lengths of their bodies;
                      \* a TEARDOWN follows
          MaxFrames,  \* bound: frames sent
          MaxPayload  \* bound: tokens in a frame's payload

ASSUME RequestsOk == Requests \in Seq(Nat)
ASSUME BoundsOk == MaxFrames \in Nat /\ MaxPayload \in Nat \ {0}

Teardown == Len(Requests) + 1    \* its number in the dialogue
FrameId(f) == Teardown + f       \* frames are numbered after the requests
Ids == 1..(Teardown + MaxFrames)

\* What a token is: a request line, TEARDOWN's request line, a Content-Length line
\* (n is its value), the end of a header, a byte of a body, the '$' of a frame, the
\* channel and length that follow it (n is the length), a byte of a payload.  The text
\* TEARDOWN and an end of header may also be in a payload.
Kinds == {"line", "TEARDOWN", "clen", "end", "body", "$", "len", "byte"}
Tokens == [k : Kinds, n : Nat, id : Ids]
Token(k, n, i) == [k |-> k, n |-> n, id |-> i]

VARIABLES
  asked,      \* requests the client has sent
  waiting,    \* it waits for the answer to the last one
  answers,    \* answers it has not read yet
  frames,     \* frames it has begun to send
  rest,       \* the part of a frame its write could not place yet
  peer,       \* "open", "fin" (it has closed) or "reset" (it refuses what we send)
  net,        \* bytes on their way to the server
  recvBuffer, \* TcpConnection::_recvBuffer
  error,      \* the socket has an error to report
  conn,       \* the connection is in the loop's table
  stuck,      \* the loop's thread never comes back from releaseSession
  handled,    \* requests of the client that have been handled
  marked,     \* history: a payload contains the end of a header or TEARDOWN
  split,      \* history: TEARDOWN was written into the middle of a frame
  garbled,    \* history: a request was handled or a frame taken that nobody sent
  fault       \* what ended the process

clientVars == <<asked, waiting, frames, rest, marked, split>>
serverVars == <<recvBuffer, conn, stuck, handled, garbled>>
vars == <<clientVars, serverVars, answers, peer, net, error, fault>>

TypeOK ==
  /\ asked \in 0..Teardown /\ waiting \in BOOLEAN /\ answers \in Nat
  /\ frames \in 0..MaxFrames /\ rest \in Seq(Tokens)
  /\ peer \in {"open", "fin", "reset"} /\ error \in BOOLEAN
  /\ net \in Seq(Tokens) /\ recvBuffer \in Seq(Tokens)
  /\ conn \in BOOLEAN /\ stuck \in BOOLEAN /\ handled \in 0..asked
  /\ marked \in BOOLEAN /\ split \in BOOLEAN /\ garbled \in BOOLEAN
  /\ fault \in {"none", "length_error", "write to a dead peer", "handler"}

Init ==
  /\ asked = 0 /\ waiting = FALSE /\ answers = 0 /\ frames = 0 /\ rest = <<>>
  /\ peer = "open" /\ net = <<>> /\ recvBuffer = <<>> /\ error = FALSE
  /\ conn = TRUE /\ stuck = FALSE /\ handled = 0
  /\ marked = FALSE /\ split = FALSE /\ garbled = FALSE /\ fault = "none"

-----------------------------------------------------------------------------
(* The client.                                                              *)

\* The tokens of request i
RequestTokens(i) ==
  IF i = Teardown THEN <<Token("TEARDOWN", 0, i), Token("line", 0, i), Token("end", 0, i)>>
  ELSE IF Requests[i] = 0 THEN <<Token("line", 0, i), Token("end", 0, i)>>
  ELSE <<Token("line", 0, i), Token("clen", Requests[i], i), Token("end", 0, i)>>
         \o [j \in 1..Requests[i] |-> Token("body", 0, i)]

\* send_rtp_over_tcp: header and payload in one buffer
FrameTokens(f, payload) ==
  <<Token("$", 0, FrameId(f)), Token("len", Len(payload), FrameId(f))>>
    \o [j \in DOMAIN payload |-> Token(payload[j], 0, FrameId(f))]

ClientAlive == peer = "open" /\ fault = "none"

\* rtsp_client_options ... rtsp_client_record, and rtsp_client_teardown
SendRequest ==
  /\ ClientAlive
  /\ ~waiting /\ asked < Teardown
  /\ asked' = asked + 1 /\ waiting' = TRUE
  /\ net' = net \o RequestTokens(asked + 1)
  /\ split' = (split \/ rest # <<>>)
  /\ UNCHANGED <<answers, frames, rest, peer, serverVars, error, marked, fault>>

\* rtsp_client_read_response: one read takes what has come.  A response that nobody
\* asked for is read by the select loop.
ReadResponse ==
  /\ ClientAlive
  /\ answers > 0
  /\ answers' = 0 /\ waiting' = FALSE
  /\ UNCHANGED <<asked, frames, rest, marked, split, serverVars, peer, net, error, fault>>

\* The video thread, once the dialogue before TEARDOWN is over: a frame, of which the
\* first `cut' tokens find room at once.
SendFrame(payload, cut) ==
  /\ ClientAlive
  /\ rest = <<>> /\ frames < MaxFrames
  /\ asked = Teardown \/ (asked = Len(Requests) /\ ~waiting)
  /\ LET t == FrameTokens(frames + 1, payload) IN
       /\ cut \in 1..Len(t)
       /\ net' = net \o SubSeq(t, 1, cut)
       /\ rest' = SubSeq(t, cut + 1, Len(t))
  /\ frames' = frames + 1
  /\ marked' = (marked \/ \E j \in DOMAIN payload : payload[j] # "byte")
  /\ UNCHANGED <<asked, waiting, split, answers, serverVars, peer, error, fault>>

FinishFrame ==
  /\ ClientAlive
  /\ rest # <<>>
  /\ net' = net \o rest /\ rest' = <<>>
  /\ UNCHANGED <<asked, waiting, frames, marked, split, answers, serverVars, peer, error,
                 fault>>

\* The client ends, in whatever state.  With an answer unread its kernel sends a
\* reset, else the end of the stream; a frame in the middle is cut off.
CloseClient ==
  /\ ClientAlive
  /\ peer' = IF answers > 0 THEN "reset" ELSE "fin"
  /\ error' = (answers > 0)
  /\ UNCHANGED <<clientVars, answers, serverVars, net, fault>>

-----------------------------------------------------------------------------
(* What the server looks for in its buffer b.                               *)

\* _recvBuffer.find of the end of a header, and rfind of TEARDOWN; 0: it is not there.
HeaderEnd(b) == SelectInSeq(b, LAMBDA t : t.k = "end")
LastTeardown(b) == SelectLastInSeq(b, LAMBDA t : t.k = "TEARDOWN")

-----------------------------------------------------------------------------
(* Plausible mistakes, used to see that the properties can fail.            *)

\* A request is taken without its body.
ExtractWithoutBody(b) ==
  LET e == HeaderEnd(b)
      td == LastTeardown(b)
  IN IF e = 0 THEN [found |-> FALSE, throws |-> FALSE, item |-> <<>>, left |-> b]
     ELSE [found |-> TRUE, throws |-> td > e + 1,
           item |-> SubSeq(b, IF td # 0 THEN td ELSE 1, e),
           left |-> IF td # 0 THEN <<>> ELSE SubSeq(b, e + 1, Len(b))]

\* A frame at the front of the buffer goes before a request behind it.
ExtractBehindFrames(b) ==
  IF b[1].k = "$" THEN [found |-> FALSE, throws |-> FALSE, item |-> <<>>, left |-> b]
  ELSE ExtractWithoutBody(b)

\* The answer is written in two parts.
WriteTwice(p) == IF p = "open" THEN "open" ELSE "dead"

\* isClosed tests for an error.
ClosedOnError == error

-----------------------------------------------------------------------------
(* The server: framing.                                                     *)

NotFound(b) == [found |-> FALSE, throws |-> FALSE, item |-> <<>>, left |-> b]

\* The value of the first Content-Length line of the header b[1..e], else 0.
ContentLength(b, e) ==
  LET header == SubSeq(b, 1, e)
      c == SelectInSeq(header, LAMBDA t : t.k = "clen")
  IN IF c = 0 THEN 0 ELSE header[c].n

\* tryExtractRtsp: up to the first end of a header.  A TEARDOWN anywhere in the
\* buffer takes precedence, and empties it; where it begins after that first end, the
\* length headerEnd - tpos + 4 is 0, or wraps and assign throws.
tryExtractRtsp(b) ==
  LET e == HeaderEnd(b)
      td == LastTeardown(b)
      total == e + ContentLength(b, e)
  IN IF e = 0 THEN NotFound(b)
     ELSE IF td # 0
     THEN [found |-> TRUE, throws |-> td > e + 1, item |-> SubSeq(b, td, e), left |-> <<>>]
     ELSE IF Len(b) < total THEN NotFound(b)
     ELSE [found |-> TRUE, throws |-> FALSE, item |-> SubSeq(b, 1, total),
           left |-> SubSeq(b, total + 1, Len(b))]

\* Where the frame at the front of b ends.
FrameEnd(b) == 2 + b[2].n

\* tryExtractInterleaved.  What follows the '$' is read as channel and length: in the
\* middle of a frame that may be the text of TEARDOWN, whose letters make a length
\* above 15000, and the '$' is dropped.
tryExtractInterleaved(b) ==
  IF b = <<>> \/ b[1].k # "$" \/ Len(b) < 2 THEN NotFound(b)
  ELSE IF b[2].k # "len" THEN [NotFound(b) EXCEPT !.left = Tail(b)]
  ELSE IF Len(b) < FrameEnd(b) THEN NotFound(b)
  ELSE [found |-> TRUE, throws |-> FALSE, item |-> SubSeq(b, 1, FrameEnd(b)),
        left |-> SubSeq(b, FrameEnd(b) + 1, Len(b))]

-----------------------------------------------------------------------------
(* The server: the loop's events.                                           *)

\* The item is the client's next request, whole.
IsNextRequest(item) == handled < asked /\ item = RequestTokens(handled + 1)

HandledAfter(item) == IF IsNextRequest(item) THEN handled + 1 ELSE handled

\* The item is one frame, whole: all of it belongs together.
IsFrame(item) == item # <<>> /\ \A j \in DOMAIN item : item[j].id = item[1].id

\* writen of a response: what becomes of the peer.  Data for a closed socket is
\* answered with a reset; to write after that ends the process (SIGPIPE, or -1, which
\* send takes for a partial write: substr throws).
WriteTo(p) == CASE p = "open" -> "open" [] p = "fin" -> "reset" [] OTHER -> "dead"

\* sendResponse
Respond ==
  LET p == WriteTo(peer)
  IN /\ fault' = IF p = "dead" THEN "write to a dead peer" ELSE "none"
     /\ peer' = IF p = "dead" THEN peer ELSE p
     /\ error' = (error \/ (p = "reset" /\ peer = "fin"))
     /\ answers' = IF p = "open" THEN answers + 1 ELSE answers

IsTeardown(item) == item # <<>> /\ item[1].k = "TEARDOWN"

\* handleRequest: every handler sends one response, for what it does not know too; or
\* it ends the process, as RECORD does after a SETUP over TCP; or it never returns:
\* TEARDOWN's calls releaseSession, and that removeCam.
HandleRequest(item) ==
  /\ \/ Respond /\ UNCHANGED stuck
     \/ fault' = "handler" /\ UNCHANGED <<answers, peer, error, stuck>>
     \/ IsTeardown(item) /\ stuck' = TRUE /\ UNCHANGED <<answers, peer, error, fault>>
  /\ handled' = HandledAfter(item)
  /\ garbled' = (garbled \/ ~IsNextRequest(item))

\* The loop's thread can take an event of this connection.
LoopServes == conn /\ ~stuck /\ fault = "none"

\* The loop has an event for the connection and it is not closed: onMessage calls
\* recvOneItem, which reads once, up to `size' tokens, and takes at most one item.
ReceiveItem(size) ==
  /\ LoopServes
  /\ size \in 1..Len(net)
  /\ net' = SubSeq(net, size + 1, Len(net))
  /\ LET b == recvBuffer \o SubSeq(net, 1, size)
         r == tryExtractRtsp(b)
         f == tryExtractInterleaved(b)
     IN \/ /\ r.found /\ r.throws
           /\ fault' = "length_error"
           /\ UNCHANGED <<recvBuffer, stuck, handled, garbled, answers, peer, error>>
        \/ /\ r.found /\ ~r.throws
           /\ recvBuffer' = r.left
           /\ HandleRequest(r.item)
        \/ /\ ~r.found
           /\ recvBuffer' = f.left
           /\ garbled' = (garbled \/ (f.found /\ ~IsFrame(f.item)))
           /\ UNCHANGED <<stuck, handled, answers, peer, error, fault>>
  /\ UNCHANGED <<clientVars, conn>>

\* isClosed peeks: an error is not 0, so the message callback runs, and its read finds
\* the end of the stream, which it leaves to the next event.
PeekError ==
  /\ LoopServes
  /\ net = <<>> /\ error
  /\ error' = FALSE
  /\ UNCHANGED <<clientVars, serverVars, answers, peer, net, fault>>

\* ... and at the end of the stream handleCloseCallback, which is onClose, and
\* removeTcpConnection.  releaseSession, in onClose, may end the process (a KCP pointer
\* that was never set) or never return.
SeesClosed == peer # "open" /\ ~error

HandleClose ==
  /\ LoopServes
  /\ net = <<>> /\ SeesClosed
  /\ \/ conn' = FALSE /\ UNCHANGED <<stuck, fault>>
     \/ fault' = "handler" /\ UNCHANGED <<conn, stuck>>
     \/ stuck' = TRUE /\ UNCHANGED <<conn, fault>>
  /\ UNCHANGED <<clientVars, recvBuffer, handled, garbled, answers, peer, net, error>>

-----------------------------------------------------------------------------
Payloads == UNION {[1..k -> {"byte", "end", "TEARDOWN"}] : k \in 1..MaxPayload}

Client ==
  \/ SendRequest \/ ReadResponse \/ FinishFrame \/ CloseClient
  \/ \E payload \in Payloads, cut \in 1..(2 + MaxPayload) : SendFrame(payload, cut)

Server == (\E size \in 1..Len(net) : ReceiveItem(size)) \/ PeekError \/ HandleClose

Next == Client \/ Server

Spec == Init /\ [][Next]_vars

\* The loop handles its events, which are level-triggered.
FairSpec == Spec /\ WF_vars(Server)

-----------------------------------------------------------------------------
(* Properties.                                                              *)

\* However the bytes arrive, the server handles the client's requests, in order and
\* whole, and takes whole frames: unless a payload contains a text that the server looks
\* for, or TEARDOWN was written into the middle of a frame.
ItemsIntact == garbled => marked \/ split

\* The state has its types and what comes out of the stream is what went in.
StreamInv == TypeOK /\ ItemsIntact

\* Nobody waits for ever: when the client waits for an answer and everything it sent
\* has been read, its answer is there, or the server has failed or is stuck.  One item is
\* taken per event, but no request stays in the buffer; not even a TEARDOWN cut off by
\* frames before and after it.
AnswerIsThere ==
  waiting /\ peer = "open" /\ net = <<>> /\ fault = "none" /\ ~stuck => answers > 0

\* Neither the framing nor the writing of answers ends the server, whenever the client
\* closes or dies: no length wraps, unless a payload contains a text that the server looks
\* for, and there is never more than one answer to write to a client that has gone.  The
\* other way to end it is in the handlers of requests and of the close.
TransportSurvives == fault \in {"none", "handler"} \/ marked

\* A connection whose client has gone is closed in the end, unless the server fails or
\* is stuck.
GoneIsClosed == (peer # "open") ~> (~conn \/ fault # "none" \/ stuck)
=============================================================================
