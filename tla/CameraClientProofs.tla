------------------------- MODULE CameraClientProofs -------------------------
(***************************************************************************)
(* Proofs about CameraClient, for frames of any number of packets: main and *)
(* the video thread use only what is there, a return from main is clean,    *)
(* and the cleanup goes wrong only after a handshake that did not succeed.  *)
(***************************************************************************)
EXTENDS CameraClient, TLAPS

-----------------------------------------------------------------------------
(* Where main can be, by what it has to rely on.                            *)

\* The select loop.
InLoop == {"loop", "lock update", "update", "check", "select", "control", "datagrams",
           "lock input", "input"}

Starting == {"connect", "camera", "encoder"}

\* From the first request to the end of the join the capture and the encoder run.
Streaming == {"request", "answer", "cleanup", "farewell", "join", "release"} \cup InLoop

\* The process has not reached the end of rtsp_session_cleanup.
Holding == ~ Ended \/ main = "killed"

-----------------------------------------------------------------------------
(* The inductive invariant.                                                 *)

\* The connection, the device and the encoder follow from where main is.
CaptureFollowsMain ==
  /\ main \in Streaming \cup {"camera", "encoder", "session"} => client = "open"
  /\ main \in Streaming => device = "streaming" /\ encoder
  /\ main \in Starting => ~encoder
  /\ main \in {"connect", "camera"} => device = "off"
  /\ main = "encoder" => device = "streaming"
  /\ main = "session" => device = "off" /\ ~encoder

\* The answer to SETUP makes the whole session at once, and nothing of it is
\* released before rtsp_session_cleanup.
SessionFollowsRequest ==
  Holding =>
    /\ req # 4 => /\ state = "INIT" /\ kcp = "null" /\ mutex = "unset"
                  /\ rtp # "open" /\ video = "none"
    /\ req = 4 => /\ state # "INIT" /\ kcp = "live" /\ mutex # "unset"
                  /\ rtp = "open" /\ transType # "unset"

\* The state is PLAYING from the answer to RECORD on, and the video thread is
\* created after that.
VideoFollowsMain ==
  /\ Holding /\ video # "none" => state = "PLAYING"
  /\ main \in Starting => req # 4
  /\ main \in {"request", "answer"} => state # "PLAYING"
  /\ main \in InLoop \cup {"join"} => state = "PLAYING"
  /\ main \in {"release", "session", "exit"} => video \in {"none", "ended"}
  /\ video = "sending" => left > 0

\* The mutex is held by whoever is at a call into the control block.
MutexHolder ==
  ~Ended => /\ mutex = "main" <=> main \in {"update", "input"}
            /\ mutex = "video" <=> video = "sending"

\* Only the two last steps of the cleanup can go wrong.
FaultsAreLate ==
  /\ Holding => fault \subseteq {"wild join"}
  /\ "wild join" \in fault => main \in {"release", "session", "exit", "aborted"}

\* The type invariant, in parts that the provers can take one at a time.
ThreadTypes ==
  /\ main \in Starting \cup Streaming \cup {"session", "exit", "aborted", "killed"}
  /\ video \in {"none", "start", "test", "encode", "send", "sending", "ended"}
  /\ left \in 0..MaxPackets

RequestTypes ==
  /\ state \in {"INIT", "READY", "PLAYING"} /\ transType \in {"unset", "udp", "tcp"}
  /\ req \in 1..4

HandleTypes ==
  /\ client \in {"stdin", "open", "closed"} /\ rtp \in {"stdin", "open", "closed"}
  /\ kcp \in {"null", "live", "freed"} /\ mutex \in {"unset", "free", "main", "video"}

WorldTypes ==
  /\ pending \in {"none", "answer", "stop"} /\ peer \in {"up", "closed", "reset"}
  /\ device \in {"off", "streaming"}

SetTypes ==
  /\ ready \subseteq {"tcp", "udp"}
  /\ fault \subseteq {"wild join", "stdin closed", "no kcp"}

FlagTypes ==
  /\ running \in BOOLEAN /\ selectFailed \in BOOLEAN /\ encoder \in BOOLEAN
  /\ owed \in BOOLEAN /\ datagram \in BOOLEAN

IInv == /\ ThreadTypes /\ RequestTypes /\ HandleTypes /\ WorldTypes /\ SetTypes /\ FlagTypes
        /\ CaptureFollowsMain /\ SessionFollowsRequest /\ VideoFollowsMain
        /\ MutexHolder /\ FaultsAreLate /\ ReturnIsClean /\ CleanupFaults

-----------------------------------------------------------------------------
\* The handshake has four requests: SETUP is the third, RECORD the last.
LEMMA RequestsAre ==
  /\ Len(Requests) = 4
  /\ \A i \in 1..4 : /\ Requests[i] \in {"OPTIONS", "ANNOUNCE"} <=> i < 3
                     /\ Requests[i] = "SETUP" <=> i = 3
                     /\ Requests[i] = "RECORD" <=> i = 4
BY DEF Requests

\* The handshake has sent RECORD or is before it.
LEMMA RequestRange == RequestTypes => req < 4 \/ req = 4
BY DEF RequestTypes

\* What the answers of the handshake do: the end of the stream, an answer to OPTIONS
\* or ANNOUNCE, one to SETUP that makes no session, one that does, one to RECORD.
LEMMA AnswerSteps ==
  ASSUME RequestTypes, ReadAnswer
  PROVE  \/ main' = "cleanup" /\ UNCHANGED <<state, transType, req, rtp, kcp, mutex, video>>
         \/ /\ req \in 1..2 /\ req' \in 2..3 /\ main' = "request"
            /\ UNCHANGED <<state, transType, rtp, kcp, mutex, video>>
         \/ /\ req = 3 /\ req' = 3 /\ main' = "cleanup" /\ rtp' \in {rtp, "closed"}
            /\ transType' \in {transType, "udp", "tcp"}
            /\ UNCHANGED <<state, kcp, mutex, video>>
         \/ /\ req = 3 /\ req' = 4 /\ main' = "request" /\ rtp' = "open" /\ state' = "READY"
            /\ kcp' = "live" /\ mutex' = "free" /\ transType' \in {"udp", "tcp"}
            /\ UNCHANGED video
         \/ /\ req = 4 /\ req' = 4 /\ state' = "PLAYING"
            /\ \/ video' = "start" /\ main' = "loop"
               \/ UNCHANGED video /\ main' = "cleanup"
            /\ UNCHANGED <<transType, rtp, kcp, mutex>>
<1>1. req \in 1..4
  BY DEF RequestTypes
<1>2. CASE Received \in {"closed", "reset"}
  BY <1>2 DEF ReadAnswer
<1>3. CASE Requests[req] \in {"OPTIONS", "ANNOUNCE"}
  <2>1. req < 3
    BY <1>1, <1>3, RequestsAre
  <2> QED
    BY <1>1, <1>3, <2>1 DEF ReadAnswer
<1>4. CASE Requests[req] = "SETUP" /\ Received \notin {"closed", "reset"}
  <2>1. req = 3
    BY <1>1, <1>4, RequestsAre
  <2> QED
    BY <1>4, <2>1 DEF ReadAnswer, SetupAnswered
<1>5. CASE Requests[req] = "RECORD"
  <2>1. req = 4
    BY <1>1, <1>5, RequestsAre
  <2> QED
    BY <1>5, <2>1 DEF ReadAnswer, RecordAnswered
<1> QED
  BY <1>2, <1>3, <1>4, <1>5 DEF ReadAnswer

\* An answer keeps the request's variables in their types.
LEMMA AnswerTypes ==
  ASSUME RequestTypes, ReadAnswer
  PROVE  RequestTypes'
<1>1. req' \in 1..4
  BY AnswerSteps DEF RequestTypes
<1>2. state' \in {"INIT", "READY", "PLAYING"}
  BY AnswerSteps DEF RequestTypes
<1>3. transType' \in {"unset", "udp", "tcp"}
  BY AnswerSteps DEF RequestTypes
<1> QED
  BY <1>1, <1>2, <1>3 DEF RequestTypes

\* How far the handshake is tells which parts of the session exist, after an answer too.
LEMMA AnswerSession ==
  ASSUME RequestTypes, SessionFollowsRequest, ReadAnswer
  PROVE  SessionFollowsRequest'
<1>1. Holding
  BY DEF ReadAnswer, Holding, Ended
<1>2. CASE req' = 4
  <2>1. req = 4 \/ (req = 3 /\ state' = "READY")
    BY <1>2, AnswerSteps DEF RequestTypes
  <2> QED
    BY <1>1, <1>2, <2>1, AnswerSteps DEF SessionFollowsRequest
<1>3. CASE req' # 4
  <2>1. req # 4
    BY <1>3, AnswerSteps
  <2> QED
    BY <1>1, <1>3, <2>1, AnswerSteps DEF SessionFollowsRequest
<1> QED
  BY <1>2, <1>3

\* The packets of a frame run down from at most MaxPackets.
LEMMA VideoLeft ==
  ASSUME ThreadTypes, VideoFollowsMain, VideoStep \/ VideoLock \/ VideoWrite
  PROVE  left' \in 0..MaxPackets
<1>1. \/ UNCHANGED left \/ left' \in 0..MaxPackets
      \/ left > 0 /\ left' = left - 1
  BY DEF VideoStep, VideoLock, VideoWrite, VideoStart, VideoTest, VideoEncode, VideoSend,
         VideoFrameDone, VideoFollowsMain
<1>2. left \in 0..MaxPackets
  BY DEF ThreadTypes
<1> QED
  BY <1>1, <1>2, MaxPacketsAssumption

\* The initial states satisfy the invariant.
LEMMA InitIInv == Init => IInv
<1> SUFFICES ASSUME Init
             PROVE  IInv
  OBVIOUS
<1> USE RequestsAre, MaxPacketsAssumption
    DEF Init, Ended, Holding, InLoop, Starting, Streaming
<1>1. ThreadTypes
  BY DEF ThreadTypes
<1>2. RequestTypes
  BY DEF RequestTypes
<1>3. HandleTypes
  BY DEF HandleTypes
<1>4. WorldTypes
  BY DEF WorldTypes
<1>5. SetTypes
  BY DEF SetTypes
<1>6. FlagTypes
  BY DEF FlagTypes
<1>7. CaptureFollowsMain
  BY DEF CaptureFollowsMain
<1>8. SessionFollowsRequest
  BY DEF SessionFollowsRequest
<1>9. VideoFollowsMain
  BY DEF VideoFollowsMain
<1>10. MutexHolder
  BY DEF MutexHolder
<1>11. FaultsAreLate
  BY DEF FaultsAreLate
<1>12. ReturnIsClean
  BY DEF ReturnIsClean
<1>13. CleanupFaults
  BY DEF CleanupFaults
<1> QED
  BY <1>1, <1>2, <1>3, <1>4, <1>5, <1>6, <1>7,
     <1>8, <1>9, <1>10, <1>11, <1>12, <1>13 DEF IInv

\* main before its first read: connecting, starting the capture, and each request.
LEMMA BeginIInv ==
  ASSUME IInv, Connect \/ StartCapture \/ StartEncoder \/ SendRequest
  PROVE  IInv'
<1> USE RequestsAre, MaxPacketsAssumption
    DEF IInv, ThreadTypes, RequestTypes, HandleTypes, WorldTypes, SetTypes, FlagTypes,
        CaptureFollowsMain, SessionFollowsRequest, VideoFollowsMain, MutexHolder,
        FaultsAreLate, ReturnIsClean, CleanupFaults, Ended, Holding, InLoop, Starting,
        Streaming, session, capture, world
<1>1. ThreadTypes'
  BY DEF Connect, StartCapture, GiveUp, StartEncoder, SendRequest, WriteRequest
<1>2. RequestTypes'
  BY DEF Connect, StartCapture, StartEncoder, SendRequest
<1>3. HandleTypes'
  BY DEF Connect, StartCapture, GiveUp, StartEncoder, SendRequest
<1>4. WorldTypes'
  BY DEF Connect, StartCapture, GiveUp, StartEncoder, SendRequest
<1>5. SetTypes'
  BY DEF Connect, StartCapture, StartEncoder, SendRequest
<1>6. FlagTypes'
  BY DEF Connect, StartCapture, GiveUp, StartEncoder, SendRequest, WriteRequest
<1>7. CaptureFollowsMain'
  <2>1. CASE Connect
    BY <2>1 DEF Connect
  <2>2. CASE StartCapture
    <3>1. \/ main' = "exit"
          \/ main' = "encoder" /\ device' = "streaming" /\ client' = "open" /\ ~encoder'
      BY <2>2 DEF StartCapture, GiveUp
    <3>2. main = "camera"
      BY <2>2 DEF StartCapture
    <3> QED
      BY <3>1, <3>2
  <2>3. CASE StartEncoder
    <3>1. \/ main' = "exit"
          \/ main' = "request" /\ encoder' /\ device' = "streaming" /\ UNCHANGED client
      BY <2>3 DEF StartEncoder, GiveUp
    <3>2. main = "encoder"
      BY <2>3 DEF StartEncoder
    <3> QED
      BY <3>1, <3>2
  <2>4. CASE SendRequest
    BY <2>4 DEF SendRequest, WriteRequest
  <2> QED
    BY <2>1, <2>2, <2>3, <2>4
<1>8. SessionFollowsRequest'
  BY DEF Connect, StartCapture, StartEncoder, SendRequest
<1>9. VideoFollowsMain'
  BY DEF Connect, StartCapture, GiveUp, StartEncoder, SendRequest, WriteRequest
<1>10. MutexHolder'
  BY DEF Connect, StartCapture, GiveUp, StartEncoder, SendRequest, WriteRequest
<1>11. FaultsAreLate'
  BY DEF Connect, StartCapture, StartEncoder, SendRequest
<1>12. ReturnIsClean'
  BY DEF Connect, StartCapture, GiveUp, StartEncoder, SendRequest, WriteRequest
<1>13. CleanupFaults'
  BY DEF Connect, StartCapture, StartEncoder, SendRequest
<1> QED
  BY <1>1, <1>2, <1>3, <1>4, <1>5, <1>6, <1>7,
     <1>8, <1>9, <1>10, <1>11, <1>12, <1>13

\* main reads an answer of the handshake: the session is made by the answer to SETUP,
\* the video thread by the answer to RECORD.
LEMMA AnswerIInv ==
  ASSUME IInv, ReadAnswer
  PROVE  IInv'
<1> USE RequestsAre, MaxPacketsAssumption
    DEF IInv, ThreadTypes, RequestTypes, HandleTypes, WorldTypes, SetTypes, FlagTypes,
        CaptureFollowsMain, SessionFollowsRequest, VideoFollowsMain, MutexHolder,
        FaultsAreLate, ReturnIsClean, CleanupFaults, Ended, Holding, InLoop, Starting,
        Streaming, session, capture, world
<1>1. ThreadTypes'
  BY DEF ReadAnswer, SetupAnswered, RecordAnswered
<1>2. RequestTypes'
  BY AnswerTypes
<1>3. HandleTypes'
  BY DEF ReadAnswer, SetupAnswered
<1>4. WorldTypes'
  BY DEF ReadAnswer, Read
<1>5. SetTypes'
  BY DEF ReadAnswer
<1>6. FlagTypes'
  BY DEF ReadAnswer, Read
<1>7. CaptureFollowsMain'
  BY DEF ReadAnswer, SetupAnswered, RecordAnswered
<1>8. SessionFollowsRequest'
  BY AnswerSession
<1>9. VideoFollowsMain'
  BY DEF ReadAnswer, SetupAnswered, RecordAnswered
<1>10. MutexHolder'
  BY DEF ReadAnswer, SetupAnswered, RecordAnswered
<1>11. FaultsAreLate'
  BY DEF ReadAnswer
<1>12. ReturnIsClean'
  BY DEF ReadAnswer, SetupAnswered, RecordAnswered
<1>13. CleanupFaults'
  BY DEF ReadAnswer
<1> QED
  BY <1>1, <1>2, <1>3, <1>4, <1>5, <1>6, <1>7,
     <1>8, <1>9, <1>10, <1>11, <1>12, <1>13

\* main in the select loop.
LEMMA LoopIInv ==
  ASSUME IInv,
         \/ LoopTest \/ MainLock \/ UseKcp("update", "check") \/ UseKcp("input", "datagrams")
         \/ Check \/ Select \/ ReadControl \/ ReadDatagram
  PROVE  IInv'
<1> USE RequestsAre, MaxPacketsAssumption
    DEF IInv, ThreadTypes, RequestTypes, HandleTypes, WorldTypes, SetTypes, FlagTypes,
        CaptureFollowsMain, SessionFollowsRequest, VideoFollowsMain, MutexHolder,
        FaultsAreLate, ReturnIsClean, CleanupFaults, Ended, Holding, InLoop, Starting,
        Streaming, session, capture, world
<1>1. ThreadTypes'
  BY DEF LoopTest, MainLock, Lock, UseKcp, Check, Select, ReadControl, ReadDatagram
<1>2. RequestTypes'
  BY DEF LoopTest, MainLock, Lock, UseKcp, Check, Select, ReadControl, ReadDatagram
<1>3. HandleTypes'
  BY DEF LoopTest, MainLock, Lock, UseKcp, Check, Select, ReadControl, ReadDatagram
<1>4. WorldTypes'
  BY DEF LoopTest, MainLock, Lock, UseKcp, Check, Select, ReadControl, ReadDatagram, Read
<1>5. SetTypes'
  BY DEF LoopTest, MainLock, Lock, UseKcp, Check, Select, ReadControl, ReadDatagram
<1>6. FlagTypes'
  BY DEF LoopTest, MainLock, Lock, UseKcp, Check, Select, ReadControl, ReadDatagram, Read
<1>7. CaptureFollowsMain'
  BY DEF LoopTest, MainLock, Lock, UseKcp, Check, Select, ReadControl, ReadDatagram
<1>8. SessionFollowsRequest'
  BY DEF LoopTest, MainLock, Lock, UseKcp, Check, Select, ReadControl, ReadDatagram
<1>9. VideoFollowsMain'
  BY ZenonT(40)
     DEF LoopTest, MainLock, Lock, UseKcp, Check, Select, ReadControl, ReadDatagram, Read
<1>10. MutexHolder'
  BY DEF LoopTest, MainLock, Lock, UseKcp, Check, Select, ReadControl, ReadDatagram
<1>11. FaultsAreLate'
  BY DEF LoopTest, MainLock, Lock, UseKcp, Check, Select, ReadControl, ReadDatagram
<1>12. ReturnIsClean'
  BY DEF LoopTest, MainLock, Lock, UseKcp, Check, Select, ReadControl, ReadDatagram
<1>13. CleanupFaults'
  BY DEF LoopTest, MainLock, Lock, UseKcp, Check, Select, ReadControl, ReadDatagram
<1> QED
  BY <1>1, <1>2, <1>3, <1>4, <1>5, <1>6, <1>7,
     <1>8, <1>9, <1>10, <1>11, <1>12, <1>13

\* main in the cleanup.
LEMMA CleanupIInv ==
  ASSUME IInv, Teardown \/ ReadFarewell \/ Join \/ StopCapture \/ Release
  PROVE  IInv'
<1> USE RequestsAre, MaxPacketsAssumption
    DEF IInv, ThreadTypes, RequestTypes, HandleTypes, WorldTypes, SetTypes, FlagTypes,
        CaptureFollowsMain, SessionFollowsRequest, VideoFollowsMain, MutexHolder,
        FaultsAreLate, ReturnIsClean, CleanupFaults, Ended, Holding, InLoop, Starting,
        Streaming, session, capture, world
<1>1. ThreadTypes'
  BY ZenonT(40) DEF Teardown, WriteRequest, ReadFarewell, Join, StopCapture, Release
<1>2. RequestTypes'
  BY DEF Teardown, ReadFarewell, Join, StopCapture, Release
<1>3. HandleTypes'
  BY DEF Teardown, ReadFarewell, Join, StopCapture, Release
<1>4. WorldTypes'
  BY DEF Teardown, ReadFarewell, Read, Join, StopCapture, Release
<1>5. SetTypes'
  BY DEF Teardown, ReadFarewell, Join, StopCapture, Release
<1>6. FlagTypes'
  BY DEF Teardown, WriteRequest, ReadFarewell, Read, Join, StopCapture, Release
<1>7. CaptureFollowsMain'
  BY DEF Teardown, WriteRequest, ReadFarewell, Join, StopCapture, Release
<1>8. SessionFollowsRequest'
  BY ZenonT(40) DEF Teardown, WriteRequest, ReadFarewell, Join, StopCapture, Release
<1>9. VideoFollowsMain'
  BY ZenonT(40) DEF Teardown, WriteRequest, ReadFarewell, Read, Join, StopCapture, Release
<1>10. MutexHolder'
  BY ZenonT(40) DEF Teardown, WriteRequest, ReadFarewell, Join, StopCapture, Release
<1>11. FaultsAreLate'
  BY DEF Teardown, ReadFarewell, Join, StopCapture, Release
<1>12. ReturnIsClean'
  BY DEF Teardown, WriteRequest, ReadFarewell, Join, StopCapture, Release
<1>13. CleanupFaults'
  <2>1. CASE Teardown \/ ReadFarewell \/ StopCapture
    BY <2>1 DEF Teardown, ReadFarewell, StopCapture
  <2>2. CASE Join
    <3>1. state = "PLAYING" /\ Holding
      BY <2>2 DEF Join
    <3>2. req = 4
      BY <3>1
    <3>3. UNCHANGED <<req, video>> /\ fault \subseteq {"wild join"}
      BY <2>2, <3>1 DEF Join
    <3>4. fault' = fault \/ (fault' = fault \cup {"wild join"} /\ video = "none")
      BY <2>2 DEF Join
    <3> QED
      BY <3>2, <3>3, <3>4
  <2>3. CASE Release
    <3>1. Holding
      BY <2>3 DEF Release
    <3>2. UNCHANGED <<req, video>>
      BY <2>3 DEF Release
    <3>3. "wild join" \in fault' => "wild join" \in fault
      BY <2>3 DEF Release
    <3>4. fault' \cap {"stdin closed", "no kcp"} # {} => rtp = "stdin" \/ kcp = "null"
      BY <2>3, <3>1 DEF Release
    <3>5. req = 4 => rtp = "open" /\ kcp = "live"
      BY <3>1
    <3>6. req < 4 \/ req = 4
      BY RequestRange
    <3> QED
      BY <3>2, <3>3, <3>4, <3>5, <3>6
  <2> QED
    BY <2>1, <2>2, <2>3
<1> QED
  BY <1>1, <1>2, <1>3, <1>4, <1>5, <1>6, <1>7,
     <1>8, <1>9, <1>10, <1>11, <1>12, <1>13

\* The video thread, which takes no step once the process has ended.
LEMMA VideoIInv ==
  ASSUME IInv, VideoStep \/ VideoLock \/ VideoWrite
  PROVE  IInv'
<1> USE RequestsAre, MaxPacketsAssumption
    DEF IInv, ThreadTypes, RequestTypes, HandleTypes, WorldTypes, SetTypes, FlagTypes,
        CaptureFollowsMain, SessionFollowsRequest, VideoFollowsMain, MutexHolder,
        FaultsAreLate, ReturnIsClean, CleanupFaults, Ended, Holding, InLoop, Starting,
        Streaming, session, capture, world
<1>1. ThreadTypes'
  <2>1. left' \in 0..MaxPackets
    BY VideoLeft
  <2>2. video' \in {"none", "start", "test", "encode", "send", "sending", "ended"}
    BY DEF VideoStep, VideoLock, VideoWrite, VideoStart, VideoTest, VideoEncode,
           VideoSend, VideoFrameDone
  <2>3. main' \in {main, "killed"}
    BY DEF VideoStep, VideoLock, VideoWrite, VideoStart, VideoTest, VideoEncode,
           VideoSend, VideoFrameDone
  <2> QED
    BY <2>1, <2>2, <2>3
<1>2. RequestTypes'
  BY DEF VideoStep, VideoLock, VideoWrite, VideoStart, VideoTest, VideoEncode, VideoSend,
         VideoFrameDone
<1>3. HandleTypes'
  BY DEF VideoStep, VideoLock, VideoWrite, VideoStart, VideoTest, VideoEncode, VideoSend,
         VideoFrameDone
<1>4. WorldTypes'
  BY DEF VideoStep, VideoLock, VideoWrite, VideoStart, VideoTest, VideoEncode, VideoSend,
         VideoFrameDone
<1>5. SetTypes'
  BY DEF VideoStep, VideoLock, VideoWrite, VideoStart, VideoTest, VideoEncode, VideoSend,
         VideoFrameDone
<1>6. FlagTypes'
  BY DEF VideoStep, VideoLock, VideoWrite, VideoStart, VideoTest, VideoEncode, VideoSend,
         VideoFrameDone
<1>7. CaptureFollowsMain'
  BY DEF VideoStep, VideoLock, VideoWrite, VideoStart, VideoTest, VideoEncode, VideoSend,
         VideoFrameDone
<1>8. SessionFollowsRequest'
  BY DEF VideoStep, VideoLock, VideoWrite, VideoStart, VideoTest, VideoEncode, VideoSend,
         VideoFrameDone
<1>9. VideoFollowsMain'
  BY ZenonT(40)
     DEF VideoStep, VideoLock, VideoWrite, VideoStart, VideoTest, VideoEncode, VideoSend,
         VideoFrameDone
<1>10. MutexHolder'
  BY DEF VideoStep, VideoLock, VideoWrite, VideoStart, VideoTest, VideoEncode, VideoSend,
         VideoFrameDone
<1>11. FaultsAreLate'
  BY DEF VideoStep, VideoLock, VideoWrite, VideoStart, VideoTest, VideoEncode, VideoSend,
         VideoFrameDone
<1>12. ReturnIsClean'
  BY DEF VideoStep, VideoLock, VideoWrite, VideoStart, VideoTest, VideoEncode, VideoSend,
         VideoFrameDone
<1>13. CleanupFaults'
  BY DEF VideoStep, VideoLock, VideoWrite, VideoStart, VideoTest, VideoEncode, VideoSend,
         VideoFrameDone
<1> QED
  BY <1>1, <1>2, <1>3, <1>4, <1>5, <1>6, <1>7,
     <1>8, <1>9, <1>10, <1>11, <1>12, <1>13

\* Signals, the server and the network, and steps that change nothing.
LEMMA OutsideIInv ==
  ASSUME IInv, Signal \/ ServerSpeaks \/ ServerLeaves \/ Datagram \/ UNCHANGED vars
  PROVE  IInv'
<1> USE RequestsAre, MaxPacketsAssumption
    DEF IInv, ThreadTypes, RequestTypes, HandleTypes, WorldTypes, SetTypes, FlagTypes,
        CaptureFollowsMain, SessionFollowsRequest, VideoFollowsMain, MutexHolder,
        FaultsAreLate, ReturnIsClean, CleanupFaults, Ended, Holding, InLoop, Starting,
        Streaming, session, capture, world
<1>1. ThreadTypes'
  BY ZenonT(40) DEF Signal, ServerSpeaks, ServerLeaves, Datagram, vars
<1>2. RequestTypes'
  BY DEF Signal, ServerSpeaks, ServerLeaves, Datagram, vars
<1>3. HandleTypes'
  BY ZenonT(40) DEF Signal, ServerSpeaks, ServerLeaves, Datagram, vars
<1>4. WorldTypes'
  BY DEF Signal, ServerSpeaks, ServerLeaves, Datagram, vars
<1>5. SetTypes'
  BY DEF Signal, ServerSpeaks, ServerLeaves, Datagram, vars
<1>6. FlagTypes'
  BY ZenonT(40) DEF Signal, ServerSpeaks, ServerLeaves, Datagram, vars
<1>7. CaptureFollowsMain'
  <2>1. UNCHANGED <<main, client, device, encoder>>
    BY DEF Signal, ServerSpeaks, ServerLeaves, Datagram, vars
  <2> QED
    BY <2>1
<1>8. SessionFollowsRequest'
  BY ZenonT(40) DEF Signal, ServerSpeaks, ServerLeaves, Datagram, vars
<1>9. VideoFollowsMain'
  BY ZenonT(40) DEF Signal, ServerSpeaks, ServerLeaves, Datagram, vars
<1>10. MutexHolder'
  BY DEF Signal, ServerSpeaks, ServerLeaves, Datagram, vars
<1>11. FaultsAreLate'
  BY DEF Signal, ServerSpeaks, ServerLeaves, Datagram, vars
<1>12. ReturnIsClean'
  BY DEF Signal, ServerSpeaks, ServerLeaves, Datagram, vars
<1>13. CleanupFaults'
  BY DEF Signal, ServerSpeaks, ServerLeaves, Datagram, vars
<1> QED
  BY <1>1, <1>2, <1>3, <1>4, <1>5, <1>6, <1>7,
     <1>8, <1>9, <1>10, <1>11, <1>12, <1>13

\* Every step preserves the invariant.
LEMMA NextIInv == IInv /\ [Next]_vars => IInv'
BY BeginIInv, AnswerIInv, LoopIInv, CleanupIInv, VideoIInv, OutsideIInv DEF Next, MainStep

\* So it holds at all times.
LEMMA AlwaysIInv == Spec => []IInv
BY InitIInv, NextIInv, PTL DEF Spec

-----------------------------------------------------------------------------
\* The parts make up the type invariant.
LEMMA TypesTogether ==
  ThreadTypes /\ RequestTypes /\ HandleTypes /\ WorldTypes /\ SetTypes /\ FlagTypes
    => TypeOK
<1>1. ASSUME ThreadTypes
      PROVE  main \in {"connect", "camera", "encoder", "request", "answer", "loop",
                       "lock update", "update", "check", "select", "control", "datagrams",
                       "lock input", "input", "cleanup", "farewell", "join", "release",
                       "session", "exit", "aborted", "killed"}
  BY <1>1 DEF ThreadTypes, Starting, Streaming, InLoop
<1>2. ASSUME RequestTypes
      PROVE  req \in 1..Len(Requests)
  BY <1>2, RequestsAre DEF RequestTypes
<1> QED
  BY <1>1, <1>2, Zenon
     DEF TypeOK, ThreadTypes, RequestTypes, HandleTypes, WorldTypes, SetTypes, FlagTypes

\* Whatever makes main leave its loop, the buffers, the encoder, the sockets and
\* the control block stay while the video thread has a frame; and the calls of the
\* two threads that change the control block exclude each other.
THEOREM CameraUsesLive == Spec => []UseInv
<1>1. IInv => VideoUsesLive
  BY RequestsAre
     DEF IInv, ThreadTypes, RequestTypes, CaptureFollowsMain, SessionFollowsRequest,
         VideoFollowsMain, VideoUsesLive, Ended, Holding
<1>2. IInv => KcpOneWriter
  BY DEF IInv, MutexHolder, KcpOneWriter, Ended
<1>3. IInv => UseInv
  BY <1>1, <1>2, TypesTogether DEF IInv, UseInv
<1> QED
  BY AlwaysIInv, <1>3, PTL

\* However far the program came, a return from main has given everything back and
\* has outlived the video thread.
THEOREM CameraReturnsClean == Spec => []ReturnIsClean
<1>1. IInv => ReturnIsClean
  BY DEF IInv
<1> QED
  BY AlwaysIInv, <1>1, PTL

\* Descriptor 0 is closed and ikcp_release aborts only before the session was set
\* up; pthread_join gets an uninitialised id only if pthread_create failed.
THEOREM CameraCleanupFaults == Spec => []CleanupFaults
<1>1. IInv => CleanupFaults
  BY DEF IInv
<1> QED
  BY AlwaysIInv, <1>1, PTL
=============================================================================
