---------------------------- MODULE CameraClient ----------------------------
(* The camera's program (camera/rtsp_client.c): main connects, starts the    *)
(* capture and the encoder, does the RTSP handshake, starts the video thread *)
(* and then serves its two sockets in a select loop until `running' is       *)
(* cleared by a signal, by the server or by an error; the cleanup sends      *)
(* TEARDOWN, joins the video thread and releases everything.  The video      *)
(* thread takes frames and sends each NAL unit over KCP, under a mutex, or   *)
(* over the RTSP connection.  The server and the network are external: they  *)
(* answer, stay silent, close or reset the connection as they like.          *)
EXTENDS Naturals, Sequences

CONSTANT MaxPackets     \* the packets one frame is sent in, at most

ASSUME MaxPacketsAssumption == MaxPackets \in Nat \ {0}

VARIABLES main,         \* where main is
          video,        \* where the video thread is ("none": never created)
          left,         \* the packets of this frame still to be sent
          running, state, transType,
          req,          \* the request of the handshake main is at
          ready,        \* the descriptors select reported
          client,       \* session.client.fd
          rtp,          \* session.rtp_socket.fd ("stdin": the 0 of a static)
          kcp, mutex,   \* session.kcp, and who holds session.mutex
          device, encoder,
          owed, pending, peer, datagram,    \* the server's side and the network
          fault,        \* what the program did wrong on the way
          selectFailed  \* select failed although nobody asked to stop

capture == <<device, encoder>>
world == <<owed, pending, peer, datagram>>
session == <<state, transType, req, client, rtp, kcp>>
vars == <<main, video, left, running, session, ready, mutex, capture, world,
          fault, selectFailed>>

Requests == <<"OPTIONS", "ANNOUNCE", "SETUP", "RECORD">>

Ended == main \in {"exit", "aborted", "killed"}

Init ==
    /\ main = "connect" /\ video = "none" /\ left = 0 /\ running = TRUE
    /\ state = "INIT" /\ transType = "unset" /\ req = 1 /\ ready = {}
    /\ client = "stdin" /\ rtp = "stdin" /\ kcp = "null" /\ mutex = "unset"
    /\ device = "off" /\ encoder = FALSE
    /\ owed = FALSE /\ pending = "none" /\ peer = "up" /\ datagram = FALSE
    /\ fault = {} /\ selectFailed = FALSE

-----------------------------------------------------------------------------
(* Starting: each step may fail, and undoes the steps before it.             *)

\* tcp_client_connect: a failure leaves no descriptor behind.
Connect ==
    /\ main = "connect"
    /\ \E ok \in BOOLEAN :
          /\ main' = IF ok THEN "camera" ELSE "exit"
          /\ client' = IF ok THEN "open" ELSE "closed"
    /\ UNCHANGED <<video, left, running, state, transType, req, ready, rtp, kcp,
                   mutex, capture, world, fault, selectFailed>>

\* A step of starting failed: v4l2_cleanup and tcp_close_client, and return.
GiveUp ==
    /\ main' = "exit" /\ device' = "off" /\ client' = "closed"
    /\ UNCHANGED encoder

\* v4l2_dev_init, v4l2_set_format, v4l2_init_buffer and v4l2_stream_on.
StartCapture ==
    /\ main = "camera"
    /\ \/ GiveUp
       \/ main' = "encoder" /\ device' = "streaming" /\ UNCHANGED <<client, encoder>>
    /\ UNCHANGED <<video, left, running, state, transType, req, ready, rtp, kcp,
                   mutex, world, fault, selectFailed>>

\* Variant: without an encoder the capture is undone, the connection is not.
EncoderKeepsConnection ==
    /\ main = "encoder"
    /\ \/ main' = "exit" /\ device' = "off" /\ UNCHANGED <<client, encoder>>
       \/ main' = "request" /\ encoder' = TRUE /\ UNCHANGED <<client, device>>
    /\ UNCHANGED <<video, left, running, state, transType, req, ready, rtp, kcp,
                   mutex, world, fault, selectFailed>>

\* h264_encoder_init.
StartEncoder ==
    /\ main = "encoder"
    /\ \/ GiveUp
       \/ main' = "request" /\ encoder' = TRUE /\ UNCHANGED <<client, device>>
    /\ UNCHANGED <<video, left, running, state, transType, req, ready, rtp, kcp,
                   mutex, world, fault, selectFailed>>

-----------------------------------------------------------------------------
(* The RTSP connection.                                                      *)

Readable == pending # "none" \/ peer # "up"

\* recv: what has come first, then the end of the stream.
Received == IF pending # "none" THEN pending ELSE peer

\* tcp_read as a step: it waits until there is something to return.
Read ==
    /\ Readable
    /\ pending' = "none"
    /\ UNCHANGED <<owed, peer, datagram>>

\* tcp_write of a request: the server owes an answer.  A write after the reset
\* fails, or ends the process by SIGPIPE, which nobody ignores.
WriteRequest(sent, failed) ==
    \/ peer # "reset" /\ main' = sent /\ owed' = TRUE
    \/ peer = "reset" /\ main' \in {failed, "killed"} /\ UNCHANGED owed

SendRequest ==
    /\ main = "request"
    /\ WriteRequest("answer", "cleanup")
    /\ UNCHANGED <<video, left, running, session, ready, mutex, capture,
                   pending, peer, datagram, fault, selectFailed>>

\* Variant: a session over TCP gets no KCP control block.
SetupKcpForUdp ==
    \/ main' = "cleanup" /\ UNCHANGED <<state, transType, req, rtp, kcp, mutex>>
    \/ /\ transType' \in {"udp", "tcp"}
       /\ \/ rtp' = "closed" /\ main' = "cleanup" /\ UNCHANGED <<state, req, kcp, mutex>>
          \/ /\ rtp' = "open" /\ state' = "READY" /\ mutex' = "free"
             /\ kcp' = IF transType' = "udp" THEN "live" ELSE "null"
             /\ req' = req + 1 /\ main' = "request"

\* The answer to SETUP: rtsp_parse_setup_response may find no transport, and
\* udp_init may fail; then the state, the KCP control block and the mutex.
SetupAnswered ==
    \/ main' = "cleanup" /\ UNCHANGED <<state, transType, req, rtp, kcp, mutex>>
    \/ /\ transType' \in {"udp", "tcp"}
       /\ \/ rtp' = "closed" /\ main' = "cleanup" /\ UNCHANGED <<state, req, kcp, mutex>>
          \/ /\ rtp' = "open" /\ state' = "READY" /\ kcp' = "live" /\ mutex' = "free"
             /\ req' = req + 1 /\ main' = "request"

\* The answer to RECORD: the state, then pthread_create, which may fail.
RecordAnswered ==
    /\ state' = "PLAYING"
    /\ \/ video' = "start" /\ main' = "loop"
       \/ UNCHANGED video /\ main' = "cleanup"

\* rtsp_client_read_response in the handshake: any answer will do.
ReadAnswer ==
    /\ main = "answer"
    /\ Read
    /\ \/ /\ Received \in {"closed", "reset"}
          /\ main' = "cleanup"
          /\ UNCHANGED <<state, transType, req, rtp, kcp, mutex, video>>
       \/ /\ Received \in {"answer", "stop"}
          /\ Requests[req] \in {"OPTIONS", "ANNOUNCE"}
          /\ req' = req + 1 /\ main' = "request"
          /\ UNCHANGED <<state, transType, rtp, kcp, mutex, video>>
       \/ /\ Received \in {"answer", "stop"}
          /\ Requests[req] = "SETUP"
          /\ SetupAnswered
          /\ UNCHANGED video
       \/ /\ Received \in {"answer", "stop"}
          /\ Requests[req] = "RECORD"
          /\ RecordAnswered
          /\ UNCHANGED <<transType, req, rtp, kcp, mutex>>
    /\ UNCHANGED <<left, running, ready, client, capture, fault, selectFailed>>

-----------------------------------------------------------------------------
(* The select loop.                                                          *)

\* while (running): on the way to select, KCP is driven when its time has come.
LoopTest ==
    /\ main = "loop"
    /\ IF running THEN main' \in {"lock update", "select"} ELSE main' = "cleanup"
    /\ UNCHANGED <<video, left, running, session, ready, mutex, capture, world,
                   fault, selectFailed>>

\* pthread_mutex_lock in main.
Lock(from, to) ==
    /\ main = from
    /\ mutex = "free" /\ mutex' = "main" /\ main' = to
    /\ UNCHANGED <<video, left, running, session, ready, capture, world, fault,
                   selectFailed>>

\* ikcp_update or ikcp_input, then pthread_mutex_unlock.
UseKcp(from, to) ==
    /\ main = from
    /\ mutex' = "free" /\ main' = to
    /\ UNCHANGED <<video, left, running, session, ready, capture, world, fault,
                   selectFailed>>

\* ikcp_check reads the control block outside the mutex.
Check ==
    /\ main = "check"
    /\ main' = "select"
    /\ UNCHANGED <<video, left, running, session, ready, mutex, capture, world,
                   fault, selectFailed>>

\* select: the descriptors that are ready, none after the timeout, or an error,
\* which leaves the loop (a signal's EINTR comes with running cleared).
Select ==
    /\ main = "select"
    /\ \/ /\ main' = "cleanup"
          /\ selectFailed' = running
          /\ UNCHANGED ready
       \/ /\ ready' = (IF Readable THEN {"tcp"} ELSE {})
                      \cup (IF datagram THEN {"udp"} ELSE {})
          /\ main' = IF ready' = {} THEN "loop" ELSE "control"
          /\ UNCHANGED selectFailed
    /\ UNCHANGED <<video, left, running, session, mutex, capture, world, fault>>

\* Variant: the end of the stream is taken for nothing to read.
StopsOnError(received) == received \in {"stop", "reset"}

\* A request to stop, the end of the stream and an error end the loop.
StopsLoop(received) == received \in {"stop", "closed", "reset"}

\* The RTSP socket is ready.
ReadControl ==
    /\ main = "control"
    /\ main' = IF "udp" \in ready THEN "datagrams" ELSE "loop"
    /\ \/ "tcp" \in ready /\ Read /\ running' = (running /\ ~StopsLoop(Received))
       \/ "tcp" \notin ready /\ UNCHANGED <<running, world>>
    /\ UNCHANGED <<video, left, session, ready, mutex, capture, fault, selectFailed>>

\* The UDP socket is ready: udp_recv until nothing is left.
ReadDatagram ==
    /\ main = "datagrams"
    /\ main' = IF datagram THEN "lock input" ELSE "loop"
    /\ datagram' = FALSE
    /\ UNCHANGED <<video, left, running, session, ready, mutex, capture, owed,
                   pending, peer, fault, selectFailed>>

-----------------------------------------------------------------------------
(* The cleanup.                                                              *)

\* TEARDOWN, once there is a session; what it returns is not looked at.
Teardown ==
    /\ main = "cleanup"
    /\ \/ state = "INIT" /\ main' = "release" /\ UNCHANGED owed
       \/ state # "INIT" /\ WriteRequest("farewell", "farewell")
    /\ UNCHANGED <<video, left, running, session, ready, mutex, capture, pending,
                   peer, datagram, fault, selectFailed>>

\* Whatever comes is taken for the answer.
ReadFarewell ==
    /\ main = "farewell"
    /\ Read
    /\ main' = IF state = "PLAYING" THEN "join" ELSE "release"
    /\ UNCHANGED <<video, left, running, session, ready, mutex, capture, fault,
                   selectFailed>>

\* Variant: a video thread that was told to stop is not waited for.
JoinIfRunning ==
    /\ main = "join"
    /\ \/ video = "ended" \/ ~running
    /\ main' = "release"
    /\ UNCHANGED <<video, left, running, session, ready, mutex, capture, world,
                   fault, selectFailed>>

\* pthread_join; of a thread that pthread_create did not create it is the use
\* of an uninitialised thread id.
Join ==
    /\ main = "join"
    /\ \/ video = "ended" /\ main' = "release" /\ UNCHANGED fault
       \/ /\ video = "none"
          /\ fault' = fault \cup {"wild join"}
          /\ main' \in {"release", "aborted"}
    /\ UNCHANGED <<video, left, running, session, ready, mutex, capture, world,
                   selectFailed>>

\* h264_encoder_cleanup, v4l2_stream_off and v4l2_cleanup.
StopCapture ==
    /\ main = "release"
    /\ main' = "session" /\ encoder' = FALSE /\ device' = "off"
    /\ UNCHANGED <<video, left, running, session, ready, mutex, world, fault,
                   selectFailed>>

\* rtsp_session_cleanup (which closes descriptor 0 when udp_init was never
\* reached) and ikcp_release, which asserts that there is a control block.
Release ==
    /\ main = "session"
    /\ rtp' = "closed" /\ client' = "closed" /\ state' = "INIT"
    /\ kcp' = IF kcp = "live" THEN "freed" ELSE kcp
    /\ fault' = fault \cup (IF rtp = "stdin" THEN {"stdin closed"} ELSE {})
                      \cup (IF kcp = "null" THEN {"no kcp"} ELSE {})
    /\ main' = IF kcp = "null" THEN "aborted" ELSE "exit"
    /\ UNCHANGED <<video, left, running, transType, req, ready, mutex, capture,
                   world, selectFailed>>

-----------------------------------------------------------------------------
(* The video thread.  It goes with the process.                              *)

\* Its buffer cannot be had: it returns at once.
VideoStart ==
    /\ ~Ended /\ video = "start"
    /\ video' \in {"test", "ended"}
    /\ UNCHANGED <<main, left, running, session, ready, mutex, capture, world,
                   fault, selectFailed>>

\* while (running && state == PLAYING); v4l2_dqbuf may have no frame.
VideoTest ==
    /\ ~Ended /\ video = "test"
    /\ IF running /\ state = "PLAYING" THEN video' \in {"test", "encode"}
                                       ELSE video' = "ended"
    /\ UNCHANGED <<main, left, running, session, ready, mutex, capture, world,
                   fault, selectFailed>>

\* mjpeg_to_h264 and split_annexb_nalus; no packet when the encoder fails.
VideoEncode ==
    /\ ~Ended /\ video = "encode"
    /\ video' = "send" /\ left' \in 0..MaxPackets
    /\ UNCHANGED <<main, running, session, ready, mutex, capture, world, fault,
                   selectFailed>>

\* rtp_send_h264 over KCP: the mutex, ikcp_send and ikcp_flush, the mutex.
VideoLock ==
    /\ ~Ended /\ video = "send" /\ left > 0 /\ transType = "udp"
    /\ mutex = "free" /\ mutex' = "video" /\ video' = "sending"
    /\ UNCHANGED <<main, left, running, session, ready, capture, world, fault,
                   selectFailed>>

VideoSend ==
    /\ ~Ended /\ video = "sending"
    /\ mutex' = "free" /\ video' = "send" /\ left' = left - 1
    /\ UNCHANGED <<main, running, session, ready, capture, world, fault, selectFailed>>

\* rtp_send_h264 over TCP: tcp_write waits while the server does not read, and
\* after a reset fails or ends the process.
VideoWrite ==
    /\ ~Ended /\ video = "send" /\ left > 0 /\ transType = "tcp"
    /\ left' = left - 1
    /\ \/ UNCHANGED main
       \/ peer = "reset" /\ main' = "killed"
    /\ UNCHANGED <<video, running, session, ready, mutex, capture, world, fault,
                   selectFailed>>

\* v4l2_qbuf.
VideoFrameDone ==
    /\ ~Ended /\ video = "send" /\ left = 0
    /\ video' = "test"
    /\ UNCHANGED <<main, left, running, session, ready, mutex, capture, world,
                   fault, selectFailed>>

-----------------------------------------------------------------------------
(* The outside.                                                              *)

\* SIGINT or SIGTERM, on either thread.
Signal ==
    /\ ~Ended /\ running
    /\ running' = FALSE
    /\ UNCHANGED <<main, video, left, session, ready, mutex, capture, world, fault,
                   selectFailed>>

\* The server answers, and may refuse (a 400) once the stream is on.
ServerSpeaks ==
    /\ ~Ended /\ peer = "up" /\ pending = "none"
    /\ \/ owed /\ pending' = "answer" /\ owed' = FALSE
       \/ state = "PLAYING" /\ pending' = "stop" /\ UNCHANGED owed
    /\ UNCHANGED <<main, video, left, running, session, ready, mutex, capture,
                   peer, datagram, fault, selectFailed>>

\* The connection is closed by the server, or lost.
ServerLeaves ==
    /\ ~Ended /\ client = "open"
    /\ \/ peer = "up" /\ peer' = "closed"
       \/ peer # "reset" /\ peer' = "reset"
    /\ UNCHANGED <<main, video, left, running, session, ready, mutex, capture,
                   owed, pending, datagram, fault, selectFailed>>

\* A datagram from the server reaches the UDP socket.
Datagram ==
    /\ ~Ended /\ rtp = "open" /\ ~datagram
    /\ datagram' = TRUE
    /\ UNCHANGED <<main, video, left, running, session, ready, mutex, capture,
                   owed, pending, peer, fault, selectFailed>>

-----------------------------------------------------------------------------
MainLock == Lock("lock update", "update") \/ Lock("lock input", "input")

MainStep ==
    \/ Connect \/ StartCapture \/ StartEncoder \/ SendRequest \/ ReadAnswer
    \/ LoopTest \/ UseKcp("update", "check") \/ UseKcp("input", "datagrams")
    \/ Check \/ Select \/ ReadControl \/ ReadDatagram
    \/ ReadFarewell \/ Join \/ StopCapture \/ Release

VideoStep ==
    \/ VideoStart \/ VideoTest \/ VideoEncode \/ VideoSend \/ VideoFrameDone

Next ==
    \/ MainStep \/ MainLock \/ Teardown
    \/ VideoStep \/ VideoLock \/ VideoWrite
    \/ Signal \/ ServerSpeaks \/ ServerLeaves \/ Datagram

Spec == Init /\ [][Next]_vars

\* The scheduler runs both threads, and a thread that waits for the mutex gets
\* it although the other takes it again and again.  Over TCP a write waits for
\* the server, which need not read as long as the connection stands.
FairSpec ==
    /\ Spec
    /\ WF_vars(MainStep) /\ SF_vars(MainLock)
    /\ WF_vars(Teardown /\ (state = "INIT" \/ transType = "udp" \/ peer # "up"))
    /\ WF_vars(VideoStep) /\ SF_vars(VideoLock)
    /\ WF_vars(VideoWrite /\ peer # "up")

-----------------------------------------------------------------------------
\* Every variable keeps to the values the code gives it.
TypeOK ==
    /\ main \in {"connect", "camera", "encoder", "request", "answer", "loop",
                 "lock update", "update", "check", "select", "control", "datagrams",
                 "lock input", "input", "cleanup", "farewell", "join", "release",
                 "session", "exit", "aborted", "killed"}
    /\ video \in {"none", "start", "test", "encode", "send", "sending", "ended"}
    /\ left \in 0..MaxPackets
    /\ running \in BOOLEAN /\ selectFailed \in BOOLEAN /\ encoder \in BOOLEAN
    /\ state \in {"INIT", "READY", "PLAYING"} /\ transType \in {"unset", "udp", "tcp"}
    /\ req \in 1..Len(Requests) /\ ready \subseteq {"tcp", "udp"}
    /\ client \in {"stdin", "open", "closed"} /\ rtp \in {"stdin", "open", "closed"}
    /\ kcp \in {"null", "live", "freed"} /\ mutex \in {"unset", "free", "main", "video"}
    /\ device \in {"off", "streaming"}
    /\ owed \in BOOLEAN /\ pending \in {"none", "answer", "stop"}
    /\ peer \in {"up", "closed", "reset"} /\ datagram \in BOOLEAN
    /\ fault \subseteq {"wild join", "stdin closed", "no kcp"}

\* Nothing the video thread works on is released under it: while it has a frame
\* the buffers are mapped and the encoder, both sockets and the control block
\* are there, whatever made main leave its loop.
VideoUsesLive ==
    (video \in {"encode", "send", "sending"} /\ ~Ended) =>
        /\ device = "streaming" /\ encoder
        /\ client = "open" /\ rtp = "open" /\ kcp = "live" /\ state = "PLAYING"

\* Of the calls into KCP only ikcp_check of main meets one of the video thread;
\* the calls that change the control block exclude each other.
KcpOneWriter ==
    ~(main \in {"update", "input"} /\ video = "sending")

\* The threads use only what is there, and write to the KCP object one at a time.
UseInv == TypeOK /\ VideoUsesLive /\ KcpOneWriter

\* However early or late it fails, a program that returns from main has given
\* back the device, the encoder, the sockets and the control block, and the
\* video thread is over.
ReturnIsClean ==
    main = "exit" =>
        /\ device = "off" /\ ~encoder
        /\ client = "closed" /\ rtp # "open" /\ kcp # "live"
        /\ video \in {"none", "ended"}

\* The cleanup goes wrong only where the handshake ended before the session was
\* set up (descriptor 0 is closed, ikcp_release aborts) or where the video
\* thread could not be created (the join); never once the stream has run.
CleanupFaults ==
    /\ fault \cap {"stdin closed", "no kcp"} # {} => req < Len(Requests)
    /\ "wild join" \in fault => req = Len(Requests) /\ video = "none"

\* main waits for a server that neither answers nor closes.
WaitsForServer ==
    \/ main \in {"answer", "farewell"} /\ ~Readable
    \/ main = "cleanup" /\ state # "INIT" /\ transType = "tcp" /\ peer = "up"
    \/ main = "join" /\ video = "send" /\ transType = "tcp" /\ peer = "up"

\* A failed select leaves the loop without clearing running: the join waits for
\* a video thread that nobody told to stop.
JoinsRunning == main = "join" /\ running /\ selectFailed

\* The loop over udp_recv has no other end than an empty socket.
Flooded ==
    /\ [](main \in {"datagrams", "lock input", "input"})
    /\ []<>(main = "input")

\* A stop, asked for by a signal or by the server, or met as the end of the
\* connection, ends the program, unless for ever it waits for a silent server,
\* or it joins after a failed select that no signal follows, or datagrams come
\* as fast as they are read.
CameraStopEnds ==
    [](~running \/ main = "cleanup" \/ (video # "none" /\ peer # "up")
        => <>(Ended \/ []WaitsForServer \/ []JoinsRunning \/ Flooded))
=============================================================================
