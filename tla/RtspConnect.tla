---------------------------- MODULE RtspConnect ----------------------------
(***************************************************************************)
(* The RTSP side of the server: one RtspConnect per camera connection       *)
(* (media/RtspConnect.cc), the session registry (media/SessionManager.cc),  *)
(* the loop's table of UDP connections (reactor/EventLoop.cc) and the       *)
(* callbacks that tie them together (reactor/MultiThreadEventLoop.cc).      *)
(*                                                                          *)
(* A connection is served by its loop's thread; RECORD adds a KCP update    *)
(* thread per connection, which the loop thread joins when it releases the  *)
(* session.  Requests are abstracted to the header fields the handlers look *)
(* at.  A null or wild pointer that is dereferenced, an object used after   *)
(* its destruction and std::terminate end the process: `fault' records the  *)
(* first of them and no step follows it.                                    *)
(***************************************************************************)
EXTENDS Naturals, Sequences, FiniteSets

CONSTANTS Conns,       \* camera connections
          LoopOf,      \* the sub loop that serves each of them
          Dialogue,    \* Dialogue[k]: the requests a camera may send k-th
          CamKcpInit   \* values the uninitialised member _camKcp may have

Methods == {"OPTIONS", "ANNOUNCE", "SETUP", "RECORD", "TEARDOWN", "OTHER"}
Transports == {"none", "UDP", "TCP", "bad"}
Tracks == {"video", "audio", "other"}  \* trackID=0, trackID=1, neither

\* The requests of a client: a SETUP names a transport and a track, a RECORD and
\* a TEARDOWN carry the right session id or not, and a RECORD a KcpId or none.
Requests ==
  [method : {"OPTIONS", "ANNOUNCE", "OTHER"}]
    \cup [method : {"SETUP"}, transport : Transports, track : Tracks]
    \cup [method : {"RECORD"}, session : BOOLEAN, kcpid : {"none", "number", "bad"}]
    \cup [method : {"TEARDOWN"}, session : BOOLEAN]

ASSUME ConnsFinite == IsFiniteSet(Conns)
ASSUME LoopOfIsFunction == DOMAIN LoopOf = Conns
ASSUME DialogueOfRequests == Dialogue \in Seq(SUBSET Requests)
ASSUME CamKcpInitValues == CamKcpInit \subseteq {"null", "wild"} /\ CamKcpInit # {}

\* What camera/rtsp_client.c sends over UDP: OPTIONS, ANNOUNCE, SETUP of its one
\* track, RECORD with the id of its KCP, TEARDOWN.
UdpCamera == <<
  {[method |-> "OPTIONS"]},
  {[method |-> "ANNOUNCE"]},
  {[method |-> "SETUP", transport |-> "UDP", track |-> "video"]},
  {[method |-> "RECORD", session |-> TRUE, kcpid |-> "number"]},
  {[method |-> "TEARDOWN", session |-> TRUE]} >>

NoUdp == <<>>

\* A UDP connection is named by its camera connection and the request that made it.
UdpConns == Conns \X (1..Len(Dialogue))

\* Session ids are values of _sessionCounter (the time in front of it only makes
\* them differ more); 0 is no id.  A connection increments it at most twice.
Ids == Nat

VARIABLES phase,       \* life of the TCP connection: "new", "open", "closed"
          pc,          \* what the loop thread does for it: "idle"; "addCam", the end
                       \* of the constructor; "removeCam", "join", "free", the
                       \* parts of releaseSession; "stuck", inside removeCam for ever
          closing,     \* releaseSession was called by onClose, not by TEARDOWN
          sent,        \* requests the client has sent
          state,       \* RtspConnect::_state
          transport,   \* _session.transportType
          id,          \* _session.sessionId
          video,       \* _session.videoRtpConn
          audio,       \* _session.audioRtpConn
          camKcp,      \* _camKcp: "null", "wild" or "live"
          kcpRunning,  \* _kcpRunning
          kpc,         \* the KCP thread: "none", "test", "lock", "update", "ended"
          reply,       \* status code of the last response, 0 if none
          counter,     \* SessionManager::_sessionCounter
          sessions,    \* ids in SessionManager::_sessions
          cams,        \* ids in MonitorServer::_cams
          udpConns,    \* the loops' _udpConns
          callbacks,   \* UDP connections whose message callback is set
          fault        \* what ended the process, "none" while it runs

connVars == <<phase, pc, closing, sent, state, transport, id, video, audio, reply>>
kcpVars == <<camKcp, kcpRunning, kpc>>
sharedVars == <<counter, sessions, cams, udpConns, callbacks>>
vars == <<connVars, kcpVars, sharedVars, fault>>

Faults == {"none", "null video connection", "thread overwritten", "wild kcp",
           "null kcp", "use after free", "uncaught exception"}

TypeOK ==
  /\ phase \in [Conns -> {"new", "open", "closed"}]
  /\ pc \in [Conns -> {"idle", "addCam", "removeCam", "join", "free", "stuck"}]
  /\ closing \in [Conns -> BOOLEAN]
  /\ sent \in [Conns -> 0..Len(Dialogue)]
  /\ state \in [Conns -> {"INIT", "READY", "PLAYING"}]
  /\ transport \in [Conns -> Transports]
  /\ id \in [Conns -> Ids]
  /\ video \in [Conns -> UdpConns \cup {NoUdp}]
  /\ audio \in [Conns -> UdpConns \cup {NoUdp}]
  /\ camKcp \in [Conns -> {"null", "wild", "live"}]
  /\ kcpRunning \in [Conns -> BOOLEAN]
  /\ kpc \in [Conns -> {"none", "test", "lock", "update", "ended"}]
  /\ reply \in [Conns -> {0, 200, 400, 454, 455, 501}]
  /\ counter \in Ids
  /\ sessions \subseteq Ids
  /\ cams \subseteq Ids
  /\ udpConns \subseteq UdpConns
  /\ callbacks \subseteq UdpConns
  /\ fault \in Faults

Init ==
  /\ phase = [c \in Conns |-> "new"]
  /\ pc = [c \in Conns |-> "idle"]
  /\ closing = [c \in Conns |-> FALSE]
  /\ sent = [c \in Conns |-> 0]
  /\ state = [c \in Conns |-> "INIT"]
  /\ transport = [c \in Conns |-> "none"]
  /\ id = [c \in Conns |-> 0]
  /\ video = [c \in Conns |-> NoUdp]
  /\ audio = [c \in Conns |-> NoUdp]
  /\ camKcp \in [Conns -> CamKcpInit]
  /\ kcpRunning = [c \in Conns |-> FALSE]
  /\ kpc = [c \in Conns |-> "none"]
  /\ reply = [c \in Conns |-> 0]
  /\ counter = 0
  /\ sessions = {}
  /\ cams = {}
  /\ udpConns = {}
  /\ callbacks = {}
  /\ fault = "none"

\* The loop thread serves one event at a time: it is free for c when it is inside
\* neither the constructor nor releaseSession for a connection of the same loop.
LoopFree(c) == /\ fault = "none"
               /\ \A d \in Conns : LoopOf[d] = LoopOf[c] => pc[d] = "idle"

\* A removeCam that never returns keeps the monitor server's _mtx, for which addCam and
\* removeCam wait.
MonitorStuck == \E c \in Conns : pc[c] = "stuck"

Respond(c, code) == reply' = [reply EXCEPT ![c] = code]

\* The next request of c is r, and the loop is about to dispatch it.
Receive(c, r) ==
  /\ LoopFree(c)
  /\ phase[c] = "open"
  /\ sent[c] < Len(Dialogue)
  /\ r \in Dialogue[sent[c] + 1]
  /\ sent' = [sent EXCEPT ![c] = @ + 1]

\* std::thread::joinable()
Joinable(c) == kpc[c] # "none"

-----------------------------------------------------------------------------
(* Faulty variants of the code, one for each way a change to it could break *)
(* a property below.  No specification uses them.                           *)

\* releaseSession that does not tell the KCP thread to end.
RemoveSilently(c) ==
  /\ cams' = cams \ {id[c]}
  /\ UNCHANGED kcpRunning

\* releaseSession that does not tell the monitor server.
RemoveKeepsCam(c) ==
  /\ kcpRunning' = [kcpRunning EXCEPT ![c] = FALSE]
  /\ UNCHANGED cams

\* releaseSession that detaches the thread instead of joining it.
ReleaseWithoutJoin(c) ==
  /\ pc[c] = "join"
  /\ fault = "none"
  /\ pc' = [pc EXCEPT ![c] = "free"]
  /\ UNCHANGED <<phase, closing, sent, state, transport, id, video, audio, reply,
                 kcpVars, sharedVars, fault>>

\* releaseSession that forgets to take the UDP connections out of the loop.
StillRegistered(c) == udpConns

\* TEARDOWN that takes the camera off the monitor server and leaves the rest of the
\* release to the close.
TeardownOnlyRemovesCam(c, r) ==
  /\ r.method = "TEARDOWN"
  /\ r.session
  /\ Receive(c, r)
  /\ cams' = cams \ {id[c]}
  /\ Respond(c, 200)
  /\ UNCHANGED <<phase, pc, closing, state, transport, id, video, audio, kcpVars, counter,
                 sessions, udpConns, callbacks, fault>>

-----------------------------------------------------------------------------
(* onNewConnection: the functor run in the loop builds the TcpConnection    *)
(* and its RtspConnect, whose constructor registers the session.            *)

\* generateSessionId increments _sessionCounter without a lock: of two loops that
\* construct at once (the other one has done nothing since) one increment may be
\* lost, and both draw the same id.
NewIds(c) ==
  {counter + 1}
    \cup {id[d] : d \in {e \in Conns : /\ LoopOf[e] # LoopOf[c]
                                       /\ phase[e] = "open" /\ sent[e] = 0
                                       /\ pc[e] \in {"addCam", "idle"}
                                       /\ id[e] + 1 = counter}}

\* generateSessionId and addSession
NewConnection(c) ==
  /\ LoopFree(c)
  /\ phase[c] = "new"
  /\ phase' = [phase EXCEPT ![c] = "open"]
  /\ \E i \in NewIds(c) :
       /\ id' = [id EXCEPT ![c] = i]
       /\ sessions' = sessions \cup {i}
       /\ counter' = IF i > counter THEN counter + 2 ELSE counter
  /\ pc' = [pc EXCEPT ![c] = "addCam"]
  /\ UNCHANGED <<closing, sent, state, transport, video, audio, reply, kcpVars, cams,
                 udpConns, callbacks, fault>>

\* addCam, under the monitor server's mutex
AddCam(c) ==
  /\ pc[c] = "addCam"
  /\ fault = "none" /\ ~MonitorStuck
  /\ cams' = cams \cup {id[c]}
  /\ pc' = [pc EXCEPT ![c] = "idle"]
  /\ UNCHANGED <<phase, closing, sent, state, transport, id, video, audio, reply, kcpVars,
                 counter, sessions, udpConns, callbacks, fault>>

-----------------------------------------------------------------------------
(* handleRequest, one action per handler.                                  *)

\* OPTIONS, ANNOUNCE (its SDP is stored and never read) and unknown methods.
HandleOther(c, r) ==
  /\ r.method \in {"OPTIONS", "ANNOUNCE", "OTHER"}
  /\ Receive(c, r)
  /\ Respond(c, IF r.method = "OTHER" THEN 501 ELSE 200)
  /\ UNCHANGED <<phase, pc, closing, state, transport, id, video, audio, kcpVars,
                 sharedVars, fault>>

\* A SETUP without a Transport header, or with one parseTransport rejects.
HandleSetupRefused(c, r) ==
  /\ r.method = "SETUP"
  /\ r.transport \in {"none", "bad"}
  /\ Receive(c, r)
  /\ Respond(c, 400)
  /\ UNCHANGED <<phase, pc, closing, state, transport, id, video, audio, kcpVars,
                 sharedVars, fault>>

\* UDP: a new UdpConnection for the track replaces the session's, and the loop
\* watches it from now on; the one it replaces stays in the loop's table.
HandleSetupUdp(c, r) ==
  /\ r.method = "SETUP"
  /\ r.transport = "UDP"
  /\ Receive(c, r)
  /\ LET u == <<c, sent[c] + 1>> IN
       /\ video' = IF r.track = "video" THEN [video EXCEPT ![c] = u] ELSE video
       /\ audio' = IF r.track = "audio" THEN [audio EXCEPT ![c] = u] ELSE audio
       /\ udpConns' = IF r.track = "other" THEN udpConns ELSE udpConns \cup {u}
  /\ transport' = [transport EXCEPT ![c] = "UDP"]
  /\ state' = [state EXCEPT ![c] = "READY"]
  /\ Respond(c, 200)
  /\ UNCHANGED <<phase, pc, closing, id, kcpVars, counter, sessions, cams, callbacks, fault>>

HandleSetupTcp(c, r) ==
  /\ r.method = "SETUP"
  /\ r.transport = "TCP"
  /\ Receive(c, r)
  /\ transport' = [transport EXCEPT ![c] = "TCP"]
  /\ state' = [state EXCEPT ![c] = "READY"]
  /\ Respond(c, 200)
  /\ UNCHANGED <<phase, pc, closing, id, video, audio, kcpVars, sharedVars, fault>>

\* RECORD and TEARDOWN without the right session id.
HandleWrongSession(c, r) ==
  /\ r.method \in {"RECORD", "TEARDOWN"}
  /\ ~r.session
  /\ Receive(c, r)
  /\ Respond(c, 454)
  /\ UNCHANGED <<phase, pc, closing, state, transport, id, video, audio, kcpVars,
                 sharedVars, fault>>

\* _kcpRunning = true; _kcpThread = std::thread(...)
StartKcpThread(c) ==
  /\ kcpRunning' = [kcpRunning EXCEPT ![c] = TRUE]
  /\ kpc' = [kpc EXCEPT ![c] = "test"]

\* RECORD with a KcpId std::stoul cannot read: nobody catches its exception.
HandleRecordThrows(c, r) ==
  /\ r.method = "RECORD"
  /\ r.session
  /\ r.kcpid = "bad"
  /\ Receive(c, r)
  /\ fault' = "uncaught exception"
  /\ UNCHANGED <<phase, pc, closing, state, transport, id, video, audio, reply, kcpVars,
                 sharedVars>>

\* RECORD: the KCP object, the update thread and the callback come first, the
\* test of _state last.
HandleRecord(c, r) ==
  /\ r.method = "RECORD"
  /\ r.session
  /\ r.kcpid # "bad"
  /\ Receive(c, r)
  /\ camKcp' = IF r.kcpid = "number" THEN [camKcp EXCEPT ![c] = "live"] ELSE camKcp
  /\ \/ \* assignment to a joinable std::thread
        /\ Joinable(c)
        /\ fault' = "thread overwritten"
        /\ kcpRunning' = [kcpRunning EXCEPT ![c] = TRUE]
        /\ UNCHANGED <<kpc, callbacks, state, reply>>
     \/ \* _session.videoRtpConn->setMessageCallback on a null pointer
        /\ ~Joinable(c) /\ video[c] = NoUdp
        /\ StartKcpThread(c)
        /\ fault' = "null video connection"
        /\ UNCHANGED <<callbacks, state, reply>>
     \/ /\ ~Joinable(c) /\ video[c] # NoUdp
        /\ StartKcpThread(c)
        /\ callbacks' = callbacks \cup {video[c]}
        /\ IF state[c] = "READY"
           THEN state' = [state EXCEPT ![c] = "PLAYING"] /\ Respond(c, 200)
           ELSE state' = state /\ Respond(c, 455)
        /\ UNCHANGED fault
  /\ UNCHANGED <<phase, pc, closing, transport, id, video, audio, counter, sessions,
                 cams, udpConns>>

-----------------------------------------------------------------------------
(* releaseSession: TEARDOWN and the close of the connection.               *)

BeginRelease(c, close) ==
  /\ pc' = [pc EXCEPT ![c] = "removeCam"]
  /\ closing' = [closing EXCEPT ![c] = close]

HandleTeardown(c, r) ==
  /\ r.method = "TEARDOWN"
  /\ r.session
  /\ Receive(c, r)
  /\ BeginRelease(c, FALSE)
  /\ UNCHANGED <<phase, state, transport, id, video, audio, reply, kcpVars, sharedVars, fault>>

\* The peer closes at any moment: handleMessage finds isClosed and calls onClose.
Close(c) ==
  /\ LoopFree(c)
  /\ phase[c] = "open"
  /\ BeginRelease(c, TRUE)
  /\ UNCHANGED <<phase, sent, state, transport, id, video, audio, reply, kcpVars, sharedVars,
                 fault>>

\* What releaseSession has done when removeCam has returned: _kcpRunning = false
Removed(c) ==
  /\ cams' = cams \ {id[c]}
  /\ kcpRunning' = [kcpRunning EXCEPT ![c] = FALSE]

ReleaseRemoves(c) ==
  /\ pc[c] = "removeCam"
  /\ fault = "none" /\ ~MonitorStuck
  /\ Removed(c)
  /\ pc' = [pc EXCEPT ![c] = "join"]
  /\ UNCHANGED <<phase, closing, sent, state, transport, id, video, audio, reply, camKcp, kpc,
                 counter, sessions, udpConns, callbacks, fault>>

\* removeCam joins a viewer's thread with the mutex locked that the thread waits for
\* (module MonitorServer): the camera is erased, and the call never returns.
ReleaseSticks(c) ==
  /\ pc[c] = "removeCam"
  /\ fault = "none" /\ ~MonitorStuck
  /\ cams' = cams \ {id[c]}
  /\ pc' = [pc EXCEPT ![c] = "stuck"]
  /\ UNCHANGED <<phase, closing, sent, state, transport, id, video, audio, reply, kcpVars,
                 counter, sessions, udpConns, callbacks, fault>>

\* if(_kcpThread.joinable()) _kcpThread.join()
ReleaseJoin(c) ==
  /\ pc[c] = "join"
  /\ fault = "none"
  /\ kpc[c] \in {"none", "ended"}
  /\ kpc' = [kpc EXCEPT ![c] = "none"]
  /\ pc' = [pc EXCEPT ![c] = "free"]
  /\ UNCHANGED <<phase, closing, sent, state, transport, id, video, audio, reply,
                 camKcp, kcpRunning, sharedVars, fault>>

\* if(_camKcp) ikcp_release(_camKcp)
ReleaseWildKcp(c) ==
  /\ pc[c] = "free"
  /\ camKcp[c] = "wild"
  /\ fault = "none"
  /\ fault' = "wild kcp"
  /\ UNCHANGED <<connVars, kcpVars, sharedVars>>

\* The UDP connections removeUdpConnection takes out of the loop: the session's
\* current ones.
Unregister(c) == udpConns \ {video[c], audio[c]}

\* The KCP object, the UDP connections and the session go; then TEARDOWN answers,
\* or removeTcpConnection destroys the connection and its RtspConnect.
ReleaseFree(c) ==
  /\ pc[c] = "free"
  /\ camKcp[c] # "wild"
  /\ fault = "none"
  /\ camKcp' = [camKcp EXCEPT ![c] = "null"]
  /\ udpConns' = Unregister(c)
  /\ sessions' = sessions \ {id[c]}
  /\ pc' = [pc EXCEPT ![c] = "idle"]
  /\ IF closing[c]
     THEN phase' = [phase EXCEPT ![c] = "closed"] /\ UNCHANGED reply
     ELSE Respond(c, 200) /\ UNCHANGED phase
  /\ UNCHANGED <<closing, sent, state, transport, id, video, audio, kcpRunning, kpc,
                 counter, cams, callbacks, fault>>

-----------------------------------------------------------------------------
(* The KCP update thread: while(_kcpRunning){ lock; ikcp_update; sleep }.   *)
(* The lock is _kcpMutex, held in state "update".                           *)

KcpTest(c) ==
  /\ fault = "none"
  /\ kpc[c] = "test"
  /\ kpc' = [kpc EXCEPT ![c] = IF kcpRunning[c] THEN "lock" ELSE "ended"]
  /\ UNCHANGED <<connVars, camKcp, kcpRunning, sharedVars, fault>>

\* Takes the mutex; a null KCP object is skipped, a wild one is dereferenced.
KcpLock(c) ==
  /\ fault = "none"
  /\ kpc[c] = "lock"
  /\ \/ camKcp[c] = "live" /\ kpc' = [kpc EXCEPT ![c] = "update"] /\ UNCHANGED fault
     \/ camKcp[c] = "null" /\ kpc' = [kpc EXCEPT ![c] = "test"] /\ UNCHANGED fault
     \/ camKcp[c] = "wild" /\ fault' = "wild kcp" /\ UNCHANGED kpc
  /\ UNCHANGED <<connVars, camKcp, kcpRunning, sharedVars>>

\* ikcp_update, and the mutex is released.
KcpUpdate(c) ==
  /\ fault = "none"
  /\ kpc[c] = "update"
  /\ kpc' = [kpc EXCEPT ![c] = "test"]
  /\ UNCHANGED <<connVars, camKcp, kcpRunning, sharedVars, fault>>

-----------------------------------------------------------------------------
(* Datagrams of the camera: the message callback of a UDP connection in the *)
(* loop's table, which captures the RtspConnect by `this'.                  *)

\* What ikcp_input(_camKcp, ...) meets: a destroyed RtspConnect, a bad KCP object
\* or a good one, whose data goes to MonitorServer::onNaluUdp.
InputOutcome(c) ==
  CASE phase[c] = "closed" -> "use after free"
    [] phase[c] # "closed" /\ camKcp[c] = "null" -> "null kcp"
    [] phase[c] # "closed" /\ camKcp[c] = "wild" -> "wild kcp"
    [] OTHER -> "none"

UdpMessage(u) ==
  /\ LoopFree(u[1])
  /\ u \in udpConns \cap callbacks
  /\ kpc[u[1]] # "update"
  /\ fault' = InputOutcome(u[1])
  /\ UNCHANGED <<connVars, kcpVars, sharedVars>>

-----------------------------------------------------------------------------
HandleRequest(c) ==
  \E r \in UNION {Dialogue[k] : k \in 1..Len(Dialogue)} :
    \/ HandleOther(c, r)
    \/ HandleSetupRefused(c, r) \/ HandleSetupUdp(c, r) \/ HandleSetupTcp(c, r)
    \/ HandleWrongSession(c, r) \/ HandleRecordThrows(c, r) \/ HandleRecord(c, r)
    \/ HandleTeardown(c, r)

ReleaseSession(c) ==
  ReleaseRemoves(c) \/ ReleaseJoin(c) \/ ReleaseWildKcp(c) \/ ReleaseFree(c)

KcpThread(c) == KcpTest(c) \/ KcpLock(c) \/ KcpUpdate(c)

Next == \/ \E c \in Conns : \/ NewConnection(c) \/ AddCam(c) \/ HandleRequest(c)
                            \/ Close(c) \/ ReleaseSession(c) \/ ReleaseSticks(c)
                            \/ KcpThread(c)
        \/ \E u \in UdpConns : UdpMessage(u)

Spec == Init /\ [][Next]_vars

\* The loop thread finishes what it has begun, where it can, and the KCP threads keep
\* running.
Fairness ==
  \A c \in Conns : WF_vars(AddCam(c) \/ ReleaseSession(c)) /\ WF_vars(KcpThread(c))

FairSpec == Spec /\ Fairness

-----------------------------------------------------------------------------
(* Properties.                                                             *)

\* Whatever the client sends, the update thread is inside ikcp_update only while
\* the KCP object exists: releaseSession joins the thread before it frees it.
UpdateUsesLiveKcp == \A c \in Conns : kpc[c] = "update" => camKcp[c] = "live"

\* No other connection has drawn the id of c.
Alone(c) == \A d \in Conns \ {c} : id[d] # id[c]

\* A connection that is gone has left nothing behind: no thread, no KCP object, and,
\* unless its id was drawn twice, no session and no camera at the monitor server.
ClosedIsReleased ==
  \A c \in Conns : phase[c] = "closed" =>
    /\ ~Joinable(c) /\ camKcp[c] = "null"
    /\ Alone(c) => id[c] \notin sessions \cup cams

\* The state has its types and closed connections have left nothing behind.
ReleaseInv == TypeOK /\ ClosedIsReleased

\* No lock covers both registries, so a camera is in one of them at times; but what the
\* monitor server offers to viewers has a session, at every moment, and outside the
\* constructor and the release the two agree, unless its id was drawn twice.
RegistriesAgree ==
  \A c \in Conns : Alone(c) =>
    /\ id[c] \in cams => id[c] \in sessions
    /\ pc[c] = "idle" => (id[c] \in sessions <=> id[c] \in cams)

\* The camera's dialogue ends the server in one way only, the release of a session
\* that never got its KCP object (_camKcp has no initial value): no null or dangling
\* pointer is used and no running thread is overwritten, whenever the camera
\* disconnects and whenever its datagrams arrive.
OnlyWildKcpFails ==
  \/ fault = "none"
  \/ fault = "wild kcp" /\ \E c \in Conns : pc[c] = "free" /\ state[c] # "PLAYING"

\* A datagram that can reach the relay belongs to a camera the monitor server
\* knows, unless its id was drawn twice: removing the camera and closing its UDP
\* connection are far apart, but the loop takes no datagram in between.
RelayedIsKnown ==
  \A u \in udpConns \cap callbacks :
    LoopFree(u[1]) /\ camKcp[u[1]] = "live" /\ Alone(u[1]) => id[u[1]] \in cams

\* The registries agree as far as they can, and know the cameras whose datagrams are
\* relayed.
RegistryInv == RegistriesAgree /\ RelayedIsKnown

\* No UDP connection of a connection that is gone is left in the loop's table,
\* where its callback would use the destroyed RtspConnect.
NoUdpLeft == \A u \in udpConns : phase[u[1]] # "closed"

\* A constructor and a release end: TEARDOWN is answered and a closed connection is
\* destroyed, unless the process has failed or a removeCam never returns.  The join
\* inside returns because the thread looks at _kcpRunning every round.
ReleaseEnds ==
  \A c \in Conns : (pc[c] # "idle") ~> (pc[c] = "idle" \/ fault # "none" \/ MonitorStuck)

=============================================================================
