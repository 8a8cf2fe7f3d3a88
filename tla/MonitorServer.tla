--------------------------- MODULE MonitorServer ---------------------------
(***************************************************************************)
(* The monitor server (media/MonitorServer.cc) and the viewers it relays    *)
(* cameras to (car_detect_qt/monitorclientwidget.cpp).                      *)
(*                                                                          *)
(* Threads: the accept thread, which serves an edge-triggered epoll; one    *)
(* thread per camera, the event loop that calls addCam, onNaluUdp and       *)
(* removeCam for it; one KCP update thread per session, a session being a   *)
(* viewer's subscription to a camera.  Locks: _mtx and one _kcpMutex per    *)
(* session.  Code that holds _mtx and cannot block is one step.             *)
(*                                                                          *)
(* A TCP connection carries whole messages, and a read may return several.  *)
(* It never fills: a send that blocks is left out.  A null or dangling      *)
(* pointer that is used, the destruction of a joinable std::thread, an      *)
(* exception that leaves its thread, and SIGPIPE end the process: `fault'   *)
(* records the first one.                                                   *)
(***************************************************************************)
EXTENDS Naturals, Sequences, FiniteSets

CONSTANTS Viewers,   \* Qt clients; each connects once
          Cams       \* cameras, numbered in the order of their session ids

ASSUME ViewersFinite == IsFiniteSet(Viewers)
ASSUME CamsNumbered == IsFiniteSet(Cams) /\ Cams \subseteq Nat
ASSUME DescriptorsDiffer == Viewers \cap {"listen", "udp", "none"} = {}

Pairs == Viewers \X Cams
None == "none"

\* A viewer draws a conversation id for every camera of the answer to SETUP and for
\* every ADDCAM.  Ids count from 1 (1000 in the code) in EVERY viewer.
Convs == Nat

\* Server to viewer: the answer to SETUP, ADDCAM and DELCAM.  Viewer to server:
\* SETUP, and MESSAGE and ADDCAM with the conversation of each camera they name.
Messages == [type : {"CAMS", "ADDCAM", "DELCAM"}, cams : SUBSET Cams]
Requests == [type : {"SETUP", "MESSAGE", "ADDCAM"}, convs : SUBSET (Cams \X Convs)]

VARIABLES
  mtx,        \* holder of _mtx: None, "accept" or "cam"
  clients,    \* keys of _qtClients
  cams,       \* _cams
  live,       \* the sessions in the _sessionMap of a client
  conv,       \* their conv
  kcp,        \* their ikcp: None, "idle", or "data" when it has data to send
  running,    \* their kcp_runing
  kmtx,       \* holder of their _kcpMutex between steps: None or "cam"
  kpc,        \* their update thread: None, "test", "lock", "ended"
  apc,        \* accept thread: "idle", "request", "message", "start", "close", "join",
              \* "input"
  batch,      \* events of the last epoll_wait that are not yet handled
  current,    \* the client of the request or the close being handled
  request,    \* the request being handled
  target,     \* the session being started or joined, or targetSession of the datagram
              \* being handled, <<>> for nullptr
  buffer,     \* _buffer of each client: requests read and not handled
  cpc,        \* camera thread: "new", "idle", "send", "sending", "remove", "join", "gone"
  naluTo,     \* the viewer onNaluUdp has reached
  ready,      \* descriptors with an edge that epoll_wait has not reported
  backlog,    \* connections not yet accepted
  toServer, toViewer,  \* the two directions of a viewer's TCP connection
  answered,   \* conversations in which the viewer has data to acknowledge
  vpc,        \* viewer: "off", "on", "left" (its connection ended with a FIN), "reset"
  camMap,     \* its _camMap, as pairs of a camera and a conversation
  lastConv,   \* its _conv
  vbuffer,    \* its _buffer
  cut,        \* the first character of its _buffer has been removed
  fault

lockVars == <<mtx, clients, cams>>
sessionVars == <<live, conv, kcp, running, kmtx, kpc>>
acceptVars == <<apc, batch, current, request, target, buffer>>
camVars == <<cpc, naluTo>>
netVars == <<ready, backlog, toServer, toViewer, answered>>
viewerVars == <<vpc, camMap, lastConv, vbuffer, cut>>
vars == <<lockVars, sessionVars, acceptVars, camVars, netVars, viewerVars, fault>>

Faults == {None, "thread destroyed", "null session", "stale session", "null kcp",
           "kcp freed in use", "recv failed", "SIGPIPE"}

TypeOK ==
  /\ mtx \in {None, "accept", "cam"}
  /\ clients \subseteq Viewers
  /\ cams \subseteq Cams
  /\ live \subseteq Pairs
  /\ conv \in [Pairs -> Convs]
  /\ kcp \in [Pairs -> {None, "idle", "data"}]
  /\ running \in [Pairs -> BOOLEAN]
  /\ kmtx \in [Pairs -> {None, "cam"}]
  /\ kpc \in [Pairs -> {None, "test", "lock", "ended"}]
  /\ apc \in {"idle", "request", "message", "start", "close", "join", "input"}
  /\ batch \subseteq Viewers \cup {"listen", "udp"}
  /\ current \in Viewers \cup {None}
  /\ request \in Seq(Requests) /\ Len(request) <= 1
  /\ target \in Pairs \cup {<<>>}
  /\ buffer \in [Viewers -> Seq(Requests)]
  /\ cpc \in [Cams -> {"new", "idle", "send", "sending", "remove", "join", "gone"}]
  /\ naluTo \in [Cams -> Viewers \cup {None}]
  /\ ready \subseteq Viewers \cup {"listen", "udp"}
  /\ backlog \subseteq Viewers
  /\ toServer \in [Viewers -> Seq(Requests)]
  /\ toViewer \in [Viewers -> Seq(Messages)]
  /\ answered \subseteq Convs
  /\ vpc \in [Viewers -> {"off", "on", "left", "reset"}]
  /\ camMap \in [Viewers -> SUBSET (Cams \X Convs)]
  /\ lastConv \in [Viewers -> Convs]
  /\ vbuffer \in [Viewers -> Seq(Messages)]
  /\ cut \in [Viewers -> BOOLEAN]
  /\ fault \in Faults

Init ==
  /\ mtx = None /\ clients = {} /\ cams = {}
  /\ live = {}
  /\ conv = [s \in Pairs |-> 0]
  /\ kcp = [s \in Pairs |-> None]
  /\ running = [s \in Pairs |-> FALSE]
  /\ kmtx = [s \in Pairs |-> None]
  /\ kpc = [s \in Pairs |-> None]
  /\ apc = "idle" /\ batch = {} /\ current = None /\ request = <<>> /\ target = <<>>
  /\ buffer = [v \in Viewers |-> <<>>]
  /\ cpc = [c \in Cams |-> "new"]
  /\ naluTo = [c \in Cams |-> None]
  /\ ready = {} /\ backlog = {}
  /\ toServer = [v \in Viewers |-> <<>>]
  /\ toViewer = [v \in Viewers |-> <<>>]
  /\ answered = {}
  /\ vpc = [v \in Viewers |-> "off"]
  /\ camMap = [v \in Viewers |-> {}]
  /\ lastConv = [v \in Viewers |-> 0]
  /\ vbuffer = [v \in Viewers |-> <<>>]
  /\ cut = [v \in Viewers |-> FALSE]
  /\ fault = None

\* Sessions of viewer v; sessions for camera c.
SessionsOf(v) == {s \in live : s[1] = v}
SessionsFor(c) == {s \in live : s[2] = c}

Gone(v) == vpc[v] \in {"left", "reset"}

\* The connection's error is still to be reported, to the next recv or send.
Failed(v) == vpc[v] = "reset" /\ toViewer[v] = <<>>

\* What was sent to a viewer that has gone has been answered with a reset.
Broken(v) == Gone(v) /\ toViewer[v] # <<>>

\* What epoll_wait finds when it looks at a descriptor that had an edge.
Readable(f) == CASE f = "listen" -> backlog # {}
                 [] f = "udp" -> answered # {}
                 [] OTHER -> toServer[f] # <<>> \/ Gone(f)

\* send(tcpFd) of the message m, with flags 0, to each viewer of vs.  A send on a
\* broken connection raises SIGPIPE, which nothing ignores.
Tell(vs, m) ==
  /\ toViewer' = [v \in Viewers |-> IF v \in vs THEN Append(toViewer[v], m) ELSE toViewer[v]]
  /\ fault' \in {None} \cup {f \in {"SIGPIPE"} : \E v \in vs : Broken(v)}

Done == apc' = "idle" /\ current' = None /\ request' = <<>>

-----------------------------------------------------------------------------
(* Faulty variants of the code, one for each way a change to it could break *)
(* a property below.  No specification uses them.                           *)

\* The close of a viewer that stops at the first session it has ended.
CloseEraseAfterOne ==
  /\ fault = None
  /\ apc = "close"
  /\ SessionsOf(current) # {} => \E s \in SessionsOf(current) : kcp[s] = None
  /\ live' = live \ SessionsOf(current)
  /\ clients' = clients \ {current}
  /\ buffer' = [buffer EXCEPT ![current] = <<>>]
  /\ mtx' = None
  /\ batch' = {}
  /\ Done
  /\ UNCHANGED <<cams, conv, kcp, running, kmtx, kpc, target, camVars, netVars, viewerVars,
                 fault>>

\* removeCam that detaches the thread.
RemoveWithoutJoin(c) ==
  LET s == <<naluTo[c], c>> IN
  /\ fault = None
  /\ cpc[c] = "join"
  /\ kcp' = [kcp EXCEPT ![s] = None]
  /\ kmtx' = [kmtx EXCEPT ![s] = None]
  /\ live' = live \ {s}
  /\ naluTo' = [naluTo EXCEPT ![c] = None]
  /\ cpc' = [cpc EXCEPT ![c] = "remove"]
  /\ UNCHANGED <<lockVars, conv, running, kpc, acceptVars, netVars, viewerVars, fault>>

\* removeCam without _mtx.
RemoveCamUnlocked(c) ==
  /\ fault = None
  /\ cpc[c] = "idle"
  /\ cams' = cams \ {c}
  /\ cpc' = [cpc EXCEPT ![c] = "remove"]
  /\ UNCHANGED <<mtx, clients, sessionVars, acceptVars, naluTo, netVars, viewerVars, fault>>

-----------------------------------------------------------------------------
(* acceptLoop: epoll_wait and the three kinds of descriptors.              *)

EpollWait ==
  /\ fault = None
  /\ apc = "idle"
  /\ batch = {}
  /\ {f \in ready : Readable(f)} # {}
  /\ batch' = {f \in ready : Readable(f)}
  /\ ready' = {}
  /\ UNCHANGED <<lockVars, sessionVars, apc, current, request, target, buffer, camVars,
                 backlog, toServer, toViewer, answered, viewerVars, fault>>

\* One accept per edge, then addEpollReadFd, which reports what is already there.
Accept(v) ==
  /\ fault = None
  /\ apc = "idle"
  /\ "listen" \in batch
  /\ v \in backlog
  /\ mtx = None
  /\ backlog' = backlog \ {v}
  /\ clients' = clients \cup {v}
  /\ ready' = ready \cup {f \in {v} : Readable(f)}
  /\ batch' = batch \ {"listen"}
  /\ UNCHANGED <<mtx, cams, sessionVars, apc, current, request, target, buffer, camVars,
                 toServer, toViewer, answered, viewerVars, fault>>

\* recv returned data: one request is taken from the front of the buffer.
Recv(v) ==
  /\ fault = None
  /\ apc = "idle"
  /\ v \in batch
  /\ toServer[v] # <<>>
  /\ mtx = None
  /\ LET read == buffer[v] \o toServer[v] IN
       /\ request' = <<Head(read)>>
       /\ buffer' = [buffer EXCEPT ![v] = Tail(read)]
  /\ toServer' = [toServer EXCEPT ![v] = <<>>]
  /\ apc' = "request"
  /\ current' = v
  /\ batch' = batch \ {v}
  /\ UNCHANGED <<lockVars, sessionVars, target, camVars, ready, backlog, toViewer,
                 answered, viewerVars, fault>>

\* recv returned -1: append(buf, -1) throws, and nothing in the thread catches it.
RecvFails(v) ==
  /\ fault = None
  /\ apc = "idle"
  /\ v \in batch
  /\ toServer[v] = <<>>
  /\ Failed(v)
  /\ mtx = None
  /\ fault' = "recv failed"
  /\ UNCHANGED <<lockVars, sessionVars, acceptVars, camVars, netVars, viewerVars>>

\* SETUP: the cameras are read without the lock.
HandleSetup ==
  /\ fault = None
  /\ apc = "request"
  /\ Head(request).type = "SETUP"
  /\ Tell({current}, [type |-> "CAMS", cams |-> cams])
  /\ Done
  /\ UNCHANGED <<lockVars, sessionVars, batch, target, buffer, camVars, ready, backlog,
                 toServer, answered, viewerVars>>

\* MESSAGE and ADDCAM, under _mtx: a session for each camera named.
BeginMessage ==
  /\ fault = None
  /\ apc = "request"
  /\ Head(request).type \in {"MESSAGE", "ADDCAM"}
  /\ mtx = None
  /\ mtx' = "accept"
  /\ apc' = "message"
  /\ UNCHANGED <<clients, cams, sessionVars, batch, current, request, target, buffer,
                 camVars, netVars, viewerVars, fault>>

\* The next pair of a camera and a conversation: the session is put in _sessionMap,
\* where onNaluUdp finds it, with no KCP object yet.
InsertSession(p) ==
  LET s == <<current, p[1]>> IN
  /\ fault = None
  /\ apc = "message"
  /\ p \in Head(request).convs
  /\ s \notin live
  /\ live' = live \cup {s}
  /\ conv' = [conv EXCEPT ![s] = p[2]]
  /\ target' = s
  /\ request' = <<[Head(request) EXCEPT !.convs = @ \ {p}]>>
  /\ apc' = "start"
  /\ UNCHANGED <<lockVars, kcp, running, kmtx, kpc, batch, current, buffer, camVars,
                 netVars, viewerVars, fault>>

\* A session that exists is destroyed by the assignment, with its running thread.
InsertTwice(p) ==
  /\ fault = None
  /\ apc = "message"
  /\ p \in Head(request).convs
  /\ <<current, p[1]>> \in live
  /\ fault' = "thread destroyed"
  /\ UNCHANGED <<lockVars, sessionVars, acceptVars, camVars, netVars, viewerVars>>

\* Its KCP object and its thread.
StartSession ==
  /\ fault = None
  /\ apc = "start"
  /\ kcp' = [kcp EXCEPT ![target] = "idle"]
  /\ running' = [running EXCEPT ![target] = TRUE]
  /\ kpc' = [kpc EXCEPT ![target] = "test"]
  /\ target' = <<>>
  /\ apc' = "message"
  /\ UNCHANGED <<lockVars, live, conv, kmtx, batch, current, request, buffer, camVars,
                 netVars, viewerVars, fault>>

MessageDone ==
  /\ fault = None
  /\ apc = "message"
  /\ Head(request).convs = {}
  /\ mtx' = None
  /\ Done
  /\ UNCHANGED <<clients, cams, sessionVars, batch, target, buffer, camVars, netVars,
                 viewerVars, fault>>

-----------------------------------------------------------------------------
(* The viewer has closed (recv returned 0), all of it under _mtx: for each  *)
(* session tell the thread, join it, free the KCP object; then forget the   *)
(* client and leave the loop over the events.                               *)

BeginClose(v) ==
  /\ fault = None
  /\ apc = "idle"
  /\ v \in batch
  /\ toServer[v] = <<>>
  /\ Gone(v) /\ ~Failed(v)
  /\ mtx = None
  /\ mtx' = "accept"
  /\ current' = v
  /\ apc' = "close"
  /\ UNCHANGED <<clients, cams, sessionVars, batch, request, target, buffer, camVars,
                 netVars, viewerVars, fault>>

CloseStop(s) ==
  /\ fault = None
  /\ apc = "close"
  /\ s \in SessionsOf(current)
  /\ kcp[s] # None
  /\ running' = [running EXCEPT ![s] = FALSE]
  /\ target' = s
  /\ apc' = "join"
  /\ UNCHANGED <<lockVars, live, conv, kcp, kmtx, kpc, batch, current, request, buffer,
                 camVars, netVars, viewerVars, fault>>

\* ikcp_release does not take _kcpMutex: onNaluUdp may be inside ikcp_send.
CloseJoin ==
  /\ fault = None
  /\ apc = "join"
  /\ kpc[target] = "ended"
  /\ kpc' = [kpc EXCEPT ![target] = None]
  /\ kcp' = [kcp EXCEPT ![target] = None]
  /\ fault' = IF kmtx[target] = "cam" THEN "kcp freed in use" ELSE None
  /\ target' = <<>>
  /\ apc' = "close"
  /\ UNCHANGED <<lockVars, live, conv, running, kmtx, batch, current, request, buffer,
                 camVars, netVars, viewerVars>>

CloseErase ==
  /\ fault = None
  /\ apc = "close"
  /\ \A s \in SessionsOf(current) : kcp[s] = None
  /\ live' = live \ SessionsOf(current)
  /\ clients' = clients \ {current}
  /\ buffer' = [buffer EXCEPT ![current] = <<>>]
  /\ mtx' = None
  /\ batch' = {}
  /\ Done
  /\ UNCHANGED <<cams, conv, kcp, running, kmtx, kpc, target, camVars, netVars, viewerVars,
                 fault>>

-----------------------------------------------------------------------------
(* Datagrams of the viewers' KCP, found by conversation id.  A datagram     *)
(* carries any conversation the viewer may acknowledge: it may be lost,     *)
(* late or repeated.                                                        *)

\* The session is looked up under _mtx; its address is used after the unlock.
UdpFind(k) ==
  /\ fault = None
  /\ apc = "idle"
  /\ "udp" \in batch
  /\ mtx = None
  /\ target' \in LET found == {s \in live : conv[s] = k}
                 IN  IF found = {} THEN {<<>>} ELSE found
  /\ apc' = "input"
  /\ UNCHANGED <<lockVars, sessionVars, batch, current, request, buffer, camVars, netVars,
                 viewerVars, fault>>

\* Lock, ikcp_input, unlock, if the pointer is good.
UdpInput ==
  /\ fault = None
  /\ apc = "input"
  /\ \/ target = <<>> /\ fault' = "null session"
     \/ target # <<>> /\ target \notin live /\ fault' = "stale session"
     \/ target \in live /\ kmtx[target] = None /\ UNCHANGED fault
  /\ apc' = "idle"
  /\ target' = <<>>
  /\ UNCHANGED <<lockVars, sessionVars, batch, current, request, buffer, camVars, netVars,
                 viewerVars>>

\* The socket is empty.
UdpDone ==
  /\ fault = None
  /\ apc = "idle"
  /\ "udp" \in batch
  /\ batch' = batch \ {"udp"}
  /\ UNCHANGED <<lockVars, sessionVars, apc, current, request, target, buffer, camVars,
                 netVars, viewerVars, fault>>

-----------------------------------------------------------------------------
(* The camera's thread.                                                     *)

AddCam(c) ==
  /\ fault = None
  /\ cpc[c] = "new"
  /\ mtx = None
  /\ cams' = cams \cup {c}
  /\ Tell({v \in clients : <<v, c>> \notin live}, [type |-> "ADDCAM", cams |-> {c}])
  /\ cpc' = [cpc EXCEPT ![c] = "idle"]
  /\ UNCHANGED <<mtx, clients, sessionVars, acceptVars, naluTo, ready, backlog, toServer,
                 answered, viewerVars>>

\* onNaluUdp walks over the clients without _mtx.  It is called again and again,
\* so its visits are independent steps: the iterator is at v, and v has the camera.
NaluFind(c, v) ==
  /\ fault = None
  /\ cpc[c] = "idle"
  /\ v \in clients
  /\ <<v, c>> \in live
  /\ naluTo' = [naluTo EXCEPT ![c] = v]
  /\ cpc' = [cpc EXCEPT ![c] = "send"]
  /\ UNCHANGED <<lockVars, sessionVars, acceptVars, netVars, viewerVars, fault>>

\* Locks the session's mutex; the session may have gone since.
NaluLock(c) ==
  LET s == <<naluTo[c], c>> IN
  /\ fault = None
  /\ cpc[c] = "send"
  /\ \/ s \notin live /\ fault' = "stale session" /\ UNCHANGED <<kmtx, cpc>>
     \/ /\ s \in live /\ kmtx[s] = None
        /\ kmtx' = [kmtx EXCEPT ![s] = "cam"]
        /\ cpc' = [cpc EXCEPT ![c] = "sending"]
        /\ UNCHANGED fault
  /\ UNCHANGED <<lockVars, live, conv, kcp, running, kpc, acceptVars, naluTo, netVars,
                 viewerVars>>

\* ikcp_send, and the unlock.
NaluSend(c) ==
  LET s == <<naluTo[c], c>> IN
  /\ fault = None
  /\ cpc[c] = "sending"
  /\ \/ s \notin live /\ fault' = "stale session" /\ UNCHANGED <<kmtx, kcp, cpc, naluTo>>
     \/ /\ s \in live /\ kcp[s] = None
        /\ fault' = "null kcp" /\ UNCHANGED <<kmtx, kcp, cpc, naluTo>>
     \/ /\ s \in live /\ kcp[s] # None
        /\ kcp' = [kcp EXCEPT ![s] = "data"]
        /\ kmtx' = [kmtx EXCEPT ![s] = None]
        /\ cpc' = [cpc EXCEPT ![c] = "idle"]
        /\ naluTo' = [naluTo EXCEPT ![c] = None]
        /\ UNCHANGED fault
  /\ UNCHANGED <<lockVars, live, conv, running, kpc, acceptVars, netVars, viewerVars>>

RemoveCam(c) ==
  /\ fault = None
  /\ cpc[c] = "idle"
  /\ mtx = None
  /\ mtx' = "cam"
  /\ cams' = cams \ {c}
  /\ cpc' = [cpc EXCEPT ![c] = "remove"]
  /\ UNCHANGED <<clients, sessionVars, acceptVars, naluTo, netVars, viewerVars, fault>>

\* DELCAM to the next viewer with the camera; then its _kcpMutex, which stays
\* locked until the thread has been joined, and kcp_runing = false.
RemoveStop(c, v) ==
  LET s == <<v, c>> IN
  /\ fault = None
  /\ cpc[c] = "remove"
  /\ s \in live
  /\ kmtx[s] = None
  /\ Tell({v}, [type |-> "DELCAM", cams |-> {c}])
  /\ kmtx' = [kmtx EXCEPT ![s] = "cam"]
  /\ running' = [running EXCEPT ![s] = FALSE]
  /\ naluTo' = [naluTo EXCEPT ![c] = v]
  /\ cpc' = [cpc EXCEPT ![c] = "join"]
  /\ UNCHANGED <<lockVars, live, conv, kcp, kpc, acceptVars, ready, backlog, toServer,
                 answered, viewerVars>>

RemoveJoin(c) ==
  LET s == <<naluTo[c], c>> IN
  /\ fault = None
  /\ cpc[c] = "join"
  /\ kpc[s] = "ended"
  /\ kpc' = [kpc EXCEPT ![s] = None]
  /\ kcp' = [kcp EXCEPT ![s] = None]
  /\ kmtx' = [kmtx EXCEPT ![s] = None]
  /\ live' = live \ {s}
  /\ naluTo' = [naluTo EXCEPT ![c] = None]
  /\ cpc' = [cpc EXCEPT ![c] = "remove"]
  /\ UNCHANGED <<lockVars, conv, running, acceptVars, netVars, viewerVars, fault>>

RemoveDone(c) ==
  /\ fault = None
  /\ cpc[c] = "remove"
  /\ SessionsFor(c) = {}
  /\ mtx' = None
  /\ cpc' = [cpc EXCEPT ![c] = "gone"]
  /\ UNCHANGED <<clients, cams, sessionVars, acceptVars, naluTo, netVars, viewerVars, fault>>

-----------------------------------------------------------------------------
(* kcp_update_thread.                                                       *)

KcpTest(s) ==
  /\ fault = None
  /\ kpc[s] = "test"
  /\ kpc' = [kpc EXCEPT ![s] = IF running[s] THEN "lock" ELSE "ended"]
  /\ UNCHANGED <<lockVars, live, conv, kcp, running, kmtx, acceptVars, camVars, netVars,
                 viewerVars, fault>>

\* With _kcpMutex, ikcp_update sends what ikcp_send queued: from then on the viewer
\* has something to acknowledge.  Nothing in it waits.
KcpUpdate(s) ==
  /\ fault = None
  /\ kpc[s] = "lock"
  /\ kmtx[s] = None
  /\ answered' = IF kcp[s] = "data" THEN answered \cup {conv[s]} ELSE answered
  /\ kcp' = [kcp EXCEPT ![s] = IF @ = "data" THEN "idle" ELSE @]
  /\ kpc' = [kpc EXCEPT ![s] = "test"]
  /\ UNCHANGED <<lockVars, live, conv, running, kmtx, acceptVars, camVars, ready, backlog,
                 toServer, toViewer, viewerVars, fault>>

-----------------------------------------------------------------------------
(* The viewer (MonitorClientWidget).                                       *)

\* The connection is made and onConnected sends SETUP.
Connect(v) ==
  /\ fault = None
  /\ vpc[v] = "off"
  /\ vpc' = [vpc EXCEPT ![v] = "on"]
  /\ toServer' = [toServer EXCEPT ![v] = <<[type |-> "SETUP", convs |-> {}]>>]
  /\ backlog' = backlog \cup {v}
  /\ ready' = ready \cup {"listen"}
  /\ UNCHANGED <<lockVars, sessionVars, acceptVars, camVars, toViewer, answered,
                 camMap, lastConv, vbuffer, cut, fault>>

\* A new conversation for each camera of cs, in the order of the names.
Draw(v, cs) ==
  {<<c, lastConv[v] + Cardinality({d \in cs : d <= c})>> : c \in cs}

Send(v, type, convs) ==
  /\ toServer' = [toServer EXCEPT ![v] = Append(@, [type |-> type, convs |-> convs])]
  /\ ready' = ready \cup ({v} \cap clients)

\* The entry of a camera is replaced by a new one.
Enter(v, cs) == {p \in camMap[v] : p[1] \notin cs} \cup Draw(v, cs)

\* The answer to SETUP: sendMessage names every camera of _camMap.
ViewerCams(v, m) ==
  /\ m.type = "CAMS"
  /\ m.cams # {}
  /\ camMap' = [camMap EXCEPT ![v] = Enter(v, m.cams)]
  /\ lastConv' = [lastConv EXCEPT ![v] = @ + Cardinality(m.cams)]
  /\ Send(v, "MESSAGE", Enter(v, m.cams))

ViewerAddCam(v, m) ==
  /\ m.type = "ADDCAM" /\ ~cut[v]
  /\ camMap' = [camMap EXCEPT ![v] = Enter(v, m.cams)]
  /\ lastConv' = [lastConv EXCEPT ![v] = @ + 1]
  /\ Send(v, "ADDCAM", Draw(v, m.cams))

ViewerDelCam(v, m) ==
  /\ m.type = "DELCAM" /\ ~cut[v]
  /\ camMap' = [camMap EXCEPT ![v] = {p \in @ : p[1] \notin m.cams}]
  /\ UNCHANGED <<lastConv, toServer, ready>>

\* "CamNum: 0", and a request whose name has lost its first character.
ViewerIgnore(v, m) ==
  /\ IF m.type = "CAMS" THEN m.cams = {} ELSE cut[v]
  /\ UNCHANGED <<camMap, lastConv, toServer, ready>>

\* onReadyRead: some messages arrive, the first of the buffer is handled, and one
\* character too many is removed with it.
OnReadyRead(v) ==
  /\ fault = None
  /\ vpc[v] = "on"
  /\ \E n \in 1..Len(toViewer[v]) :
       LET read == vbuffer[v] \o SubSeq(toViewer[v], 1, n) IN
       /\ \/ ViewerCams(v, Head(read)) \/ ViewerAddCam(v, Head(read))
          \/ ViewerDelCam(v, Head(read)) \/ ViewerIgnore(v, Head(read))
       /\ vbuffer' = [vbuffer EXCEPT ![v] = Tail(read)]
       /\ cut' = [cut EXCEPT ![v] = Tail(read) # <<>>]
       /\ toViewer' = [toViewer EXCEPT ![v] = SubSeq(@, n + 1, Len(@))]
  /\ UNCHANGED <<lockVars, sessionVars, acceptVars, camVars, backlog, answered,
                 vpc, fault>>

\* KCP acknowledgements arrive at the server's UDP socket.
Acknowledge ==
  /\ fault = None
  /\ answered # {}
  /\ ready' = ready \cup {"udp"}
  /\ UNCHANGED <<lockVars, sessionVars, acceptVars, camVars, backlog, toServer, toViewer,
                 answered, viewerVars, fault>>

\* The viewer closes: a FIN, or a reset when it has not read all that arrived.
Leave(v) ==
  /\ fault = None
  /\ vpc[v] = "on"
  /\ \/ vpc' = [vpc EXCEPT ![v] = "left"] /\ UNCHANGED toViewer
     \/ /\ toViewer[v] # <<>>
        /\ vpc' = [vpc EXCEPT ![v] = "reset"]
        /\ toViewer' = [toViewer EXCEPT ![v] = <<>>]
  /\ ready' = ready \cup ({v} \cap clients)
  /\ UNCHANGED <<lockVars, sessionVars, acceptVars, camVars, backlog, toServer,
                 answered, camMap, lastConv, vbuffer, cut, fault>>

-----------------------------------------------------------------------------
AcceptThread ==
  \/ EpollWait \/ HandleSetup \/ BeginMessage \/ StartSession \/ MessageDone
  \/ CloseJoin \/ CloseErase \/ UdpInput \/ UdpDone
  \/ \E v \in Viewers : Accept(v) \/ Recv(v) \/ RecvFails(v) \/ BeginClose(v)
  \/ /\ apc = "message"
     /\ \E p \in Head(request).convs : InsertSession(p) \/ InsertTwice(p)
  \/ \E s \in Pairs : CloseStop(s)
  \/ \E k \in answered : UdpFind(k)

CamCalls(c) == AddCam(c) \/ RemoveCam(c) \/ \E v \in Viewers : NaluFind(c, v)

CamThread(c) == \/ NaluLock(c) \/ NaluSend(c) \/ RemoveJoin(c) \/ RemoveDone(c)
                \/ \E v \in Viewers : RemoveStop(c, v)

KcpThread(s) == KcpTest(s) \/ KcpUpdate(s)

Next ==
  \/ AcceptThread
  \/ \E c \in Cams : CamCalls(c) \/ CamThread(c)
  \/ \E s \in Pairs : KcpThread(s)
  \/ \E v \in Viewers : Connect(v) \/ OnReadyRead(v) \/ Leave(v)
  \/ Acknowledge

Spec == Init /\ [][Next]_vars

\* Threads keep running, and a thread that waits for a mutex which is released
\* again and again gets it: its other users wait for the network in between.
Fairness ==
  /\ WF_vars(AcceptThread)
  /\ \A c \in Cams : SF_vars(CamThread(c))
  /\ \A s \in Pairs : SF_vars(KcpThread(s))

FairSpec == Spec /\ Fairness

-----------------------------------------------------------------------------
(* Properties.                                                             *)

\* A session's update thread never outlives what it works on: whichever of the
\* accept thread and a camera's thread ends the session, the thread is joined first.
ThreadHasSession ==
  \A s \in Pairs : /\ kpc[s] # None => s \in live
                   /\ kpc[s] \in {"test", "lock"} => kcp[s] # None

\* When a viewer has been forgotten, none of its sessions and threads is left,
\* although cameras come and go while it is being closed.
GoneViewerIsClean ==
  \A s \in Pairs : s[1] \notin clients => s \notin live /\ kpc[s] = None

\* Two sessions of ONE viewer have different conversations, whatever mix of MESSAGE
\* and ADDCAM made them.  (Those of two viewers may share one: each counts its own.)
ConversationsDiffer ==
  \A s, t \in live : s[1] = t[1] /\ s # t => conv[s] # conv[t]

\* Sessions are sound: their types, no thread without its session, and conversations
\* that tell a viewer's sessions apart.
SessionInv == TypeOK /\ ThreadHasSession /\ ConversationsDiffer

\* When the close of a viewer joins a thread, under _mtx, the join cannot deadlock:
\* the mutex the thread may wait for is free, or held by an onNaluUdp that will
\* release it and never by a removeCam that waits for the same thread.  (A close may
\* still wait for _mtx for ever, behind the removeCam of RemoveCamEnds.)
JoinCannotDeadlock ==
  apc = "join" /\ kmtx[target] = "cam" => cpc[target[2]] = "sending"

\* Removing a camera ends (MultiThreadEventLoop::onClose says that its session will
\* be released), unless the process fails.
RemoveCamEnds == \A c \in Cams : (cpc[c] = "remove") ~> (cpc[c] = "gone" \/ fault # None)

=============================================================================
