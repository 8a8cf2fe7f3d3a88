------------------------- MODULE RtspConnectProofs -------------------------
(***************************************************************************)
(* Proofs about RtspConnect, for every number of connections, every         *)
(* assignment of connections to loops and every dialogue; and, where the    *)
(* theorem says so, for the dialogue of camera/rtsp_client.c over UDP.      *)
(***************************************************************************)
EXTENDS RtspConnect, SequenceTheorems, TLAPS

-----------------------------------------------------------------------------
(* The inductive invariant.                                                 *)

\* The variables the argument is about are functions on the connections.
KcpTypes ==
  /\ pc \in [Conns -> {"idle", "addCam", "removeCam", "join", "free", "stuck"}]
  /\ camKcp \in [Conns -> {"null", "wild", "live"}]
  /\ kpc \in [Conns -> {"none", "test", "lock", "update", "ended"}]

\* The loop thread passes the join only when no update thread is left, and while it
\* is inside releaseSession it starts none.
JoinedBeforeFree == \A c \in Conns : pc[c] = "free" => kpc[c] = "none"

\* A destroyed connection has passed its join and has freed its KCP object.
ClosedIsEmpty ==
  \A c \in Conns : phase[c] = "closed" => kpc[c] = "none" /\ camKcp[c] = "null"

\* What a constructor or a release is at work for is an open connection.
ReleasesOpen == \A c \in Conns : pc[c] # "idle" => phase[c] = "open"

PhaseTypes == phase \in [Conns -> {"new", "open", "closed"}]

IInv == /\ KcpTypes /\ PhaseTypes
        /\ JoinedBeforeFree /\ UpdateUsesLiveKcp /\ ClosedIsEmpty /\ ReleasesOpen

-----------------------------------------------------------------------------
\* The initial states satisfy the invariant.
LEMMA InitIInv == Init => IInv
<1> SUFFICES ASSUME Init
             PROVE  IInv
  OBVIOUS
<1>1. camKcp \in [Conns -> {"null", "wild", "live"}]
  BY CamKcpInitValues DEF Init
<1>2. /\ pc = [c \in Conns |-> "idle"]
      /\ kpc = [c \in Conns |-> "none"]
      /\ phase = [c \in Conns |-> "new"]
  BY DEF Init
<1> QED
  BY <1>1, <1>2
     DEF IInv, KcpTypes, PhaseTypes, JoinedBeforeFree, UpdateUsesLiveKcp, ClosedIsEmpty,
         ReleasesOpen

\* A step that changes none of the variables of the invariant preserves it.
LEMMA UntouchedIInv == IInv /\ UNCHANGED <<pc, phase, camKcp, kpc>> => IInv'
BY DEF IInv, KcpTypes, PhaseTypes, JoinedBeforeFree, UpdateUsesLiveKcp, ClosedIsEmpty,
       ReleasesOpen

\* A new connection, and the registration that ends its constructor.
LEMMA NewConnectionIInv ==
  ASSUME NEW c \in Conns, IInv, NewConnection(c) \/ AddCam(c)
  PROVE  IInv'
BY DEF NewConnection, AddCam, LoopFree, IInv, KcpTypes, PhaseTypes, JoinedBeforeFree,
       UpdateUsesLiveKcp, ClosedIsEmpty, ReleasesOpen, kcpVars

\* RECORD makes a KCP object and starts a thread, with the loop thread outside
\* releaseSession.
LEMMA HandleRecordIInv ==
  ASSUME NEW c \in Conns, NEW r, IInv, HandleRecord(c, r)
  PROVE  IInv'
<1>1. pc[c] = "idle" /\ phase[c] = "open"
  BY DEF HandleRecord, Receive, LoopFree
<1>2. pc' = pc /\ phase' = phase
  BY DEF HandleRecord
<1>3. kpc' = kpc \/ kpc' = [kpc EXCEPT ![c] = "test"]
  BY DEF HandleRecord, StartKcpThread
<1>4. camKcp' = camKcp \/ camKcp' = [camKcp EXCEPT ![c] = "live"]
  BY DEF HandleRecord
<1> QED
  BY <1>1, <1>2, <1>3, <1>4
     DEF IInv, KcpTypes, PhaseTypes, JoinedBeforeFree, UpdateUsesLiveKcp, ClosedIsEmpty,
         ReleasesOpen

\* The beginning of a release, for TEARDOWN and for the close.
LEMMA BeginReleaseIInv ==
  ASSUME NEW c \in Conns, NEW b, IInv, LoopFree(c), phase[c] = "open",
         BeginRelease(c, b), UNCHANGED <<phase, camKcp, kpc>>
  PROVE  IInv'
BY DEF BeginRelease, LoopFree, IInv, KcpTypes, PhaseTypes, JoinedBeforeFree,
       UpdateUsesLiveKcp, ClosedIsEmpty, ReleasesOpen

\* A request of connection c preserves the invariant.
LEMMA HandleRequestIInv ==
  ASSUME NEW c \in Conns, IInv, HandleRequest(c)
  PROVE  IInv'
<1>1. PICK r : \/ HandleOther(c, r)
               \/ HandleSetupRefused(c, r) \/ HandleSetupUdp(c, r) \/ HandleSetupTcp(c, r)
               \/ HandleWrongSession(c, r) \/ HandleRecordThrows(c, r)
               \/ HandleRecord(c, r) \/ HandleTeardown(c, r)
  BY DEF HandleRequest
<1>2. CASE \/ HandleOther(c, r)
           \/ HandleSetupRefused(c, r) \/ HandleSetupUdp(c, r) \/ HandleSetupTcp(c, r)
           \/ HandleWrongSession(c, r) \/ HandleRecordThrows(c, r)
  <2>1. UNCHANGED <<pc, phase, camKcp, kpc>>
    BY <1>2
       DEF HandleOther, HandleSetupRefused, HandleSetupUdp, HandleSetupTcp,
           HandleWrongSession, HandleRecordThrows, kcpVars
  <2> QED
    BY <2>1, UntouchedIInv
<1>3. CASE HandleRecord(c, r)
  BY <1>3, HandleRecordIInv
<1>4. CASE HandleTeardown(c, r)
  <2>1. /\ LoopFree(c) /\ phase[c] = "open"
        /\ BeginRelease(c, FALSE) /\ UNCHANGED <<phase, camKcp, kpc>>
    BY <1>4 DEF HandleTeardown, Receive, kcpVars
  <2> QED
    BY <2>1, BeginReleaseIInv
<1> QED
  BY <1>1, <1>2, <1>3, <1>4

\* releaseSession: the join, and what it makes safe.
LEMMA ReleaseSessionIInv ==
  ASSUME NEW c \in Conns, IInv, ReleaseSession(c) \/ ReleaseSticks(c)
  PROVE  IInv'
<1>0. CASE ReleaseRemoves(c) \/ ReleaseSticks(c)
  <2>1. /\ UNCHANGED <<phase, camKcp, kpc>> /\ pc[c] = "removeCam"
        /\ \E q \in {"join", "stuck"} : pc' = [pc EXCEPT ![c] = q]
    BY <1>0 DEF ReleaseRemoves, ReleaseSticks, kcpVars
  <2> QED
    BY <2>1
       DEF IInv, KcpTypes, PhaseTypes, JoinedBeforeFree, UpdateUsesLiveKcp, ClosedIsEmpty,
           ReleasesOpen
<1>1. CASE ReleaseJoin(c)
  BY <1>1
     DEF ReleaseJoin, IInv, KcpTypes, PhaseTypes, JoinedBeforeFree, UpdateUsesLiveKcp,
         ClosedIsEmpty, ReleasesOpen
<1>2. CASE ReleaseWildKcp(c)
  <2>1. UNCHANGED <<pc, phase, camKcp, kpc>>
    BY <1>2 DEF ReleaseWildKcp, connVars, kcpVars
  <2> QED
    BY <2>1, UntouchedIInv
<1>3. CASE ReleaseFree(c)
  <2>1. /\ pc[c] = "free" /\ kpc' = kpc
        /\ pc' = [pc EXCEPT ![c] = "idle"]
        /\ camKcp' = [camKcp EXCEPT ![c] = "null"]
        /\ phase' = phase \/ phase' = [phase EXCEPT ![c] = "closed"]
    BY <1>3 DEF ReleaseFree
  <2> QED
    BY <2>1
       DEF IInv, KcpTypes, PhaseTypes, JoinedBeforeFree, UpdateUsesLiveKcp, ClosedIsEmpty,
           ReleasesOpen
<1> QED
  BY <1>0, <1>1, <1>2, <1>3 DEF ReleaseSession

\* The update thread moves only itself.
LEMMA KcpThreadIInv ==
  ASSUME NEW c \in Conns, IInv, KcpThread(c)
  PROVE  IInv'
<1>1. pc' = pc /\ phase' = phase /\ camKcp' = camKcp
  BY DEF KcpThread, KcpTest, KcpLock, KcpUpdate, connVars
<1>2. /\ kpc[c] # "none"
      /\ \/ kpc' = kpc
         \/ \E k \in {"test", "lock", "ended"} : kpc' = [kpc EXCEPT ![c] = k]
         \/ camKcp[c] = "live" /\ kpc' = [kpc EXCEPT ![c] = "update"]
  BY DEF KcpThread, KcpTest, KcpLock, KcpUpdate
<1> QED
  BY <1>1, <1>2
     DEF IInv, KcpTypes, PhaseTypes, JoinedBeforeFree, UpdateUsesLiveKcp, ClosedIsEmpty,
         ReleasesOpen

\* Every step preserves the invariant.
LEMMA NextIInv == IInv /\ [Next]_vars => IInv'
<1> SUFFICES ASSUME IInv, [Next]_vars
             PROVE  IInv'
  OBVIOUS
<1>1. CASE UNCHANGED vars
  BY <1>1, UntouchedIInv DEF vars, connVars, kcpVars
<1>2. CASE \E u \in UdpConns : UdpMessage(u)
  <2>1. UNCHANGED <<pc, phase, camKcp, kpc>>
    BY <1>2 DEF UdpMessage, connVars, kcpVars
  <2> QED
    BY <2>1, UntouchedIInv
<1>3. CASE \E c \in Conns : \/ NewConnection(c) \/ AddCam(c) \/ HandleRequest(c)
                            \/ Close(c) \/ ReleaseSession(c) \/ ReleaseSticks(c)
                            \/ KcpThread(c)
  <2>1. PICK c \in Conns : \/ NewConnection(c) \/ AddCam(c) \/ HandleRequest(c)
                           \/ Close(c) \/ ReleaseSession(c) \/ ReleaseSticks(c)
                           \/ KcpThread(c)
    BY <1>3
  <2>2. CASE Close(c)
    <3>1. /\ LoopFree(c) /\ phase[c] = "open"
          /\ BeginRelease(c, TRUE) /\ UNCHANGED <<phase, camKcp, kpc>>
      BY <2>2 DEF Close, kcpVars
    <3> QED
      BY <3>1, BeginReleaseIInv
  <2> QED
    BY <2>1, <2>2, NewConnectionIInv, HandleRequestIInv, ReleaseSessionIInv, KcpThreadIInv
<1> QED
  BY <1>1, <1>2, <1>3 DEF Next

-----------------------------------------------------------------------------
\* The update thread is inside ikcp_update only while the KCP object exists,
\* whatever requests the clients send and whenever they disconnect.
THEOREM UpdateIsSafe == Spec => []UpdateUsesLiveKcp
<1>1. IInv => UpdateUsesLiveKcp
  BY DEF IInv
<1> QED
  BY InitIInv, NextIInv, <1>1, PTL DEF Spec

\* A destroyed connection has neither an update thread nor a KCP object.
THEOREM ClosedHasNoThread == Spec => []ClosedIsEmpty
<1>1. IInv => ClosedIsEmpty
  BY DEF IInv
<1> QED
  BY InitIInv, NextIInv, <1>1, PTL DEF Spec

-----------------------------------------------------------------------------
(* Any dialogue: the types, and the ids that were drawn.                    *)

ConnTypes ==
  /\ closing \in [Conns -> BOOLEAN] /\ sent \in [Conns -> 0..Len(Dialogue)]
  /\ state \in [Conns -> {"INIT", "READY", "PLAYING"}]
  /\ transport \in [Conns -> Transports]

ReplyTypes ==
  /\ reply \in [Conns -> {0, 200, 400, 454, 455, 501}]
  /\ kcpRunning \in [Conns -> BOOLEAN] /\ fault \in Faults

UdpTypes ==
  /\ video \in [Conns -> UdpConns \cup {NoUdp}]
  /\ audio \in [Conns -> UdpConns \cup {NoUdp}]
  /\ udpConns \subseteq UdpConns /\ callbacks \subseteq UdpConns

IdTypes ==
  /\ id \in [Conns -> Ids] /\ counter \in Ids
  /\ sessions \subseteq Ids /\ cams \subseteq Ids

\* Ids are drawn from the counter, and the registries hold ids that were drawn.
IdsDrawn ==
  /\ \A c \in Conns : IF phase[c] = "new" THEN id[c] = 0 ELSE id[c] \in 1..counter
  /\ \A i \in sessions \cup cams : i \in 1..counter

\* A camera with an id of its own is in both registries or in neither, but for the end of
\* its constructor, when only its session is there, and for the release, when it is not
\* at the monitor server any more; and it is in none when it is gone.
Registered ==
  \A c \in Conns : phase[c] # "new" /\ Alone(c) =>
    /\ pc[c] \in {"idle", "removeCam"} => (id[c] \in sessions <=> id[c] \in cams)
    /\ pc[c] = "addCam" => id[c] \in sessions
    /\ pc[c] \in {"join", "free", "stuck"} => id[c] \notin cams
    /\ phase[c] = "closed" => id[c] \notin sessions \cup cams

RInv == IInv /\ ConnTypes /\ ReplyTypes /\ UdpTypes /\ IdTypes /\ IdsDrawn /\ Registered

-----------------------------------------------------------------------------
(* The dialogue of camera/rtsp_client.c: how far it is tells the rest.      *)

\* The track is set up by the third request, the fourth begins the recording.
SetUp(c) ==
  /\ phase[c] = "new" => sent[c] = 0
  /\ sent[c] < 3 => video[c] = NoUdp
  /\ sent[c] >= 3 => video[c] = <<c, 3>>
  /\ audio[c] = NoUdp
  /\ sent[c] = 3 => state[c] = "READY"
  /\ state[c] = "PLAYING" <=> sent[c] >= 4

SetUpByThird == \A c \in Conns : SetUp(c)

\* A UDP connection in the loop's table is its camera's current one, until the
\* release that TEARDOWN or the close began is over.
UdpIsCurrent ==
  /\ \A u \in udpConns : /\ u = video[u[1]] /\ phase[u[1]] = "open"
                         /\ sent[u[1]] >= 3 /\ (sent[u[1]] = 5 => pc[u[1]] # "idle")
  /\ \A u \in callbacks : sent[u[1]] >= 4

\* The KCP object and its thread come with the fourth request; the object is there
\* as long as the camera records.  The fifth begins a release that does not close, and
\* the constructor ends before the first.
KcpAt(c) ==
  /\ sent[c] < 4 => kpc[c] = "none"
  /\ sent[c] >= 4 => camKcp[c] # "wild"
  /\ sent[c] = 4 /\ phase[c] = "open" => camKcp[c] = "live"
  /\ pc[c] \notin {"idle", "addCam"} /\ ~closing[c] => sent[c] = 5
  /\ pc[c] = "addCam" => sent[c] = 0

KcpByFourth == \A c \in Conns : KcpAt(c)

\* A camera with an id of its own that has not begun to leave is at the monitor server.
KnownUntilFifth ==
  \A c \in Conns :
    Alone(c) /\ phase[c] = "open" /\ pc[c] = "idle" /\ sent[c] < 5 => id[c] \in cams

CameraInv == RInv /\ SetUpByThird /\ UdpIsCurrent /\ KcpByFourth /\ KnownUntilFifth
             /\ OnlyWildKcpFails

-----------------------------------------------------------------------------
(* Steps that leave the variables of a part alone leave the part alone.      *)

\* One conjunct for each part of the invariant.
LEMMA Frames ==
  /\ ConnTypes /\ UNCHANGED <<closing, sent, state, transport>> => ConnTypes'
  /\ ReplyTypes /\ UNCHANGED <<reply, kcpRunning, fault>> => ReplyTypes'
  /\ UdpTypes /\ UNCHANGED <<video, audio, udpConns, callbacks>> => UdpTypes'
  /\ IdTypes /\ UNCHANGED <<id, counter, sessions, cams>> => IdTypes'
  /\ IdsDrawn /\ UNCHANGED <<phase, id, counter, sessions, cams>> => IdsDrawn'
  /\ Registered /\ UNCHANGED <<phase, id, pc, sessions, cams>> => Registered'
  /\ SetUpByThird /\ UNCHANGED <<phase, sent, video, audio, state>> => SetUpByThird'
  /\ UdpIsCurrent /\ UNCHANGED <<udpConns, video, phase, sent, pc, callbacks>>
         => UdpIsCurrent'
  /\ KcpByFourth /\ UNCHANGED <<sent, kpc, camKcp, phase, pc, closing>> => KcpByFourth'
  /\ KnownUntilFifth /\ UNCHANGED <<id, phase, pc, sent, cams>> => KnownUntilFifth'
  /\ OnlyWildKcpFails /\ UNCHANGED <<fault, pc, state>> => OnlyWildKcpFails'
<1>1. ConnTypes /\ UNCHANGED <<closing, sent, state, transport>> => ConnTypes'
  BY DEF ConnTypes
<1>2. ReplyTypes /\ UNCHANGED <<reply, kcpRunning, fault>> => ReplyTypes'
  BY DEF ReplyTypes
<1>3. UdpTypes /\ UNCHANGED <<video, audio, udpConns, callbacks>> => UdpTypes'
  BY DEF UdpTypes
<1>4. IdTypes /\ UNCHANGED <<id, counter, sessions, cams>> => IdTypes'
  BY DEF IdTypes
<1>5. IdsDrawn /\ UNCHANGED <<phase, id, counter, sessions, cams>> => IdsDrawn'
  BY DEF IdsDrawn
<1>6. Registered /\ UNCHANGED <<phase, id, pc, sessions, cams>> => Registered'
  BY DEF Registered, Alone
<1>7. SetUpByThird /\ UNCHANGED <<phase, sent, video, audio, state>> => SetUpByThird'
  BY DEF SetUpByThird, SetUp
<1>8. UdpIsCurrent /\ UNCHANGED <<udpConns, video, phase, sent, pc, callbacks>>
          => UdpIsCurrent'
  BY DEF UdpIsCurrent
<1>9. KcpByFourth /\ UNCHANGED <<sent, kpc, camKcp, phase, pc, closing>> => KcpByFourth'
  BY DEF KcpByFourth, KcpAt
<1>10. KnownUntilFifth /\ UNCHANGED <<id, phase, pc, sent, cams>> => KnownUntilFifth'
  BY DEF KnownUntilFifth, Alone
<1>11. OnlyWildKcpFails /\ UNCHANGED <<fault, pc, state>> => OnlyWildKcpFails'
  BY DEF OnlyWildKcpFails
<1> QED
  BY <1>1, <1>2, <1>3, <1>4, <1>5, <1>6, <1>7, <1>8, <1>9, <1>10, <1>11

\* The types the first invariant keeps.
LEMMA KcpTypeFacts ==
  ASSUME IInv
  PROVE  /\ phase \in [Conns -> {"new", "open", "closed"}]
         /\ pc \in [Conns -> {"idle", "addCam", "removeCam", "join", "free", "stuck"}]
         /\ camKcp \in [Conns -> {"null", "wild", "live"}]
         /\ kpc \in [Conns -> {"none", "test", "lock", "update", "ended"}]
BY DEF IInv, KcpTypes, PhaseTypes

\* A dialogue has a length.
LEMMA DialogueLength == Len(Dialogue) \in Nat
BY DialogueOfRequests, LenProperties

\* A request is counted.
LEMMA ReceiveCounts ==
  ASSUME NEW c \in Conns, NEW r, Receive(c, r), sent \in [Conns -> 0..Len(Dialogue)]
  PROVE  /\ sent' = [sent EXCEPT ![c] = sent[c] + 1]
         /\ sent[c] + 1 \in 0..Len(Dialogue) /\ sent[c] + 1 \in 1..Len(Dialogue)
         /\ sent' \in [Conns -> 0..Len(Dialogue)]
         /\ phase[c] = "open" /\ pc[c] = "idle" /\ fault = "none"
<1>1. sent[c] \in 0..Len(Dialogue) /\ sent[c] < Len(Dialogue)
  BY DEF Receive
<1>2. sent[c] + 1 \in 0..Len(Dialogue) /\ sent[c] + 1 \in 1..Len(Dialogue)
  BY <1>1, DialogueLength
<1> QED
  BY <1>2 DEF Receive, LoopFree

\* The pair that names the track's UDP connection is no empty value.
LEMMA PairIsUdp == \A c \in Conns : <<c, 3>> # NoUdp
BY DEF NoUdp

\* What the camera sends: its k-th request, for k from 1 to 5.
Sends(c, r) ==
  \/ sent[c] = 0 /\ sent'[c] = 1 /\ r = [method |-> "OPTIONS"]
  \/ sent[c] = 1 /\ sent'[c] = 2 /\ r = [method |-> "ANNOUNCE"]
  \/ sent[c] = 2 /\ sent'[c] = 3
     /\ r = [method |-> "SETUP", transport |-> "UDP", track |-> "video"]
  \/ sent[c] = 3 /\ sent'[c] = 4
     /\ r = [method |-> "RECORD", session |-> TRUE, kcpid |-> "number"]
  \/ sent[c] = 4 /\ sent'[c] = 5 /\ r = [method |-> "TEARDOWN", session |-> TRUE]

\* A request that arrives is the camera's next one, from a connection that is idle.
LEMMA CameraRequest ==
  ASSUME NEW c \in Conns, NEW r, Receive(c, r), sent \in [Conns -> 0..Len(Dialogue)],
         Dialogue = UdpCamera
  PROVE  /\ Sends(c, r)
         /\ sent' = [sent EXCEPT ![c] = sent[c] + 1]
         /\ \A d \in Conns : d # c => sent'[d] = sent[d]
         /\ phase[c] = "open" /\ pc[c] = "idle" /\ fault = "none"
<1>1. Len(Dialogue) = 5
  BY DEF UdpCamera
<1>2. sent[c] \in 0..4 /\ r \in UdpCamera[sent[c] + 1]
  BY <1>1, ReceiveCounts DEF Receive
<1>3. /\ sent' = [sent EXCEPT ![c] = sent[c] + 1] /\ sent'[c] = sent[c] + 1
      /\ \A d \in Conns : d # c => sent'[d] = sent[d]
      /\ phase[c] = "open" /\ pc[c] = "idle" /\ fault = "none"
  BY ReceiveCounts
<1>4. CASE sent[c] = 0
  BY <1>2, <1>3, <1>4 DEF UdpCamera, Sends
<1>5. CASE sent[c] = 1
  BY <1>2, <1>3, <1>5 DEF UdpCamera, Sends
<1>6. CASE sent[c] = 2
  BY <1>2, <1>3, <1>6 DEF UdpCamera, Sends
<1>7. CASE sent[c] = 3
  BY <1>2, <1>3, <1>7 DEF UdpCamera, Sends
<1>8. CASE sent[c] = 4
  BY <1>2, <1>3, <1>8 DEF UdpCamera, Sends
<1> QED
  BY <1>2, <1>3, <1>4, <1>5, <1>6, <1>7, <1>8

\* An id that is drawn is the counter's next value or one that another open connection
\* has.
LEMMA NewIdFacts ==
  ASSUME NEW c \in Conns, NEW i \in NewIds(c), IdTypes, IdsDrawn
  PROVE  /\ i \in Nat /\ i >= 1
         /\ \/ i = counter + 1
            \/ i <= counter /\ \E e \in Conns : id[e] = i /\ phase[e] = "open"
<1>1. counter \in Nat
  BY DEF IdTypes, Ids
<1>2. CASE i = counter + 1
  BY <1>1, <1>2
<1>3. ASSUME NEW e \in Conns, i = id[e], phase[e] = "open"
      PROVE  i \in Nat /\ i >= 1 /\ i <= counter
  BY <1>1, <1>3 DEF IdsDrawn
<1> QED
  BY <1>2, <1>3 DEF NewIds

\* The handler tells how far the dialogue is.
LEMMA CameraSends ==
  ASSUME NEW c \in Conns, NEW r, Sends(c, r)
  PROVE  /\ r.method \in {"OPTIONS", "ANNOUNCE", "OTHER"}
              => sent[c] \in {0, 1} /\ sent'[c] \in {1, 2}
         /\ r.method = "SETUP" => /\ sent[c] = 2 /\ sent'[c] = 3
                                  /\ r.transport = "UDP" /\ r.track = "video"
         /\ r.method = "RECORD" => /\ sent[c] = 3 /\ sent'[c] = 4
                                   /\ r.session /\ r.kcpid = "number"
         /\ r.method = "TEARDOWN" => sent[c] = 4 /\ sent'[c] = 5 /\ r.session
BY DEF Sends

\* A connection that a step leaves alone keeps its part of the invariant.
LEMMA OtherConnection ==
  ASSUME NEW d \in Conns, SetUp(d), KcpAt(d), phase'[d] = phase[d], sent'[d] = sent[d],
         video'[d] = video[d], audio'[d] = audio[d], state'[d] = state[d], kpc'[d] = kpc[d],
         camKcp'[d] = camKcp[d], pc'[d] = pc[d], closing'[d] = closing[d]
  PROVE  SetUp(d)' /\ KcpAt(d)'
BY DEF SetUp, KcpAt

\* NewConnection draws an id and adds the session.
LEMMA NewConnectionRInv ==
  ASSUME NEW c \in Conns, RInv, NewConnection(c)
  PROVE  ConnTypes' /\ ReplyTypes' /\ UdpTypes' /\ IdTypes' /\ IdsDrawn' /\ Registered'
<1> USE DEF RInv, connVars, kcpVars, sharedVars
<1>1. IdTypes'
  <2>1. PICK i \in NewIds(c) :
          /\ id' = [id EXCEPT ![c] = i] /\ sessions' = sessions \cup {i}
          /\ cams' = cams
          /\ counter' = IF i > counter THEN counter + 2 ELSE counter
    BY DEF NewConnection
  <2>2. i \in Nat
    BY NewIdFacts
  <2> QED
    BY <2>1, <2>2 DEF IdTypes, Ids
<1>2. IdsDrawn'
  <2>1. PICK i \in NewIds(c) :
          /\ id' = [id EXCEPT ![c] = i] /\ sessions' = sessions \cup {i}
          /\ cams' = cams
          /\ counter' = IF i > counter THEN counter + 2 ELSE counter
    BY DEF NewConnection
  <2>2. /\ i \in 1..counter' /\ counter \in Nat /\ counter' \in Nat /\ counter <= counter'
    BY <2>1, NewIdFacts DEF IdTypes, Ids
  <2>3. \A k \in 1..counter : k \in 1..counter'
    BY <2>2
  <2>4. phase' = [phase EXCEPT ![c] = "open"]
    BY DEF NewConnection
  <2> QED
    BY <2>1, <2>2, <2>3, <2>4, KcpTypeFacts DEF IdsDrawn, IdTypes
<1>3. Registered'
  <2>1. PICK i \in NewIds(c) :
          /\ id' = [id EXCEPT ![c] = i] /\ sessions' = sessions \cup {i}
          /\ cams' = cams
          /\ counter' = IF i > counter THEN counter + 2 ELSE counter
    BY DEF NewConnection
  <2>2. /\ phase[c] = "new" /\ phase' = [phase EXCEPT ![c] = "open"]
        /\ pc[c] = "idle" /\ pc' = [pc EXCEPT ![c] = "addCam"]
    BY DEF NewConnection, LoopFree
  <2>3. ASSUME NEW d \in Conns, phase'[d] # "new", Alone(d)', d # c
        PROVE  /\ phase[d] # "new" /\ Alone(d) /\ id'[d] = id[d] /\ id[d] # i
    <3>1. /\ phase[d] # "new" /\ id'[d] = id[d] /\ id'[c] = i /\ id[d] # 0 /\ id[c] = 0
      BY <2>1, <2>2, <2>3, KcpTypeFacts DEF IdTypes, IdsDrawn
    <3> QED
      BY <2>1, <2>3, <3>1 DEF Alone
  <2>4. id'[c] = i
    BY <2>1 DEF IdTypes
  <2> QED
    BY <2>1, <2>2, <2>3, <2>4, KcpTypeFacts DEF Registered
<1> QED
  BY <1>1, <1>2, <1>3, Frames DEF NewConnection

\* The end of the constructor: now both registries know the camera.
LEMMA AddCamRInv ==
  ASSUME NEW c \in Conns, RInv, AddCam(c)
  PROVE  ConnTypes' /\ ReplyTypes' /\ UdpTypes' /\ IdTypes' /\ IdsDrawn' /\ Registered'
<1> USE DEF RInv, connVars, kcpVars, sharedVars
<1>1. phase[c] = "open"
  BY DEF AddCam, IInv, ReleasesOpen
<1>2. IdTypes'
  BY DEF AddCam, IdTypes
<1>3. IdsDrawn'
  BY <1>1 DEF AddCam, IdsDrawn
<1>4. Registered'
  BY <1>1, KcpTypeFacts DEF AddCam, Registered, Alone
<1> QED
  BY <1>2, <1>3, <1>4, Frames DEF AddCam

\* A request that is only answered.
LEMMA HandleOtherRInv ==
  ASSUME NEW c \in Conns, NEW r, RInv, HandleOther(c, r)
  PROVE  ConnTypes' /\ ReplyTypes' /\ UdpTypes' /\ IdTypes' /\ IdsDrawn' /\ Registered'
<1> USE DEF RInv, connVars, kcpVars, sharedVars
<1>1. ConnTypes'
  BY ReceiveCounts DEF HandleOther, ConnTypes
<1>2. ReplyTypes'
  BY DEF HandleOther, Respond, ReplyTypes
<1> QED
  BY <1>1, <1>2, Frames DEF HandleOther

\* SETUP that is refused changes only the answer.
LEMMA HandleSetupRefusedRInv ==
  ASSUME NEW c \in Conns, NEW r, RInv, HandleSetupRefused(c, r)
  PROVE  ConnTypes' /\ ReplyTypes' /\ UdpTypes' /\ IdTypes' /\ IdsDrawn' /\ Registered'
<1> USE DEF RInv, connVars, kcpVars, sharedVars
<1>1. ConnTypes'
  BY ReceiveCounts DEF HandleSetupRefused, ConnTypes
<1>2. ReplyTypes'
  BY DEF HandleSetupRefused, Respond, ReplyTypes
<1> QED
  BY <1>1, <1>2, Frames DEF HandleSetupRefused

\* SETUP over UDP: a UDP connection named after its request.
LEMMA HandleSetupUdpRInv ==
  ASSUME NEW c \in Conns, NEW r, RInv, HandleSetupUdp(c, r)
  PROVE  ConnTypes' /\ ReplyTypes' /\ UdpTypes' /\ IdTypes' /\ IdsDrawn' /\ Registered'
<1> USE DEF RInv, connVars, kcpVars, sharedVars
<1>1. ConnTypes'
  BY ReceiveCounts DEF HandleSetupUdp, ConnTypes, Transports
<1>2. ReplyTypes'
  BY DEF HandleSetupUdp, Respond, ReplyTypes
<1>3. UdpTypes'
  <2>1. <<c, sent[c] + 1>> \in UdpConns
    BY ReceiveCounts DEF HandleSetupUdp, ConnTypes, UdpConns
  <2> QED
    BY <2>1 DEF HandleSetupUdp, UdpTypes
<1> QED
  BY <1>1, <1>2, <1>3, Frames DEF HandleSetupUdp

\* SETUP over TCP: the transport and the state.
LEMMA HandleSetupTcpRInv ==
  ASSUME NEW c \in Conns, NEW r, RInv, HandleSetupTcp(c, r)
  PROVE  ConnTypes' /\ ReplyTypes' /\ UdpTypes' /\ IdTypes' /\ IdsDrawn' /\ Registered'
<1> USE DEF RInv, connVars, kcpVars, sharedVars
<1>1. ConnTypes'
  BY ReceiveCounts DEF HandleSetupTcp, ConnTypes, Transports
<1>2. ReplyTypes'
  BY DEF HandleSetupTcp, Respond, ReplyTypes
<1> QED
  BY <1>1, <1>2, Frames DEF HandleSetupTcp

\* A wrong session id changes only the answer.
LEMMA HandleWrongSessionRInv ==
  ASSUME NEW c \in Conns, NEW r, RInv, HandleWrongSession(c, r)
  PROVE  ConnTypes' /\ ReplyTypes' /\ UdpTypes' /\ IdTypes' /\ IdsDrawn' /\ Registered'
<1> USE DEF RInv, connVars, kcpVars, sharedVars
<1>1. ConnTypes'
  BY ReceiveCounts DEF HandleWrongSession, ConnTypes
<1>2. ReplyTypes'
  BY DEF HandleWrongSession, Respond, ReplyTypes
<1> QED
  BY <1>1, <1>2, Frames DEF HandleWrongSession

\* RECORD that throws leaves all but the fault alone.
LEMMA HandleRecordThrowsRInv ==
  ASSUME NEW c \in Conns, NEW r, RInv, HandleRecordThrows(c, r)
  PROVE  ConnTypes' /\ ReplyTypes' /\ UdpTypes' /\ IdTypes' /\ IdsDrawn' /\ Registered'
<1> USE DEF RInv, connVars, kcpVars, sharedVars
<1>1. ConnTypes'
  BY ReceiveCounts DEF HandleRecordThrows, ConnTypes, Transports
<1>2. ReplyTypes'
  BY DEF HandleRecordThrows, ReplyTypes, Faults
<1> QED
  BY <1>1, <1>2, Frames DEF HandleRecordThrows

\* RECORD: the types of what it makes; the registries stay.
LEMMA HandleRecordRInv ==
  ASSUME NEW c \in Conns, NEW r, RInv, HandleRecord(c, r)
  PROVE  ConnTypes' /\ ReplyTypes' /\ UdpTypes' /\ IdTypes' /\ IdsDrawn' /\ Registered'
<1> USE DEF RInv, connVars, kcpVars, sharedVars
<1>1. ConnTypes'
  BY ReceiveCounts DEF HandleRecord, ConnTypes, Transports
<1>2. ReplyTypes'
  <2>1. kcpRunning' \in [Conns -> BOOLEAN]
    BY ZenonT(40) DEF HandleRecord, StartKcpThread, ReplyTypes
  <2>2. \/ reply' = reply \/ reply' = [reply EXCEPT ![c] = 200]
        \/ reply' = [reply EXCEPT ![c] = 455]
    BY DEF HandleRecord, Respond
  <2>3. reply' \in [Conns -> {0, 200, 400, 454, 455, 501}]
    BY <2>2 DEF ReplyTypes
  <2>4. fault' \in Faults
    BY DEF HandleRecord, ReplyTypes, Faults
  <2> QED
    BY <2>1, <2>3, <2>4 DEF ReplyTypes
<1>3. UdpTypes'
  BY DEF HandleRecord, Receive, UdpTypes, UdpConns
<1> QED
  BY <1>1, <1>2, <1>3, Frames DEF HandleRecord

\* TEARDOWN begins a release.
LEMMA HandleTeardownRInv ==
  ASSUME NEW c \in Conns, NEW r, RInv, HandleTeardown(c, r)
  PROVE  ConnTypes' /\ ReplyTypes' /\ UdpTypes' /\ IdTypes' /\ IdsDrawn' /\ Registered'
<1> USE DEF RInv, connVars, kcpVars, sharedVars
<1>1. ConnTypes'
  BY ReceiveCounts DEF HandleTeardown, BeginRelease, ConnTypes
<1>2. Registered'
  <2>1. /\ pc[c] = "idle" /\ pc' = [pc EXCEPT ![c] = "removeCam"]
        /\ UNCHANGED <<phase, id, sessions, cams>>
    BY DEF HandleTeardown, BeginRelease, Receive, LoopFree
  <2> QED
    BY <2>1, KcpTypeFacts DEF Registered, Alone
<1> QED
  BY <1>1, <1>2, Frames DEF HandleTeardown

\* The close does the same, whatever was sent.
LEMMA CloseRInv ==
  ASSUME NEW c \in Conns, RInv, Close(c)
  PROVE  ConnTypes' /\ ReplyTypes' /\ UdpTypes' /\ IdTypes' /\ IdsDrawn' /\ Registered'
<1> USE DEF RInv, connVars, kcpVars, sharedVars
<1>1. ConnTypes'
  BY DEF Close, BeginRelease, ConnTypes
<1>2. Registered'
  <2>1. /\ pc[c] = "idle" /\ pc' = [pc EXCEPT ![c] = "removeCam"]
        /\ UNCHANGED <<phase, id, sessions, cams>>
    BY DEF Close, BeginRelease, LoopFree
  <2> QED
    BY <2>1, KcpTypeFacts DEF Registered, Alone
<1> QED
  BY <1>1, <1>2, Frames DEF Close

\* removeCam returns, or never does: the camera is off the monitor server.
LEMMA ReleaseRemovesRInv ==
  ASSUME NEW c \in Conns, RInv, ReleaseRemoves(c) \/ ReleaseSticks(c)
  PROVE  ConnTypes' /\ ReplyTypes' /\ UdpTypes' /\ IdTypes' /\ IdsDrawn' /\ Registered'
<1> USE DEF RInv, connVars, kcpVars, sharedVars
<1>1. /\ pc[c] = "removeCam" /\ phase[c] = "open" /\ cams' = cams \ {id[c]}
      /\ \E q \in {"join", "stuck"} : pc' = [pc EXCEPT ![c] = q]
      /\ kcpRunning' = kcpRunning \/ kcpRunning' = [kcpRunning EXCEPT ![c] = FALSE]
      /\ UNCHANGED <<phase, id, counter, sessions>>
  BY DEF ReleaseRemoves, ReleaseSticks, Removed, IInv, ReleasesOpen
<1>2. UNCHANGED <<closing, sent, state, transport, video, audio, reply, udpConns, callbacks,
                  fault>>
  BY DEF ReleaseRemoves, ReleaseSticks
<1>3. ReplyTypes'
  <2>1. kcpRunning \in [Conns -> BOOLEAN]
    BY DEF ReplyTypes
  <2>2. kcpRunning' \in [Conns -> BOOLEAN]
    BY <1>1, <2>1, ZenonT(40)
  <2> QED
    BY <1>2, <2>2 DEF ReplyTypes
<1>4. IdTypes'
  BY <1>1 DEF IdTypes
<1>5. IdsDrawn'
  BY <1>1 DEF IdsDrawn
<1>6. Registered'
  BY <1>1, KcpTypeFacts DEF Registered, Alone
<1> QED
  BY <1>2, <1>3, <1>4, <1>5, <1>6, Frames

\* The join passes: the release goes on for the same connection.
LEMMA ReleaseJoinRInv ==
  ASSUME NEW c \in Conns, RInv, ReleaseJoin(c)
  PROVE  ConnTypes' /\ ReplyTypes' /\ UdpTypes' /\ IdTypes' /\ IdsDrawn' /\ Registered'
<1> USE DEF RInv, connVars, kcpVars, sharedVars
<1>1. Registered'
  BY KcpTypeFacts DEF ReleaseJoin, Registered, Alone
<1> QED
  BY <1>1, Frames DEF ReleaseJoin

\* A KCP pointer that was never set is released: the fault.
LEMMA ReleaseWildKcpRInv ==
  ASSUME NEW c \in Conns, RInv, ReleaseWildKcp(c)
  PROVE  ConnTypes' /\ ReplyTypes' /\ UdpTypes' /\ IdTypes' /\ IdsDrawn' /\ Registered'
<1> USE DEF RInv, connVars, kcpVars, sharedVars
<1>1. ReplyTypes'
  BY DEF ReleaseWildKcp, ReplyTypes, Faults
<1> QED
  BY <1>1, Frames DEF ReleaseWildKcp

\* The release ends: the session goes, and with it the last of an id.
LEMMA ReleaseFreeRInv ==
  ASSUME NEW c \in Conns, RInv, ReleaseFree(c)
  PROVE  ConnTypes' /\ ReplyTypes' /\ UdpTypes' /\ IdTypes' /\ IdsDrawn' /\ Registered'
<1> USE DEF RInv, connVars, kcpVars, sharedVars
<1>1. ReplyTypes'
  BY DEF ReleaseFree, Respond, ReplyTypes
<1>2. UdpTypes'
  BY DEF ReleaseFree, Unregister, UdpTypes
<1>3. IdTypes'
  BY KcpTypeFacts DEF ReleaseFree, IdTypes, Ids
<1>4. IdsDrawn'
  <2>1. /\ phase' = phase \/ phase' = [phase EXCEPT ![c] = "closed"]
        /\ phase[c] = "open"
    BY DEF ReleaseFree, IInv, ReleasesOpen
  <2> QED
    BY <2>1, KcpTypeFacts DEF ReleaseFree, IdsDrawn
<1>5. Registered'
  BY KcpTypeFacts DEF ReleaseFree, Respond, Registered, Alone, IdsDrawn
<1> QED
  BY <1>1, <1>2, <1>3, <1>4, <1>5, Frames DEF ReleaseFree

\* The update thread reads its flag.
LEMMA KcpTestRInv ==
  ASSUME NEW c \in Conns, RInv, KcpTest(c)
  PROVE  ConnTypes' /\ ReplyTypes' /\ UdpTypes' /\ IdTypes' /\ IdsDrawn' /\ Registered'
<1> USE DEF RInv, connVars, kcpVars, sharedVars
<1> QED
  BY Frames DEF KcpTest

\* The update thread takes the mutex.
LEMMA KcpLockRInv ==
  ASSUME NEW c \in Conns, RInv, KcpLock(c)
  PROVE  ConnTypes' /\ ReplyTypes' /\ UdpTypes' /\ IdTypes' /\ IdsDrawn' /\ Registered'
<1> USE DEF RInv, connVars, kcpVars, sharedVars
<1>1. ReplyTypes'
  BY DEF KcpLock, ReplyTypes, Faults
<1> QED
  BY <1>1, Frames DEF KcpLock

\* The update thread is done with the object.
LEMMA KcpUpdateRInv ==
  ASSUME NEW c \in Conns, RInv, KcpUpdate(c)
  PROVE  ConnTypes' /\ ReplyTypes' /\ UdpTypes' /\ IdTypes' /\ IdsDrawn' /\ Registered'
<1> USE DEF RInv, connVars, kcpVars, sharedVars
<1> QED
  BY Frames DEF KcpUpdate

\* A datagram changes at most the fault.
LEMMA UdpMessageRInv ==
  ASSUME NEW u \in UdpConns, RInv, UdpMessage(u)
  PROVE  ConnTypes' /\ ReplyTypes' /\ UdpTypes' /\ IdTypes' /\ IdsDrawn' /\ Registered'
<1> USE DEF RInv, connVars, kcpVars, sharedVars
<1>1. ReplyTypes'
  BY DEF UdpMessage, InputOutcome, ReplyTypes, Faults
<1> QED
  BY <1>1, Frames DEF UdpMessage

\* A request of any client.
LEMMA HandleRequestRInv ==
  ASSUME NEW c \in Conns, RInv, HandleRequest(c)
  PROVE  ConnTypes' /\ ReplyTypes' /\ UdpTypes' /\ IdTypes' /\ IdsDrawn' /\ Registered'
<1>1. PICK r : \/ HandleOther(c, r)
               \/ HandleSetupRefused(c, r) \/ HandleSetupUdp(c, r) \/ HandleSetupTcp(c, r)
               \/ HandleWrongSession(c, r) \/ HandleRecordThrows(c, r)
               \/ HandleRecord(c, r) \/ HandleTeardown(c, r)
  BY DEF HandleRequest
<1> QED
  BY <1>1, HandleOtherRInv, HandleSetupRefusedRInv, HandleSetupUdpRInv, HandleSetupTcpRInv,
     HandleWrongSessionRInv, HandleRecordThrowsRInv, HandleRecordRInv, HandleTeardownRInv

\* Every step, whatever the dialogue.
LEMMA NextRInv ==
  ASSUME RInv, [Next]_vars
  PROVE  RInv'
<1>1. IInv'
  BY NextIInv DEF RInv
<1>2. ASSUME NEW c \in Conns,
             NewConnection(c) \/ AddCam(c) \/ HandleRequest(c) \/ Close(c)
      PROVE  ConnTypes' /\ ReplyTypes' /\ UdpTypes' /\ IdTypes' /\ IdsDrawn' /\ Registered'
  BY <1>2, NewConnectionRInv, AddCamRInv, HandleRequestRInv, CloseRInv
<1>3. ASSUME NEW c \in Conns, ReleaseSession(c) \/ ReleaseSticks(c) \/ KcpThread(c)
      PROVE  ConnTypes' /\ ReplyTypes' /\ UdpTypes' /\ IdTypes' /\ IdsDrawn' /\ Registered'
  BY <1>3, ReleaseRemovesRInv, ReleaseJoinRInv, ReleaseWildKcpRInv, ReleaseFreeRInv,
     KcpTestRInv, KcpLockRInv, KcpUpdateRInv
     DEF ReleaseSession, KcpThread
<1>4. ASSUME NEW u \in UdpConns, UdpMessage(u)
      PROVE  ConnTypes' /\ ReplyTypes' /\ UdpTypes' /\ IdTypes' /\ IdsDrawn' /\ Registered'
  BY <1>4, UdpMessageRInv
<1>5. CASE UNCHANGED vars
  <2>1. UNCHANGED <<phase, pc, closing, sent, state, transport, id, video, audio, reply>>
    BY <1>5 DEF vars, connVars
  <2>2. UNCHANGED <<camKcp, kcpRunning, kpc, counter, sessions, cams, udpConns, callbacks>>
    BY <1>5 DEF vars, kcpVars, sharedVars
  <2>3. UNCHANGED fault
    BY <1>5 DEF vars
  <2> QED
    BY <1>1, <2>1, <2>2, <2>3, Frames DEF RInv
<1> QED
  BY <1>1, <1>2, <1>3, <1>4, <1>5 DEF Next, RInv

\* The initial states.
LEMMA InitRInv == Init => RInv
<1> SUFFICES ASSUME Init
             PROVE  RInv
  OBVIOUS
<1>1. IInv
  BY InitIInv
<1>2. ConnTypes
  BY DialogueLength DEF Init, ConnTypes, Transports
<1>3. ReplyTypes
  BY DEF Init, ReplyTypes, Faults
<1>4. UdpTypes /\ IdTypes
  BY DEF Init, UdpTypes, IdTypes, Ids
<1>5. IdsDrawn /\ Registered
  BY DEF Init, IdsDrawn, Registered
<1> QED
  BY <1>1, <1>2, <1>3, <1>4, <1>5 DEF RInv

\* The invariant holds at all times, whatever the dialogue.
LEMMA AlwaysRInv == Spec => []RInv
<1>1. Init => RInv
  BY InitRInv
<1>2. RInv /\ [Next]_vars => RInv'
  BY NextRInv
<1> QED
  BY <1>1, <1>2, PTL DEF Spec

\* Whatever the clients send and whenever they disconnect, a connection that is gone has
\* no thread and no KCP object, and neither registry holds its id, unless another
\* connection has drawn the same id.
THEOREM ClosedConnectionsReleased == Spec => []ReleaseInv
<1>1. RInv => ReleaseInv
  <2> SUFFICES ASSUME RInv
               PROVE  ReleaseInv
    OBVIOUS
  <2>1. TypeOK
    BY KcpTypeFacts DEF RInv, ConnTypes, ReplyTypes, UdpTypes, IdTypes, TypeOK
  <2>2. ClosedIsReleased
    BY DEF RInv, IInv, ClosedIsEmpty, Registered, ClosedIsReleased, Joinable
  <2> QED
    BY <2>1, <2>2 DEF ReleaseInv
<1> QED
  BY <1>1, AlwaysRInv, PTL

-----------------------------------------------------------------------------
(* The camera's dialogue, step by step.                                     *)

\* A new camera has sent nothing.
LEMMA NewConnectionCameraInv ==
  ASSUME NEW c \in Conns, CameraInv, NewConnection(c), Dialogue = UdpCamera
  PROVE  /\ SetUpByThird' /\ UdpIsCurrent' /\ KcpByFourth'
         /\ KnownUntilFifth' /\ OnlyWildKcpFails'
<1> USE DEF CameraInv, RInv, connVars, kcpVars, sharedVars
<1>1. SetUpByThird'
  BY KcpTypeFacts DEF NewConnection, SetUpByThird, SetUp
<1>2. UdpIsCurrent'
  BY KcpTypeFacts DEF NewConnection, UdpIsCurrent
<1>3. KcpByFourth'
  <2>1. ASSUME NEW d \in Conns
        PROVE  KcpAt(d)'
    <3>1. /\ KcpAt(d) /\ (d = c => sent[d] = 0) /\ (d # c => phase'[d] = phase[d])
      BY KcpTypeFacts DEF NewConnection, KcpByFourth, SetUpByThird, SetUp
    <3>2. UNCHANGED <<sent, kpc, camKcp, closing>> /\ (d # c => pc'[d] = pc[d])
          /\ pc'[c] = "addCam"
      BY KcpTypeFacts DEF NewConnection
    <3>3. ~(0 = 4) /\ ~(0 >= 4)
      OBVIOUS
    <3>4. CASE d = c
      BY <3>1, <3>2, <3>3, <3>4 DEF KcpAt
    <3>5. CASE d # c
      BY <3>1, <3>2, <3>5 DEF KcpAt
    <3> QED
      BY <3>4, <3>5
  <2> QED
    BY <2>1 DEF KcpByFourth
<1>4. KnownUntilFifth'
  <2>1. PICK i \in NewIds(c) : id' = [id EXCEPT ![c] = i]
    BY DEF NewConnection
  <2>2. phase[c] = "new" /\ phase' = [phase EXCEPT ![c] = "open"]
    BY DEF NewConnection
  <2>3. id'[c] = i /\ id[c] = 0
    BY <2>1, <2>2 DEF IdTypes, IdsDrawn
  <2>4. ASSUME NEW d \in Conns, d # c, phase'[d] = "open", Alone(d)'
        PROVE  phase[d] = "open" /\ id'[d] = id[d] /\ Alone(d)
    <3>1. phase[d] = "open" /\ id'[d] = id[d] /\ id[d] # 0
      BY <2>1, <2>2, <2>4, KcpTypeFacts DEF IdsDrawn
    <3> QED
      BY <2>1, <2>3, <2>4, <3>1 DEF Alone
  <2>5. /\ pc'[c] = "addCam" /\ (\A d \in Conns : d # c => pc'[d] = pc[d])
        /\ UNCHANGED <<sent, cams>>
    BY KcpTypeFacts DEF NewConnection
  <2> QED
    BY <2>4, <2>5 DEF KnownUntilFifth
<1>5. OnlyWildKcpFails'
  BY DEF NewConnection, LoopFree, OnlyWildKcpFails
<1> QED
  BY <1>1, <1>2, <1>3, <1>4, <1>5

\* The monitor server knows it before it can send.
LEMMA AddCamCameraInv ==
  ASSUME NEW c \in Conns, CameraInv, AddCam(c), Dialogue = UdpCamera
  PROVE  /\ SetUpByThird' /\ UdpIsCurrent' /\ KcpByFourth'
         /\ KnownUntilFifth' /\ OnlyWildKcpFails'
<1> USE DEF CameraInv, RInv, connVars, kcpVars, sharedVars
<1>1. /\ pc[c] = "addCam" /\ pc'[c] = "idle" /\ sent[c] = 0
      /\ \A d \in Conns : d # c => pc'[d] = pc[d]
  BY KcpTypeFacts DEF AddCam, KcpByFourth, KcpAt
<1>2. UNCHANGED <<phase, sent, closing, kpc, camKcp, video, audio, state, id, udpConns,
                  callbacks, fault>> /\ fault = "none"
      /\ cams' = cams \cup {id[c]}
  BY DEF AddCam
<1>3. UdpIsCurrent'
  <2>1. \A u \in udpConns : u[1] \in Conns /\ (sent[u[1]] = 5 => u[1] # c)
    BY <1>1 DEF UdpTypes, UdpConns
  <2> QED
    BY <1>1, <1>2, <2>1 DEF UdpIsCurrent
<1>4. KcpByFourth'
  BY <1>1, <1>2 DEF KcpByFourth, KcpAt
<1>5. KnownUntilFifth'
  BY <1>1, <1>2 DEF KnownUntilFifth, Alone
<1>6. OnlyWildKcpFails'
  BY <1>2 DEF OnlyWildKcpFails
<1> QED
  BY <1>2, <1>3, <1>4, <1>5, <1>6, Frames

\* The first two requests change nothing but the count.
LEMMA HandleOtherCameraInv ==
  ASSUME NEW c \in Conns, NEW r, CameraInv, HandleOther(c, r), Dialogue = UdpCamera
  PROVE  /\ SetUpByThird' /\ UdpIsCurrent' /\ KcpByFourth'
         /\ KnownUntilFifth' /\ OnlyWildKcpFails'
<1> USE DEF CameraInv, RInv, connVars, kcpVars, sharedVars
<1>1. /\ sent[c] \in {0, 1} /\ sent'[c] \in {1, 2} /\ phase[c] = "open" /\ pc[c] = "idle"
      /\ \A d \in Conns : d # c => sent'[d] = sent[d]
  BY CameraRequest, CameraSends DEF HandleOther, ConnTypes
<1>2. UNCHANGED <<phase, pc, closing, state, video, audio, camKcp, kpc, id, cams, udpConns,
                  callbacks, fault>>
  BY DEF HandleOther
<1>3. SetUp(c) /\ KcpAt(c)
  BY DEF SetUpByThird, KcpByFourth
<1>4. SetUp(c)' /\ KcpAt(c)'
  BY <1>1, <1>2, <1>3 DEF SetUp, KcpAt
<1>5. \A d \in Conns : d # c => SetUp(d)' /\ KcpAt(d)'
  BY <1>1, <1>2, OtherConnection DEF SetUpByThird, KcpByFourth
<1>6. UdpIsCurrent'
  <2>1. \A u \in udpConns \cup callbacks : u[1] \in Conns /\ u[1] # c
    BY <1>1 DEF UdpIsCurrent, UdpTypes, UdpConns
  <2> QED
    BY <1>1, <1>2, <2>1 DEF UdpIsCurrent
<1>7. KnownUntilFifth'
  BY <1>1, <1>2 DEF KnownUntilFifth, Alone
<1> QED
  BY <1>2, <1>4, <1>5, <1>6, <1>7, Frames DEF SetUpByThird, KcpByFourth

\* SETUP: the camera's only UDP connection is made and watched.
LEMMA HandleSetupUdpCameraInv ==
  ASSUME NEW c \in Conns, NEW r, CameraInv, HandleSetupUdp(c, r), Dialogue = UdpCamera
  PROVE  /\ SetUpByThird' /\ UdpIsCurrent' /\ KcpByFourth'
         /\ KnownUntilFifth' /\ OnlyWildKcpFails'
<1> USE DEF CameraInv, RInv, connVars, kcpVars, sharedVars
<1>1. /\ sent[c] = 2 /\ sent'[c] = 3 /\ phase[c] = "open" /\ pc[c] = "idle"
      /\ r.track = "video" /\ \A d \in Conns : d # c => sent'[d] = sent[d]
  BY CameraRequest, CameraSends DEF HandleSetupUdp, ConnTypes
<1>2. /\ UNCHANGED <<phase, pc, closing, audio, camKcp, kpc, id, cams, callbacks, fault>>
      /\ video' = [video EXCEPT ![c] = <<c, 3>>] /\ udpConns' = udpConns \cup {<<c, 3>>}
      /\ state' = [state EXCEPT ![c] = "READY"]
  <2>1. sent[c] + 1 = 3
    BY <1>1
  <2> QED
    BY <1>1, <2>1 DEF HandleSetupUdp
<1>3. SetUp(c) /\ KcpAt(c)
  BY DEF SetUpByThird, KcpByFourth
<1>4. /\ video'[c] = <<c, 3>> /\ state'[c] = "READY"
      /\ \A d \in Conns : d # c => video'[d] = video[d] /\ state'[d] = state[d]
  BY <1>2 DEF UdpTypes, ConnTypes
<1>5. SetUp(c)' /\ KcpAt(c)'
  BY <1>1, <1>2, <1>3, <1>4 DEF SetUp, KcpAt
<1>6. \A d \in Conns : d # c => SetUp(d)' /\ KcpAt(d)'
  BY <1>1, <1>2, <1>4, OtherConnection DEF SetUpByThird, KcpByFourth
<1>7. UdpIsCurrent'
  <2>1. \A u \in udpConns \cup callbacks : u[1] \in Conns /\ u[1] # c
    BY <1>1 DEF UdpIsCurrent, UdpTypes, UdpConns
  <2> QED
    BY <1>1, <1>2, <1>4, <2>1 DEF UdpIsCurrent
<1>8. KnownUntilFifth'
  BY <1>1, <1>2 DEF KnownUntilFifth, Alone
<1>9. OnlyWildKcpFails'
  BY <1>1, <1>2 DEF OnlyWildKcpFails, HandleSetupUdp, Receive, LoopFree
<1> QED
  BY <1>5, <1>6, <1>7, <1>8, <1>9 DEF SetUpByThird, KcpByFourth

\* RECORD: the track is set up and no thread runs, so the KCP object gets its thread.
LEMMA HandleRecordCameraInv ==
  ASSUME NEW c \in Conns, NEW r, CameraInv, HandleRecord(c, r), Dialogue = UdpCamera
  PROVE  /\ SetUpByThird' /\ UdpIsCurrent' /\ KcpByFourth'
         /\ KnownUntilFifth' /\ OnlyWildKcpFails'
<1> USE DEF CameraInv, RInv, connVars, kcpVars, sharedVars
<1>1. /\ sent[c] = 3 /\ sent'[c] = 4 /\ phase[c] = "open" /\ pc[c] = "idle"
      /\ fault = "none" /\ r.kcpid = "number"
      /\ \A d \in Conns : d # c => sent'[d] = sent[d]
  <2>1. Receive(c, r) /\ r.method = "RECORD" /\ sent \in [Conns -> 0..Len(Dialogue)]
    BY DEF HandleRecord, ConnTypes
  <2> QED
    BY <2>1, CameraRequest, CameraSends
<1>2. SetUp(c) /\ KcpAt(c)
  BY DEF SetUpByThird, KcpByFourth
<1>3. kpc[c] = "none" /\ video[c] = <<c, 3>> /\ state[c] = "READY"
  BY <1>1, <1>2 DEF SetUp, KcpAt
<1>4. ~Joinable(c) /\ video[c] # NoUdp
  BY <1>3, PairIsUdp DEF Joinable
<1>5. /\ UNCHANGED <<phase, pc, closing, video, audio, id, cams, udpConns, fault>>
      /\ camKcp' = [camKcp EXCEPT ![c] = "live"] /\ kpc' = [kpc EXCEPT ![c] = "test"]
      /\ callbacks' = callbacks \cup {<<c, 3>>} /\ state' = [state EXCEPT ![c] = "PLAYING"]
  BY <1>1, <1>3, <1>4 DEF HandleRecord, StartKcpThread
<1>6. /\ camKcp'[c] = "live" /\ state'[c] = "PLAYING"
      /\ \A d \in Conns : d # c => /\ camKcp'[d] = camKcp[d] /\ kpc'[d] = kpc[d]
                                   /\ state'[d] = state[d]
  BY <1>5, KcpTypeFacts DEF ConnTypes
<1>7. SetUp(c)' /\ KcpAt(c)'
  BY <1>1, <1>2, <1>5, <1>6 DEF SetUp, KcpAt
<1>8. \A d \in Conns : d # c => SetUp(d)' /\ KcpAt(d)'
  BY <1>1, <1>5, <1>6, OtherConnection DEF SetUpByThird, KcpByFourth
<1>9. UdpIsCurrent'
  <2>1. \A u \in udpConns \cup callbacks : u[1] \in Conns
    BY DEF UdpTypes, UdpConns
  <2>2. \A d \in Conns : /\ sent[d] >= 3 => sent'[d] >= 3 /\ (sent'[d] = 5 => sent[d] = 5)
                         /\ sent[d] >= 4 => sent'[d] >= 4
    BY <1>1
  <2> QED
    BY <1>1, <1>5, <2>1, <2>2 DEF UdpIsCurrent
<1>10. KnownUntilFifth'
  BY <1>1, <1>5 DEF KnownUntilFifth, Alone
<1>11. OnlyWildKcpFails'
  BY <1>1, <1>5 DEF OnlyWildKcpFails
<1> QED
  BY <1>7, <1>8, <1>9, <1>10, <1>11 DEF SetUpByThird, KcpByFourth

\* TEARDOWN: the release of a camera that is recording begins.
LEMMA HandleTeardownCameraInv ==
  ASSUME NEW c \in Conns, NEW r, CameraInv, HandleTeardown(c, r), Dialogue = UdpCamera
  PROVE  /\ SetUpByThird' /\ UdpIsCurrent' /\ KcpByFourth'
         /\ KnownUntilFifth' /\ OnlyWildKcpFails'
<1> USE DEF CameraInv, RInv, connVars, kcpVars, sharedVars
<1>1. /\ sent[c] = 4 /\ sent'[c] = 5 /\ phase[c] = "open" /\ pc[c] = "idle"
      /\ fault = "none" /\ \A d \in Conns : d # c => sent'[d] = sent[d]
  BY CameraRequest, CameraSends DEF HandleTeardown, ConnTypes
<1>2. /\ UNCHANGED <<phase, state, video, audio, id, udpConns, callbacks, camKcp, kpc,
                     fault>>
      /\ pc' = [pc EXCEPT ![c] = "removeCam"] /\ closing' = [closing EXCEPT ![c] = FALSE]
      /\ cams' = cams
  BY DEF HandleTeardown, BeginRelease
<1>3. SetUp(c) /\ KcpAt(c)
  BY DEF SetUpByThird, KcpByFourth
<1>4. /\ pc'[c] = "removeCam"
      /\ \A d \in Conns : d # c => pc'[d] = pc[d] /\ closing'[d] = closing[d]
  BY <1>2, KcpTypeFacts DEF ConnTypes
<1>5. SetUp(c)' /\ KcpAt(c)'
  BY <1>1, <1>2, <1>3, <1>4 DEF SetUp, KcpAt
<1>6. \A d \in Conns : d # c => SetUp(d)' /\ KcpAt(d)'
  BY <1>1, <1>2, <1>4, OtherConnection DEF SetUpByThird, KcpByFourth
<1>7. UdpIsCurrent'
  <2>1. \A u \in udpConns \cup callbacks : u[1] \in Conns
    BY DEF UdpTypes, UdpConns
  <2> QED
    BY <1>1, <1>2, <1>4, <2>1 DEF UdpIsCurrent
<1>8. KnownUntilFifth'
  BY <1>1, <1>2, <1>4 DEF KnownUntilFifth, Alone
<1>9. OnlyWildKcpFails'
  BY <1>1, <1>2 DEF OnlyWildKcpFails
<1> QED
  BY <1>5, <1>6, <1>7, <1>8, <1>9 DEF SetUpByThird, KcpByFourth

\* The camera goes at any point of its dialogue.
LEMMA CloseCameraInv ==
  ASSUME NEW c \in Conns, CameraInv, Close(c), Dialogue = UdpCamera
  PROVE  /\ SetUpByThird' /\ UdpIsCurrent' /\ KcpByFourth'
         /\ KnownUntilFifth' /\ OnlyWildKcpFails'
<1> USE DEF CameraInv, RInv, connVars, kcpVars, sharedVars
<1>1. UdpIsCurrent'
  BY KcpTypeFacts DEF Close, BeginRelease, UdpIsCurrent
<1>2. KcpByFourth'
  BY KcpTypeFacts DEF Close, BeginRelease, KcpByFourth, KcpAt, ConnTypes
<1>3. KnownUntilFifth'
  BY KcpTypeFacts DEF Close, BeginRelease, KnownUntilFifth, Alone
<1>4. OnlyWildKcpFails'
  BY KcpTypeFacts DEF Close, LoopFree, OnlyWildKcpFails
<1> QED
  BY <1>1, <1>2, <1>3, <1>4, Frames DEF Close

\* removeCam, in a release that was begun by TEARDOWN or by the close.
LEMMA ReleaseRemovesCameraInv ==
  ASSUME NEW c \in Conns, CameraInv, ReleaseRemoves(c) \/ ReleaseSticks(c),
         Dialogue = UdpCamera
  PROVE  /\ SetUpByThird' /\ UdpIsCurrent' /\ KcpByFourth'
         /\ KnownUntilFifth' /\ OnlyWildKcpFails'
<1> USE DEF CameraInv, RInv, connVars, kcpVars, sharedVars
<1>1. /\ pc[c] = "removeCam" /\ pc'[c] \in {"join", "stuck"}
      /\ \A d \in Conns : d # c => pc'[d] = pc[d]
  BY KcpTypeFacts DEF ReleaseRemoves, ReleaseSticks
<1>2. UNCHANGED <<phase, sent, closing, kpc, camKcp, video, audio, state, id, udpConns,
                  callbacks, fault>> /\ fault = "none"
      /\ cams' = cams \ {id[c]}
  BY DEF ReleaseRemoves, ReleaseSticks, Removed
<1>3. UdpIsCurrent'
  <2>1. \A u \in udpConns : u[1] \in Conns
    BY DEF UdpTypes, UdpConns
  <2> QED
    BY <1>1, <1>2, <2>1 DEF UdpIsCurrent
<1>4. KcpByFourth'
  BY <1>1, <1>2 DEF KcpByFourth, KcpAt
<1>5. KnownUntilFifth'
  BY <1>1, <1>2 DEF KnownUntilFifth, Alone
<1>6. OnlyWildKcpFails'
  BY <1>2 DEF OnlyWildKcpFails
<1> QED
  BY <1>2, <1>3, <1>4, <1>5, <1>6, Frames

\* The join: the release goes on for the same connection.
LEMMA ReleaseJoinCameraInv ==
  ASSUME NEW c \in Conns, CameraInv, ReleaseJoin(c), Dialogue = UdpCamera
  PROVE  /\ SetUpByThird' /\ UdpIsCurrent' /\ KcpByFourth'
         /\ KnownUntilFifth' /\ OnlyWildKcpFails'
<1> USE DEF CameraInv, RInv, connVars, kcpVars, sharedVars
<1>1. UdpIsCurrent'
  BY KcpTypeFacts DEF ReleaseJoin, UdpIsCurrent
<1>2. KcpByFourth'
  BY KcpTypeFacts DEF ReleaseJoin, KcpByFourth, KcpAt
<1>3. KnownUntilFifth'
  BY KcpTypeFacts DEF ReleaseJoin, KnownUntilFifth, Alone
<1>4. OnlyWildKcpFails'
  BY KcpTypeFacts DEF ReleaseJoin, OnlyWildKcpFails
<1> QED
  BY <1>1, <1>2, <1>3, <1>4, Frames DEF ReleaseJoin

\* The one fault: a release before RECORD has set the pointer.
LEMMA ReleaseWildKcpCameraInv ==
  ASSUME NEW c \in Conns, CameraInv, ReleaseWildKcp(c), Dialogue = UdpCamera
  PROVE  /\ SetUpByThird' /\ UdpIsCurrent' /\ KcpByFourth'
         /\ KnownUntilFifth' /\ OnlyWildKcpFails'
<1> USE DEF CameraInv, RInv, connVars, kcpVars, sharedVars
<1>1. OnlyWildKcpFails'
  <2>1. KcpAt(c) /\ SetUp(c)
    BY DEF KcpByFourth, SetUpByThird
  <2>2. sent[c] \in Nat
    BY DialogueLength DEF ConnTypes
  <2>3. state[c] # "PLAYING"
    BY <2>1, <2>2 DEF ReleaseWildKcp, KcpAt, SetUp
  <2> QED
    BY <2>3 DEF ReleaseWildKcp, OnlyWildKcpFails
<1> QED
  BY <1>1, Frames DEF ReleaseWildKcp

\* The end of a release takes the UDP connection from the loop.
LEMMA ReleaseFreeCameraInv ==
  ASSUME NEW c \in Conns, CameraInv, ReleaseFree(c), Dialogue = UdpCamera
  PROVE  /\ SetUpByThird' /\ UdpIsCurrent' /\ KcpByFourth'
         /\ KnownUntilFifth' /\ OnlyWildKcpFails'
<1> USE DEF CameraInv, RInv, connVars, kcpVars, sharedVars
<1>1. SetUpByThird'
  BY KcpTypeFacts DEF ReleaseFree, SetUpByThird, SetUp
<1>2. UdpIsCurrent'
  BY KcpTypeFacts DEF ReleaseFree, Respond, Unregister, UdpIsCurrent, UdpTypes, UdpConns
<1>3. KcpByFourth'
  BY KcpTypeFacts DEF ReleaseFree, KcpByFourth, KcpAt
<1>4. KnownUntilFifth'
  <2>1. /\ \/ phase' = [phase EXCEPT ![c] = "closed"]
           \/ ~closing[c] /\ phase' = phase
        /\ pc[c] = "free" /\ pc' = [pc EXCEPT ![c] = "idle"]
        /\ UNCHANGED <<id, sent, cams>>
    BY DEF ReleaseFree
  <2>2. KcpAt(c)
    BY DEF KcpByFourth
  <2>3. ~(phase'[c] = "open" /\ sent[c] < 5)
    BY <2>1, <2>2, KcpTypeFacts DEF KcpAt
  <2>4. \A d \in Conns : d # c => phase'[d] = phase[d] /\ pc'[d] = pc[d]
    BY <2>1, KcpTypeFacts
  <2> QED
    BY <2>1, <2>3, <2>4 DEF KnownUntilFifth, Alone
<1>5. OnlyWildKcpFails'
  BY KcpTypeFacts DEF ReleaseFree, OnlyWildKcpFails
<1> QED
  BY <1>1, <1>2, <1>3, <1>4, <1>5, Frames DEF ReleaseFree

\* The update thread reads its flag.
LEMMA KcpTestCameraInv ==
  ASSUME NEW c \in Conns, CameraInv, KcpTest(c), Dialogue = UdpCamera
  PROVE  /\ SetUpByThird' /\ UdpIsCurrent' /\ KcpByFourth'
         /\ KnownUntilFifth' /\ OnlyWildKcpFails'
<1> USE DEF CameraInv, RInv, connVars, kcpVars, sharedVars
<1>1. KcpByFourth'
  BY KcpTypeFacts DEF KcpTest, KcpByFourth, KcpAt
<1> QED
  BY <1>1, Frames DEF KcpTest

\* A thread exists only after RECORD, so its object is not wild.
LEMMA KcpLockCameraInv ==
  ASSUME NEW c \in Conns, CameraInv, KcpLock(c), Dialogue = UdpCamera
  PROVE  /\ SetUpByThird' /\ UdpIsCurrent' /\ KcpByFourth'
         /\ KnownUntilFifth' /\ OnlyWildKcpFails'
<1> USE DEF CameraInv, RInv, connVars, kcpVars, sharedVars
<1>1. KcpByFourth'
  BY KcpTypeFacts DEF KcpLock, KcpByFourth, KcpAt
<1>2. OnlyWildKcpFails'
  <2>1. KcpAt(c) /\ sent[c] \in Nat
    BY DialogueLength DEF KcpByFourth, ConnTypes
  <2>2. camKcp[c] # "wild"
    <3>1. ~(sent[c] < 4)
      BY <2>1 DEF KcpLock, KcpAt
    <3>2. sent[c] >= 4
      BY <2>1, <3>1
    <3> QED
      BY <2>1, <3>2 DEF KcpAt
  <2> QED
    BY <2>2 DEF KcpLock, OnlyWildKcpFails
<1> QED
  BY <1>1, <1>2, Frames DEF KcpLock

\* The update thread is done with the object.
LEMMA KcpUpdateCameraInv ==
  ASSUME NEW c \in Conns, CameraInv, KcpUpdate(c), Dialogue = UdpCamera
  PROVE  /\ SetUpByThird' /\ UdpIsCurrent' /\ KcpByFourth'
         /\ KnownUntilFifth' /\ OnlyWildKcpFails'
<1> USE DEF CameraInv, RInv, connVars, kcpVars, sharedVars
<1>1. KcpByFourth'
  BY KcpTypeFacts DEF KcpUpdate, KcpByFourth, KcpAt
<1> QED
  BY <1>1, Frames DEF KcpUpdate

\* A datagram is relayed only between RECORD and TEARDOWN.
LEMMA UdpMessageCameraInv ==
  ASSUME NEW u \in UdpConns, CameraInv, UdpMessage(u), Dialogue = UdpCamera
  PROVE  /\ SetUpByThird' /\ UdpIsCurrent' /\ KcpByFourth'
         /\ KnownUntilFifth' /\ OnlyWildKcpFails'
<1> USE DEF CameraInv, RInv, connVars, kcpVars, sharedVars
<1>1. OnlyWildKcpFails'
  <2>1. /\ u[1] \in Conns /\ pc[u[1]] = "idle" /\ phase[u[1]] = "open"
        /\ sent[u[1]] >= 4 /\ sent[u[1]] # 5
    BY DEF UdpMessage, LoopFree, UdpIsCurrent, UdpConns
  <2>2. sent[u[1]] = 4
    <3>1. sent[u[1]] \in 0..5
      BY <2>1 DEF ConnTypes, UdpCamera
    <3> QED
      BY <2>1, <3>1
  <2>3. camKcp[u[1]] = "live"
    BY <2>1, <2>2 DEF KcpByFourth, KcpAt
  <2>4. fault' = "none"
    BY <2>1, <2>3 DEF UdpMessage, InputOutcome
  <2> QED
    BY <2>4 DEF OnlyWildKcpFails
<1> QED
  BY <1>1, Frames DEF UdpMessage

\* A request of the camera is one of four.
LEMMA CameraHandlers ==
  ASSUME NEW c \in Conns, CameraInv, HandleRequest(c), Dialogue = UdpCamera
  PROVE  \E r : \/ HandleOther(c, r) \/ HandleSetupUdp(c, r)
                \/ HandleRecord(c, r) \/ HandleTeardown(c, r)
<1>1. PICK r : \/ HandleOther(c, r)
               \/ HandleSetupRefused(c, r) \/ HandleSetupUdp(c, r) \/ HandleSetupTcp(c, r)
               \/ HandleWrongSession(c, r) \/ HandleRecordThrows(c, r)
               \/ HandleRecord(c, r) \/ HandleTeardown(c, r)
  BY DEF HandleRequest
<1>2. sent \in [Conns -> 0..Len(Dialogue)]
  BY DEF CameraInv, RInv, ConnTypes
<1>3. ~(HandleSetupRefused(c, r) \/ HandleSetupTcp(c, r))
  BY <1>2, CameraRequest, CameraSends DEF HandleSetupRefused, HandleSetupTcp
<1>4. ~(HandleWrongSession(c, r) \/ HandleRecordThrows(c, r))
  BY <1>2, CameraRequest, CameraSends DEF HandleWrongSession, HandleRecordThrows
<1> QED
  BY <1>1, <1>3, <1>4

\* Every step, in the camera's dialogue.
LEMMA NextCameraInv ==
  ASSUME CameraInv, [Next]_vars, Dialogue = UdpCamera
  PROVE  CameraInv'
<1> DEFINE Rest == /\ SetUpByThird /\ UdpIsCurrent /\ KcpByFourth
                   /\ KnownUntilFifth /\ OnlyWildKcpFails
<1>1. RInv'
  BY NextRInv DEF CameraInv
<1>2. ASSUME NEW c \in Conns, HandleRequest(c)
      PROVE  Rest'
  BY <1>2, CameraHandlers, HandleOtherCameraInv, HandleSetupUdpCameraInv,
     HandleRecordCameraInv, HandleTeardownCameraInv
<1>3. ASSUME NEW c \in Conns, NewConnection(c) \/ AddCam(c) \/ Close(c)
      PROVE  Rest'
  BY <1>3, NewConnectionCameraInv, AddCamCameraInv, CloseCameraInv
<1>4. ASSUME NEW c \in Conns, ReleaseSession(c) \/ ReleaseSticks(c) \/ KcpThread(c)
      PROVE  Rest'
  BY <1>4, ReleaseRemovesCameraInv, ReleaseJoinCameraInv, ReleaseWildKcpCameraInv,
     ReleaseFreeCameraInv,
     KcpTestCameraInv, KcpLockCameraInv, KcpUpdateCameraInv
     DEF ReleaseSession, KcpThread
<1>5. ASSUME NEW u \in UdpConns, UdpMessage(u)
      PROVE  Rest'
  BY <1>5, UdpMessageCameraInv
<1>6. CASE UNCHANGED vars
  <2>1. UNCHANGED <<phase, pc, closing, sent, state, transport, id, video, audio, reply>>
    BY <1>6 DEF vars, connVars
  <2>2. UNCHANGED <<camKcp, kcpRunning, kpc, counter, sessions, cams, udpConns, callbacks>>
    BY <1>6 DEF vars, kcpVars, sharedVars
  <2>3. UNCHANGED fault
    BY <1>6 DEF vars
  <2> QED
    BY <1>1, <2>1, <2>2, <2>3, Frames DEF CameraInv
<1> QED
  BY <1>1, <1>2, <1>3, <1>4, <1>5, <1>6 DEF Next, CameraInv

\* The initial states.
LEMMA InitCameraInv == Init => CameraInv
<1> SUFFICES ASSUME Init
             PROVE  CameraInv
  OBVIOUS
<1>1. RInv
  BY InitRInv
<1>2. SetUpByThird /\ KcpByFourth
  BY DEF Init, SetUpByThird, SetUp, KcpByFourth, KcpAt
<1>3. UdpIsCurrent /\ KnownUntilFifth /\ OnlyWildKcpFails
  BY DEF Init, UdpIsCurrent, KnownUntilFifth, OnlyWildKcpFails
<1> QED
  BY <1>1, <1>2, <1>3 DEF CameraInv

\* What the camera's dialogue makes true of the server.
LEMMA AlwaysCameraInv ==
  ASSUME Dialogue = UdpCamera
  PROVE  Spec => []CameraInv
<1>1. Init => CameraInv
  BY InitCameraInv
<1>2. CameraInv /\ [Next]_vars => CameraInv'
  BY NextCameraInv
<1> QED
  BY <1>1, <1>2, PTL DEF Spec

\* For any number of cameras that follow their dialogue and any assignment to loops: the
\* server ends in one way only, the release of a session that never got its KCP object.
THEOREM CameraFailsOnWildKcpOnly ==
  ASSUME Dialogue = UdpCamera
  PROVE  Spec => []OnlyWildKcpFails
<1>1. CameraInv => OnlyWildKcpFails
  BY DEF CameraInv
<1> QED
  BY <1>1, AlwaysCameraInv, PTL

\* No UDP connection of a camera that is gone stays in the loop's table.
THEOREM CameraLeavesNoUdp ==
  ASSUME Dialogue = UdpCamera
  PROVE  Spec => []NoUdpLeft
<1>1. CameraInv => NoUdpLeft
  BY DEF CameraInv, UdpIsCurrent, NoUdpLeft
<1> QED
  BY <1>1, AlwaysCameraInv, PTL

\* For a camera with an id of its own: what the monitor server offers has a session at
\* every moment, also between addSession and addCam and within the release; the two agree
\* outside of both; and a datagram that can reach the relay is that of a camera the monitor
\* server knows.
THEOREM CameraRegistriesAgree ==
  ASSUME Dialogue = UdpCamera
  PROVE  Spec => []RegistryInv
<1>1. CameraInv => RegistryInv
  <2> SUFFICES ASSUME CameraInv
               PROVE  RegistryInv
    OBVIOUS
  <2>1. RegistriesAgree
    <3>1. ASSUME NEW c \in Conns, phase[c] = "new"
          PROVE  id[c] \notin sessions \cup cams
      <4>1. id[c] = 0 /\ counter \in Nat /\ \A i \in sessions \cup cams : i \in 1..counter
        BY <3>1 DEF CameraInv, RInv, IdsDrawn, IdTypes, Ids
      <4> QED
        BY <4>1
    <3>2. ASSUME NEW c \in Conns, phase[c] # "new", Alone(c)
          PROVE  /\ id[c] \in cams => id[c] \in sessions
                 /\ pc[c] = "idle" => (id[c] \in sessions <=> id[c] \in cams)
      BY <3>2, KcpTypeFacts DEF CameraInv, RInv, Registered
    <3> QED
      BY <3>1, <3>2 DEF RegistriesAgree
  <2>2. ASSUME NEW u \in udpConns \cap callbacks, LoopFree(u[1]), Alone(u[1])
        PROVE  id[u[1]] \in cams
    <3>1. /\ u[1] \in Conns /\ pc[u[1]] = "idle" /\ phase[u[1]] = "open"
          /\ sent[u[1]] # 5 /\ sent[u[1]] \in 0..5
      BY <2>2
         DEF CameraInv, RInv, UdpTypes, UdpConns, UdpIsCurrent, LoopFree, ConnTypes,
             UdpCamera
    <3>2. sent[u[1]] < 5
      BY <3>1
    <3> QED
      BY <2>2, <3>1, <3>2 DEF CameraInv, KnownUntilFifth
  <2> QED
    BY <2>1, <2>2 DEF RegistryInv, RelayedIsKnown
<1> QED
  BY <1>1, AlwaysCameraInv, PTL
=============================================================================
