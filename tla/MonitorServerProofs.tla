------------------------ MODULE MonitorServerProofs ------------------------
(***************************************************************************)
(* Proofs about MonitorServer, for any finite sets of viewers and cameras:  *)
(* no update thread outlives its session, a viewer that was forgotten has   *)
(* left nothing behind, the joins of a close cannot deadlock, and a         *)
(* viewer's conversations tell its sessions apart.                          *)
(***************************************************************************)
EXTENDS MonitorServer, Integers, Sequences, SequenceTheorems, FiniteSetTheorems, TLAPS

-----------------------------------------------------------------------------
(* What is in a queue.                                                      *)

\* The items of a queue.
Items(s) == {s[i] : i \in 1..Len(s)}

\* Appending adds one item.
LEMMA ItemsAppend ==
  ASSUME NEW S, NEW s \in Seq(S), NEW e \in S
  PROVE  Append(s, e) \in Seq(S) /\ Items(Append(s, e)) = Items(s) \cup {e}
<1>1. /\ Append(s, e) \in Seq(S) /\ Len(Append(s, e)) = Len(s) + 1 /\ Len(s) \in Nat
      /\ \A i \in 1..Len(s) : Append(s, e)[i] = s[i]
      /\ Append(s, e)[Len(s) + 1] = e
  BY AppendProperties, LenProperties
<1> QED  BY <1>1 DEF Items

\* A concatenation has the items of its parts.
LEMMA ItemsConcat ==
  ASSUME NEW S, NEW s \in Seq(S), NEW t \in Seq(S)
  PROVE  s \o t \in Seq(S) /\ Items(s \o t) \subseteq Items(s) \cup Items(t)
<1>1. /\ s \o t \in Seq(S) /\ Len(s \o t) = Len(s) + Len(t)
      /\ Len(s) \in Nat /\ Len(t) \in Nat
      /\ \A i \in 1..Len(s) + Len(t) :
           (s \o t)[i] = IF i <= Len(s) THEN s[i] ELSE t[i - Len(s)]
  BY ConcatProperties, LenProperties
<1>2. ASSUME NEW i \in 1..Len(s \o t)
      PROVE  (s \o t)[i] \in Items(s) \cup Items(t)
  <2>1. CASE i <= Len(s)
    BY <1>1, <2>1 DEF Items
  <2>2. CASE i > Len(s)
    <3>1. i - Len(s) \in 1..Len(t) /\ (s \o t)[i] = t[i - Len(s)]
      BY <1>1, <2>2
    <3> QED  BY <3>1 DEF Items
  <2> QED  BY <1>1, <2>1, <2>2
<1> QED  BY <1>1, <1>2 DEF Items

\* The first item of a queue, and the others.
LEMMA ItemsHeadTail ==
  ASSUME NEW S, NEW s \in Seq(S), s # <<>>
  PROVE  /\ Head(s) \in S /\ Head(s) \in Items(s)
         /\ Tail(s) \in Seq(S) /\ Items(Tail(s)) \subseteq Items(s)
<1>1. /\ Head(s) \in S /\ Tail(s) \in Seq(S) /\ Len(Tail(s)) = Len(s) - 1
      /\ Len(s) \in Nat \ {0} /\ Head(s) = s[1]
      /\ \A i \in 1..Len(Tail(s)) : Tail(s)[i] = s[i + 1]
  BY HeadTailProperties, EmptySeq
<1> QED  BY <1>1 DEF Items

\* A part of a queue.
LEMMA ItemsSubSeq ==
  ASSUME NEW S, NEW s \in Seq(S), NEW m \in Nat \ {0}, NEW n \in 0..Len(s)
  PROVE  /\ SubSeq(s, m, n) \in Seq(S)
         /\ Items(SubSeq(s, m, n)) \subseteq Items(s)
         /\ m <= n => SubSeq(s, m, n) # <<>>
<1>0. Len(s) \in Nat /\ s \in [1..Len(s) -> S]
  BY LenProperties
<1>1. \A i \in m..n : s[i] \in S /\ s[i] \in Items(s)
  BY <1>0 DEF Items
<1>2. /\ SubSeq(s, m, n) \in Seq(S)
      /\ Len(SubSeq(s, m, n)) = IF m <= n THEN n - m + 1 ELSE 0
      /\ \A i \in 1..n - m + 1 : SubSeq(s, m, n)[i] = s[m + i - 1]
  BY <1>0, <1>1, SubSeqProperties
<1>3. ASSUME NEW i \in 1..Len(SubSeq(s, m, n))
      PROVE  SubSeq(s, m, n)[i] \in Items(s)
  <2>1. m <= n /\ m + i - 1 \in m..n /\ i \in 1..n - m + 1
    BY <1>0, <1>2
  <2> QED  BY <1>1, <1>2, <2>1
<1>4. Items(SubSeq(s, m, n)) \subseteq Items(s)
  BY <1>3 DEF Items
<1>5. ASSUME m <= n
      PROVE  SubSeq(s, m, n) # <<>>
  <2>1. Len(SubSeq(s, m, n)) # 0
    BY <1>0, <1>2, <1>5
  <2> QED  BY <2>1, EmptySeq
<1> QED  BY <1>2, <1>4, <1>5

\* The empty queue has no items.
LEMMA ItemsEmpty == Items(<<>>) = {}
<1>1. Len(<<>>) = 0
  BY EmptySeq
<1> QED  BY <1>1 DEF Items

\* A queue of one element has it as its item and head.
LEMMA ItemsOfOne ==
  ASSUME NEW e
  PROVE  Items(<<e>>) = {e} /\ Head(<<e>>) = e
BY DEF Items

\* A queue behind which something is put is not empty.
LEMMA ConcatNotEmpty ==
  ASSUME NEW S, NEW s \in Seq(S), NEW t \in Seq(S), t # <<>>
  PROVE  s \o t # <<>>
<1>1. Len(s \o t) = Len(s) + Len(t) /\ Len(s) \in Nat /\ Len(t) \in Nat \ {0}
  BY ConcatProperties, LenProperties, EmptySeq
<1>2. Len(s \o t) # 0
  BY <1>1
<1> QED  BY <1>2, EmptySeq

-----------------------------------------------------------------------------
(* The types, by the owner of the variables.                                *)

LockTypes ==
  /\ mtx \in {None, "accept", "cam"} /\ clients \subseteq Viewers /\ cams \subseteq Cams

SessionTypes ==
  /\ live \subseteq Pairs
  /\ conv \in [Pairs -> Convs]
  /\ kcp \in [Pairs -> {None, "idle", "data"}]
  /\ running \in [Pairs -> BOOLEAN]
  /\ kmtx \in [Pairs -> {None, "cam"}]
  /\ kpc \in [Pairs -> {None, "test", "lock", "ended"}]

AcceptTypes ==
  /\ apc \in {"idle", "request", "message", "start", "close", "join", "input"}
  /\ batch \subseteq Viewers \cup {"listen", "udp"}
  /\ current \in Viewers \cup {None}
  /\ target \in Pairs \cup {<<>>}

RequestTypes ==
  /\ request \in Seq(Requests) /\ Len(request) <= 1
  /\ buffer \in [Viewers -> Seq(Requests)]
  /\ toServer \in [Viewers -> Seq(Requests)]

CamTypes ==
  /\ cpc \in [Cams -> {"new", "idle", "send", "sending", "remove", "join", "gone"}]
  /\ naluTo \in [Cams -> Viewers \cup {None}]

EventTypes ==
  /\ ready \subseteq Viewers \cup {"listen", "udp"}
  /\ backlog \subseteq Viewers
  /\ answered \subseteq Convs

ViewerTypes ==
  /\ toViewer \in [Viewers -> Seq(Messages)]
  /\ vpc \in [Viewers -> {"off", "on", "left", "reset"}]
  /\ camMap \in [Viewers -> SUBSET (Cams \X Convs)]
  /\ lastConv \in [Viewers -> Convs]
  /\ vbuffer \in [Viewers -> Seq(Messages)]
  /\ cut \in [Viewers -> BOOLEAN]

Types == /\ LockTypes /\ SessionTypes /\ AcceptTypes /\ RequestTypes /\ CamTypes
         /\ EventTypes /\ ViewerTypes /\ fault \in Faults

-----------------------------------------------------------------------------
(* The locks, and who holds them.                                           *)

\* _mtx is held by the accept thread throughout a close and while it makes sessions,
\* and by one camera's thread throughout removeCam.
MtxHolder ==
  /\ mtx = "accept" <=> apc \in {"message", "start", "close", "join"}
  /\ \A c \in Cams : cpc[c] \in {"remove", "join"} => mtx = "cam"
  /\ \A c, d \in Cams : cpc[c] \in {"remove", "join"} /\ cpc[d] \in {"remove", "join"}
                          => c = d

\* A session's mutex is held across steps only by its camera's thread.
KmtxHolder ==
  \A s \in Pairs :
    kmtx[s] = "cam" => /\ cpc[s[2]] \in {"sending", "join"}
                       /\ naluTo[s[2]] = s[1]

\* A camera's thread that has found a viewer is at one of the viewers.
NaluTarget ==
  \A c \in Cams : cpc[c] \in {"send", "sending", "join"} => naluTo[c] \in Viewers

-----------------------------------------------------------------------------
(* The descriptors, the clients and their sessions.                         *)

\* A viewer connects once: it waits in the backlog, then it is a client.
ConnectsOnce ==
  \A v \in Viewers : /\ v \in backlog \cup clients => vpc[v] # "off"
                     /\ v \in backlog => v \notin clients

\* epoll reports clients only, and a client with an event and nothing to read has
\* left, with no further event to come.
EventsOfClients ==
  \A v \in Viewers :
    /\ v \in ready \cup batch => v \in clients
    /\ v \in batch => toServer[v] # <<>> \/ (Gone(v) /\ v \notin ready)

\* The accept thread works for a client; what it closes has left for good, and
\* what it starts or joins is a session.
AcceptsClient ==
  /\ apc \in {"request", "message", "start", "close", "join"} => current \in clients
  /\ apc \in {"request", "message", "start"} <=> request # <<>>
  /\ apc \in {"close", "join"} => Gone(current) /\ current \notin ready
  /\ apc \in {"start", "join"} => target \in live

\* Sessions belong to clients, their threads to sessions, and a thread is there as
\* long as its KCP object.
SessionOwner ==
  \A s \in Pairs : /\ s \in live => s[1] \in clients
                   /\ kpc[s] # None => s \in live
                   /\ kcp[s] = None <=> kpc[s] = None

-----------------------------------------------------------------------------
(* The conversations.                                                       *)

\* A camera and a conversation that viewer v has drawn and that is still somewhere:
\* in the viewer, on its way to the server, or in a session.
Known(v, p) ==
  \/ p \in camMap[v]
  \/ \E r \in Items(buffer[v]) \cup Items(toServer[v]) : p \in r.convs
  \/ current = v /\ request # <<>> /\ p \in Head(request).convs
  \/ <<v, p[1]>> \in live /\ conv[<<v, p[1]>>] = p[2]

\* A viewer has drawn every conversation for one camera.
ConvsTellCams ==
  \A v \in Viewers : \A p, q \in Cams \X Convs :
    /\ Known(v, p) => p[2] <= lastConv[v]
    /\ Known(v, p) /\ Known(v, q) /\ p[2] = q[2] => p[1] = q[1]

\* ADDCAM names one camera.
AddsOne(m) == m.type = "ADDCAM" => \E c \in Cams : m.cams = {c}
AddCamNamesOne ==
  \A v \in Viewers : \A m \in Items(toViewer[v]) \cup Items(vbuffer[v]) : AddsOne(m)

IInv == /\ Types /\ MtxHolder /\ KmtxHolder /\ NaluTarget /\ ConnectsOnce /\ EventsOfClients
        /\ AcceptsClient /\ SessionOwner /\ ConvsTellCams /\ AddCamNamesOne

-----------------------------------------------------------------------------
(* Steps that leave the variables of a part alone leave the part alone.      *)

\* One conjunct for each part of the invariant.
LEMMA Frames ==
  /\ LockTypes /\ UNCHANGED <<mtx, clients, cams>> => LockTypes'
  /\ SessionTypes /\ UNCHANGED <<live, conv, kcp, running, kmtx, kpc>> => SessionTypes'
  /\ AcceptTypes /\ UNCHANGED <<apc, batch, current, target>> => AcceptTypes'
  /\ RequestTypes /\ UNCHANGED <<request, buffer, toServer>> => RequestTypes'
  /\ CamTypes /\ UNCHANGED <<cpc, naluTo>> => CamTypes'
  /\ EventTypes /\ UNCHANGED <<ready, backlog, answered>> => EventTypes'
  /\ ViewerTypes /\ UNCHANGED <<toViewer, vpc, camMap, lastConv, vbuffer, cut>>
         => ViewerTypes'
  /\ MtxHolder /\ UNCHANGED <<mtx, apc, cpc>> => MtxHolder'
  /\ KmtxHolder /\ UNCHANGED <<kmtx, cpc, naluTo>> => KmtxHolder'
  /\ NaluTarget /\ UNCHANGED <<cpc, naluTo>> => NaluTarget'
  /\ ConnectsOnce /\ UNCHANGED <<backlog, clients, vpc>> => ConnectsOnce'
  /\ EventsOfClients /\ UNCHANGED <<ready, batch, clients, toServer, vpc>>
         => EventsOfClients'
  /\ AcceptsClient /\ UNCHANGED <<apc, current, clients, request, vpc, ready, target, live>>
         => AcceptsClient'
  /\ SessionOwner /\ UNCHANGED <<live, clients, kpc, kcp>> => SessionOwner'
  /\ ConvsTellCams
         /\ UNCHANGED <<camMap, toServer, buffer, current, request, live, conv, lastConv>>
         => ConvsTellCams'
  /\ AddCamNamesOne /\ UNCHANGED <<toViewer, vbuffer>> => AddCamNamesOne'
<1>1. LockTypes /\ UNCHANGED <<mtx, clients, cams>> => LockTypes'
  BY DEF LockTypes
<1>2. SessionTypes /\ UNCHANGED <<live, conv, kcp, running, kmtx, kpc>> => SessionTypes'
  BY DEF SessionTypes
<1>3. AcceptTypes /\ UNCHANGED <<apc, batch, current, target>> => AcceptTypes'
  BY DEF AcceptTypes
<1>4. RequestTypes /\ UNCHANGED <<request, buffer, toServer>> => RequestTypes'
  BY DEF RequestTypes
<1>5. CamTypes /\ UNCHANGED <<cpc, naluTo>> => CamTypes'
  BY DEF CamTypes
<1>6. EventTypes /\ UNCHANGED <<ready, backlog, answered>> => EventTypes'
  BY DEF EventTypes
<1>7. ViewerTypes /\ UNCHANGED <<toViewer, vpc, camMap, lastConv, vbuffer, cut>>
         => ViewerTypes'
  BY DEF ViewerTypes
<1>8. MtxHolder /\ UNCHANGED <<mtx, apc, cpc>> => MtxHolder'
  BY DEF MtxHolder
<1>9. KmtxHolder /\ UNCHANGED <<kmtx, cpc, naluTo>> => KmtxHolder'
  BY DEF KmtxHolder
<1>10. NaluTarget /\ UNCHANGED <<cpc, naluTo>> => NaluTarget'
  BY DEF NaluTarget
<1>11. ConnectsOnce /\ UNCHANGED <<backlog, clients, vpc>> => ConnectsOnce'
  BY DEF ConnectsOnce
<1>12. EventsOfClients /\ UNCHANGED <<ready, batch, clients, toServer, vpc>>
          => EventsOfClients'
  BY DEF EventsOfClients, Gone
<1>13. AcceptsClient /\ UNCHANGED <<apc, current, clients, request, vpc, ready, target, live>>
         => AcceptsClient'
  BY DEF AcceptsClient, Gone
<1>14. SessionOwner /\ UNCHANGED <<live, clients, kpc, kcp>> => SessionOwner'
  BY DEF SessionOwner
<1>15. ConvsTellCams
         /\ UNCHANGED <<camMap, toServer, buffer, current, request, live, conv, lastConv>>
         => ConvsTellCams'
  BY DEF ConvsTellCams, Known
<1>16. AddCamNamesOne /\ UNCHANGED <<toViewer, vbuffer>> => AddCamNamesOne'
  BY DEF AddCamNamesOne
<1> QED
  BY <1>1, <1>2, <1>3, <1>4, <1>5, <1>6, <1>7, <1>8, <1>9, <1>10, <1>11, <1>12, <1>13,
     <1>14, <1>15, <1>16

\* Nothing is drawn: the conversations that are known stay known, or are forgotten.
LEMMA KnownShrinks ==
  ASSUME ConvsTellCams, UNCHANGED lastConv,
         \A v \in Viewers : \A p \in Cams \X Convs : Known(v, p)' => Known(v, p)
  PROVE  ConvsTellCams'
BY DEF ConvsTellCams

\* A message that is told has its type, and an ADDCAM names one camera.
LEMMA TellFacts ==
  ASSUME NEW vs, NEW m \in Messages, AddsOne(m), ViewerTypes, AddCamNamesOne, Tell(vs, m)
  PROVE  /\ fault' \in Faults
         /\ toViewer' \in [Viewers -> Seq(Messages)]
         /\ \A v \in Viewers : \A i \in Items(toViewer'[v]) : AddsOne(i)
<1>1. ASSUME NEW v \in Viewers
      PROVE  /\ toViewer'[v] \in Seq(Messages)
             /\ \A i \in Items(toViewer'[v]) : AddsOne(i)
  <2>1. toViewer[v] \in Seq(Messages) /\ \A i \in Items(toViewer[v]) : AddsOne(i)
    BY DEF ViewerTypes, AddCamNamesOne
  <2>2. toViewer'[v] \in {toViewer[v], Append(toViewer[v], m)}
    BY DEF Tell
  <2>3. /\ Append(toViewer[v], m) \in Seq(Messages)
        /\ Items(Append(toViewer[v], m)) = Items(toViewer[v]) \cup {m}
    BY <2>1, ItemsAppend
  <2>4. CASE toViewer'[v] = toViewer[v]
    BY <2>1, <2>4
  <2>5. CASE toViewer'[v] = Append(toViewer[v], m)
    BY <2>1, <2>3, <2>5
  <2> QED
    BY <2>2, <2>4, <2>5
<1>2. toViewer' = [v \in Viewers |-> toViewer'[v]]
  BY DEF Tell
<1>3. fault' \in Faults
  BY DEF Tell, Faults
<1> QED
  BY <1>1, <1>2, <1>3

\* The request being handled names pairs of cameras and conversations.
LEMMA RequestFacts ==
  ASSUME IInv, apc \in {"request", "message", "start"}
  PROVE  /\ current \in Viewers /\ request # <<>> /\ Head(request) \in Requests
         /\ Head(request).convs \in SUBSET (Cams \X Convs)
<1>1. current \in Viewers /\ request # <<>> /\ request \in Seq(Requests)
  BY DEF IInv, AcceptsClient, Types, LockTypes, RequestTypes
<1>2. Head(request) \in Requests
  BY <1>1, HeadTailProperties
<1> QED
  BY <1>1, <1>2 DEF Requests

\* What epoll_wait returns has something to read or has left, and its edge is used up.
LEMMA EpollWaitIInv ==
  ASSUME IInv, EpollWait
  PROVE  IInv'
<1> USE DescriptorsDiffer
    DEF IInv, Types, None, Pairs, lockVars, sessionVars, acceptVars, camVars, netVars,
        viewerVars
<1>1. AcceptTypes'
  BY DEF EpollWait, AcceptTypes, EventTypes
<1>2. EventTypes'
  BY DEF EpollWait, EventTypes
<1>3. EventsOfClients'
  BY DEF EpollWait, Readable, Gone, EventsOfClients
<1>4. AcceptsClient'
  BY DEF EpollWait, AcceptsClient
<1>5. fault' = fault
  BY DEF EpollWait
<1> QED
  BY <1>1, <1>2, <1>3, <1>4, <1>5, Frames DEF EpollWait

\* A viewer moves from the backlog to the clients.
LEMMA AcceptIInv ==
  ASSUME NEW v \in Viewers, IInv, Accept(v)
  PROVE  IInv'
<1> USE DescriptorsDiffer
    DEF IInv, Types, None, Pairs, lockVars, sessionVars, acceptVars, camVars, netVars,
        viewerVars
<1>1. LockTypes'
  BY DEF Accept, LockTypes
<1>2. AcceptTypes'
  BY DEF Accept, AcceptTypes
<1>3. EventTypes'
  BY DEF Accept, EventTypes
<1>4. ConnectsOnce'
  BY DEF Accept, ConnectsOnce
<1>5. EventsOfClients'
  BY DEF Accept, EventsOfClients, ConnectsOnce, Gone
<1>6. AcceptsClient'
  BY DEF Accept, AcceptsClient
<1>7. SessionOwner'
  BY DEF Accept, SessionOwner
<1>8. fault' = fault
  BY DEF Accept
<1> QED
  BY <1>1, <1>2, <1>3, <1>4, <1>5, <1>6, <1>7, <1>8, Frames DEF Accept

\* The requests that were read were on their way before.
LEMMA RecvIInv ==
  ASSUME NEW v \in Viewers, IInv, Recv(v)
  PROVE  IInv'
<1> USE DescriptorsDiffer
    DEF IInv, Types, None, Pairs, lockVars, sessionVars, acceptVars, camVars, netVars,
        viewerVars
<1>1. AcceptTypes'
  BY DEF Recv, AcceptTypes
<1>2. RequestTypes'
  BY DEF Recv, RequestTypes
<1>3. MtxHolder'
  BY DEF Recv, MtxHolder
<1>4. EventsOfClients'
  BY DEF Recv, EventsOfClients, Gone
<1>5. AcceptsClient'
  BY DEF Recv, AcceptsClient, EventsOfClients
<1>6. ConvsTellCams'
  <2> DEFINE read == buffer[v] \o toServer[v]
  <2>1. /\ buffer[v] \in Seq(Requests) /\ toServer[v] \in Seq(Requests)
        /\ toServer[v] # <<>>
    BY DEF Recv, RequestTypes
  <2>2. /\ read \in Seq(Requests) /\ read # <<>>
        /\ Items(read) \subseteq Items(buffer[v]) \cup Items(toServer[v])
    BY <2>1, ItemsConcat, ConcatNotEmpty
  <2>3. Head(read) \in Items(read) /\ Items(Tail(read)) \subseteq Items(read)
    BY <2>2, ItemsHeadTail
  <2>4. /\ request' = <<Head(read)>> /\ buffer' = [buffer EXCEPT ![v] = Tail(read)]
        /\ toServer' = [toServer EXCEPT ![v] = <<>>] /\ current' = v
        /\ UNCHANGED <<camMap, live, conv, lastConv>>
    BY DEF Recv
  <2>5. Head(request') = Head(read)
    BY <2>4, ItemsOfOne
  <2>6. ASSUME NEW w \in Viewers, NEW p \in Cams \X Convs, Known(w, p)'
        PROVE  Known(w, p)
    <3>1. CASE w # v
      BY <2>4, <2>6, <3>1 DEF Known, RequestTypes
    <3>2. CASE w = v
      <4>1. toServer'[v] = <<>> /\ buffer'[v] = Tail(read)
        BY <2>4 DEF RequestTypes
      <4>2. \A r \in Items(buffer'[v]) \cup Items(toServer'[v]) \cup {Head(request')} :
              r \in Items(buffer[v]) \cup Items(toServer[v])
        BY <2>2, <2>3, <2>5, <4>1, ItemsEmpty
      <4> QED
        BY <2>4, <2>6, <3>2, <4>2 DEF Known
    <3> QED
      BY <3>1, <3>2
  <2> QED
    BY <2>4, <2>6, KnownShrinks
<1>7. fault' = fault
  BY DEF Recv
<1> QED
  BY <1>1, <1>2, <1>3, <1>4, <1>5, <1>6, <1>7, Frames DEF Recv

\* The process ends.
LEMMA RecvFailsIInv ==
  ASSUME NEW v \in Viewers, IInv, RecvFails(v)
  PROVE  IInv'
<1> USE DescriptorsDiffer
    DEF IInv, Types, None, Pairs, lockVars, sessionVars, acceptVars, camVars, netVars,
        viewerVars
<1>1. fault' \in Faults
  BY DEF RecvFails, Faults
<1> QED
  BY <1>1, Frames DEF RecvFails

\* The answer to SETUP.
LEMMA HandleSetupIInv ==
  ASSUME IInv, HandleSetup
  PROVE  IInv'
<1> USE DescriptorsDiffer
    DEF IInv, Types, None, Pairs, lockVars, sessionVars, acceptVars, camVars, netVars,
        viewerVars
<1>1. AcceptTypes'
  BY DEF HandleSetup, Done, AcceptTypes
<1>2. RequestTypes'
  BY DEF HandleSetup, Done, RequestTypes
<1>3. ViewerTypes'
  <2>1. /\ [type |-> "CAMS", cams |-> cams] \in Messages
        /\ AddsOne([type |-> "CAMS", cams |-> cams])
    BY DEF Messages, AddsOne, LockTypes
  <2>2. toViewer' \in [Viewers -> Seq(Messages)]
    BY <2>1, TellFacts DEF HandleSetup
  <2> QED
    BY <2>2 DEF HandleSetup, ViewerTypes
<1>4. MtxHolder'
  BY DEF HandleSetup, Done, MtxHolder
<1>5. AcceptsClient'
  BY DEF HandleSetup, Done, AcceptsClient
<1>6. ConvsTellCams'
  <2>1. \A w \in Viewers : \A p \in Cams \X Convs : Known(w, p)' => Known(w, p)
    BY DEF HandleSetup, Done, Known
  <2> QED
    BY <2>1, KnownShrinks DEF HandleSetup
<1>7. AddCamNamesOne'
  <2>1. /\ [type |-> "CAMS", cams |-> cams] \in Messages
        /\ AddsOne([type |-> "CAMS", cams |-> cams])
    BY DEF Messages, AddsOne, LockTypes
  <2> QED
    BY <2>1, TellFacts DEF HandleSetup, AddCamNamesOne
<1>8. fault' \in Faults
  <2>1. /\ [type |-> "CAMS", cams |-> cams] \in Messages
        /\ AddsOne([type |-> "CAMS", cams |-> cams])
    BY DEF Messages, AddsOne, LockTypes
  <2> QED
    BY <2>1, TellFacts DEF HandleSetup
<1> QED
  BY <1>1, <1>2, <1>3, <1>4, <1>5, <1>6, <1>7, <1>8, Frames DEF HandleSetup

\* MESSAGE and ADDCAM take _mtx.
LEMMA BeginMessageIInv ==
  ASSUME IInv, BeginMessage
  PROVE  IInv'
<1> USE DescriptorsDiffer
    DEF IInv, Types, None, Pairs, lockVars, sessionVars, acceptVars, camVars, netVars,
        viewerVars
<1>1. LockTypes'
  BY DEF BeginMessage, LockTypes
<1>2. AcceptTypes'
  BY DEF BeginMessage, AcceptTypes
<1>3. MtxHolder'
  BY DEF BeginMessage, MtxHolder
<1>4. AcceptsClient'
  BY DEF BeginMessage, AcceptsClient
<1>5. fault' = fault
  BY DEF BeginMessage
<1> QED
  BY <1>1, <1>2, <1>3, <1>4, <1>5, Frames DEF BeginMessage

\* A new session, for a client, with a conversation that its request carried.
LEMMA InsertSessionIInv ==
  ASSUME IInv, NEW p, InsertSession(p)
  PROVE  IInv'
<1> USE DescriptorsDiffer
    DEF IInv, Types, None, Pairs, lockVars, sessionVars, acceptVars, camVars, netVars,
        viewerVars
<1> DEFINE s == <<current, p[1]>>
           rest == [Head(request) EXCEPT !.convs = @ \ {p}]
<1>0. /\ apc = "message" /\ p \in Head(request).convs /\ s \notin live
      /\ live' = live \cup {s} /\ conv' = [conv EXCEPT ![s] = p[2]] /\ target' = s
      /\ request' = <<rest>> /\ apc' = "start"
      /\ UNCHANGED <<mtx, clients, cams, kcp, running, kmtx, kpc, batch, current, buffer,
                     cpc, naluTo, ready, backlog, toServer, toViewer, answered, vpc, camMap,
                     lastConv, vbuffer, cut, fault>>
  BY DEF InsertSession
<1>1. /\ p \in Cams \X Convs /\ current \in Viewers /\ current \in clients /\ s \in Pairs
      /\ Head(request) \in Requests /\ request # <<>>
  BY <1>0, RequestFacts DEF AcceptsClient
<1>2. rest \in Requests /\ rest.convs = Head(request).convs \ {p}
  BY <1>1 DEF Requests
<1>3. <<rest>> \in Seq(Requests) /\ Len(<<rest>>) = 1 /\ Head(<<rest>>) = rest
      /\ <<rest>> # <<>>
  BY <1>2
<1>4. SessionTypes'
  BY <1>0, <1>1 DEF SessionTypes
<1>5. AcceptTypes'
  BY <1>0, <1>1 DEF AcceptTypes
<1>6. RequestTypes'
  BY <1>0, <1>3 DEF RequestTypes
<1>7. MtxHolder'
  BY <1>0 DEF MtxHolder
<1>8. AcceptsClient'
  BY <1>0, <1>1, <1>3 DEF AcceptsClient, Gone
<1>9. SessionOwner'
  BY <1>0, <1>1 DEF SessionOwner
<1>10. ConvsTellCams'
  <2>1. ASSUME NEW w \in Viewers, NEW q \in Cams \X Convs, Known(w, q)'
        PROVE  Known(w, q)
    <3> DEFINE t == <<w, q[1]>>
    <3>1. CASE t \in live' /\ conv'[t] = q[2] /\ t = s
      <4>1. conv'[s] = p[2]
        BY <1>0, <1>1 DEF SessionTypes
      <4>2. w = current /\ q = p
        BY <1>1, <3>1, <4>1
      <4> QED
        BY <1>0, <1>1, <4>2 DEF Known
    <3>2. CASE t \in live' /\ conv'[t] = q[2] /\ t # s
      <4>1. t \in live /\ t \in Pairs
        BY <1>0, <3>2
      <4>2. conv'[t] = conv[t]
        BY <1>0, <3>2, <4>1 DEF SessionTypes
      <4> QED
        BY <3>2, <4>1, <4>2 DEF Known
    <3>3. CASE ~(t \in live' /\ conv'[t] = q[2])
      BY <1>0, <1>1, <1>2, <1>3, <2>1, <3>3 DEF Known
    <3> QED
      BY <3>1, <3>2, <3>3
  <2> QED
    BY <1>0, <2>1, KnownShrinks
<1> QED
  BY <1>0, <1>4, <1>5, <1>6, <1>7, <1>8, <1>9, <1>10, Frames

\* The process ends.
LEMMA InsertTwiceIInv ==
  ASSUME IInv, NEW p, InsertTwice(p)
  PROVE  IInv'
<1> USE DescriptorsDiffer
    DEF IInv, Types, None, Pairs, lockVars, sessionVars, acceptVars, camVars, netVars,
        viewerVars
<1>1. fault' \in Faults
  BY DEF InsertTwice, Faults
<1> QED
  BY <1>1, Frames DEF InsertTwice

\* The session's KCP object and its thread come together.
LEMMA StartSessionIInv ==
  ASSUME IInv, StartSession
  PROVE  IInv'
<1> USE DescriptorsDiffer
    DEF IInv, Types, None, Pairs, lockVars, sessionVars, acceptVars, camVars, netVars,
        viewerVars
<1>1. SessionTypes'
  BY DEF StartSession, SessionTypes
<1>2. AcceptTypes'
  BY DEF StartSession, AcceptTypes
<1>3. MtxHolder'
  BY DEF StartSession, MtxHolder
<1>4. AcceptsClient'
  BY DEF StartSession, AcceptsClient, Gone
<1>5. SessionOwner'
  BY DEF StartSession, SessionOwner, SessionTypes, AcceptsClient
<1>6. fault' = fault
  BY DEF StartSession
<1> QED
  BY <1>1, <1>2, <1>3, <1>4, <1>5, <1>6, Frames DEF StartSession

\* The request has been handled.
LEMMA MessageDoneIInv ==
  ASSUME IInv, MessageDone
  PROVE  IInv'
<1> USE DescriptorsDiffer
    DEF IInv, Types, None, Pairs, lockVars, sessionVars, acceptVars, camVars, netVars,
        viewerVars
<1>1. LockTypes'
  BY DEF MessageDone, LockTypes
<1>2. AcceptTypes'
  BY DEF MessageDone, Done, AcceptTypes
<1>3. RequestTypes'
  BY DEF MessageDone, Done, RequestTypes
<1>4. MtxHolder'
  BY DEF MessageDone, Done, MtxHolder
<1>5. AcceptsClient'
  BY DEF MessageDone, Done, AcceptsClient
<1>6. ConvsTellCams'
  <2>1. \A w \in Viewers : \A p \in Cams \X Convs : Known(w, p)' => Known(w, p)
    BY DEF MessageDone, Done, Known
  <2> QED
    BY <2>1, KnownShrinks DEF MessageDone
<1>7. fault' = fault
  BY DEF MessageDone
<1> QED
  BY <1>1, <1>2, <1>3, <1>4, <1>5, <1>6, <1>7, Frames DEF MessageDone

\* The close takes _mtx, for a client that has left for good.
LEMMA BeginCloseIInv ==
  ASSUME NEW v \in Viewers, IInv, BeginClose(v)
  PROVE  IInv'
<1> USE DescriptorsDiffer
    DEF IInv, Types, None, Pairs, lockVars, sessionVars, acceptVars, camVars, netVars,
        viewerVars
<1>1. LockTypes'
  BY DEF BeginClose, LockTypes
<1>2. AcceptTypes'
  BY DEF BeginClose, AcceptTypes
<1>3. MtxHolder'
  BY DEF BeginClose, MtxHolder
<1>4. AcceptsClient'
  BY DEF BeginClose, AcceptsClient, EventsOfClients, Gone
<1>5. ConvsTellCams'
  <2>1. request = <<>>
    BY DEF BeginClose, AcceptsClient
  <2>2. \A w \in Viewers : \A p \in Cams \X Convs : Known(w, p)' => Known(w, p)
    BY <2>1 DEF BeginClose, Known
  <2> QED
    BY <2>2, KnownShrinks DEF BeginClose
<1>6. fault' = fault
  BY DEF BeginClose
<1> QED
  BY <1>1, <1>2, <1>3, <1>4, <1>5, <1>6, Frames DEF BeginClose

\* The next session of the client is told to stop.
LEMMA CloseStopIInv ==
  ASSUME NEW s \in Pairs, IInv, CloseStop(s)
  PROVE  IInv'
<1> USE DescriptorsDiffer
    DEF IInv, Types, None, Pairs, lockVars, sessionVars, acceptVars, camVars, netVars,
        viewerVars
<1>1. SessionTypes'
  BY DEF CloseStop, SessionTypes
<1>2. AcceptTypes'
  BY DEF CloseStop, AcceptTypes
<1>3. MtxHolder'
  BY DEF CloseStop, MtxHolder
<1>4. AcceptsClient'
  BY DEF CloseStop, SessionsOf, AcceptsClient, Gone
<1>5. fault' = fault
  BY DEF CloseStop
<1> QED
  BY <1>1, <1>2, <1>3, <1>4, <1>5, Frames DEF CloseStop

\* Its thread and its KCP object go together.
LEMMA CloseJoinIInv ==
  ASSUME IInv, CloseJoin
  PROVE  IInv'
<1> USE DescriptorsDiffer
    DEF IInv, Types, None, Pairs, lockVars, sessionVars, acceptVars, camVars, netVars,
        viewerVars
<1>1. SessionTypes'
  BY DEF CloseJoin, SessionTypes
<1>2. AcceptTypes'
  BY DEF CloseJoin, AcceptTypes
<1>3. MtxHolder'
  BY DEF CloseJoin, MtxHolder
<1>4. AcceptsClient'
  BY DEF CloseJoin, AcceptsClient, Gone
<1>5. SessionOwner'
  BY DEF CloseJoin, SessionOwner, SessionTypes
<1>6. fault' \in Faults
  BY DEF CloseJoin, Faults
<1> QED
  BY <1>1, <1>2, <1>3, <1>4, <1>5, <1>6, Frames DEF CloseJoin

\* The client goes, with sessions whose threads have gone.
LEMMA CloseEraseIInv ==
  ASSUME IInv, CloseErase
  PROVE  IInv'
<1> USE DescriptorsDiffer
    DEF IInv, Types, None, Pairs, lockVars, sessionVars, acceptVars, camVars, netVars,
        viewerVars
<1>1. LockTypes'
  BY DEF CloseErase, LockTypes
<1>2. SessionTypes'
  BY DEF CloseErase, SessionTypes
<1>3. AcceptTypes'
  BY DEF CloseErase, Done, AcceptTypes
<1>4. RequestTypes'
  <2>1. request' = <<>> /\ buffer' = [buffer EXCEPT ![current] = <<>>] /\ UNCHANGED toServer
    BY DEF CloseErase, Done
  <2>2. <<>> \in Seq(Requests) /\ Len(<<>>) = 0
    BY EmptySeq
  <2>3. buffer' \in [Viewers -> Seq(Requests)]
    BY <2>1, <2>2 DEF RequestTypes
  <2>4. request' \in Seq(Requests) /\ Len(request') <= 1
    BY <2>1, <2>2
  <2> QED
    BY <2>1, <2>3, <2>4 DEF RequestTypes
<1>5. MtxHolder'
  BY DEF CloseErase, Done, MtxHolder
<1>6. ConnectsOnce'
  BY DEF CloseErase, ConnectsOnce
<1>7. EventsOfClients'
  BY DEF CloseErase, EventsOfClients, AcceptsClient
<1>8. AcceptsClient'
  BY DEF CloseErase, Done, AcceptsClient
<1>9. SessionOwner'
  BY DEF CloseErase, SessionsOf, SessionOwner
<1>10. ConvsTellCams'
  <2>1. /\ request' = <<>> /\ UNCHANGED <<camMap, toServer, conv, lastConv>>
        /\ live' \subseteq live
        /\ buffer' = [buffer EXCEPT ![current] = <<>>]
    BY DEF CloseErase, Done
  <2>2. \A w \in Viewers : Items(buffer'[w]) \subseteq Items(buffer[w])
    BY <2>1, ItemsEmpty DEF RequestTypes
  <2>3. \A w \in Viewers : \A p \in Cams \X Convs : Known(w, p)' => Known(w, p)
    BY <2>1, <2>2 DEF Known
  <2> QED
    BY <2>1, <2>3, KnownShrinks
<1>11. fault' = fault
  BY DEF CloseErase
<1> QED
  BY <1>1, <1>2, <1>3, <1>4, <1>5, <1>6, <1>7, <1>8, <1>9, <1>10, <1>11, Frames
     DEF CloseErase

\* A datagram finds a session, or none.
LEMMA UdpFindIInv ==
  ASSUME NEW k \in answered, IInv, UdpFind(k)
  PROVE  IInv'
<1> USE DescriptorsDiffer
    DEF IInv, Types, None, Pairs, lockVars, sessionVars, acceptVars, camVars, netVars,
        viewerVars
<1>1. AcceptTypes'
  BY DEF UdpFind, AcceptTypes, SessionTypes
<1>2. MtxHolder'
  BY DEF UdpFind, MtxHolder
<1>3. AcceptsClient'
  BY DEF UdpFind, AcceptsClient
<1>4. fault' = fault
  BY DEF UdpFind
<1> QED
  BY <1>1, <1>2, <1>3, <1>4, Frames DEF UdpFind

\* It is put in, or ends the process.
LEMMA UdpInputIInv ==
  ASSUME IInv, UdpInput
  PROVE  IInv'
<1> USE DescriptorsDiffer
    DEF IInv, Types, None, Pairs, lockVars, sessionVars, acceptVars, camVars, netVars,
        viewerVars
<1>1. AcceptTypes'
  BY DEF UdpInput, AcceptTypes
<1>2. MtxHolder'
  BY DEF UdpInput, MtxHolder
<1>3. AcceptsClient'
  BY DEF UdpInput, AcceptsClient
<1>4. fault' \in Faults
  BY DEF UdpInput, Faults
<1> QED
  BY <1>1, <1>2, <1>3, <1>4, Frames DEF UdpInput

\* The UDP socket is empty.
LEMMA UdpDoneIInv ==
  ASSUME IInv, UdpDone
  PROVE  IInv'
<1> USE DescriptorsDiffer
    DEF IInv, Types, None, Pairs, lockVars, sessionVars, acceptVars, camVars, netVars,
        viewerVars
<1>1. AcceptTypes'
  BY DEF UdpDone, AcceptTypes
<1>2. EventsOfClients'
  BY DEF UdpDone, EventsOfClients, Gone
<1>3. fault' = fault
  BY DEF UdpDone
<1> QED
  BY <1>1, <1>2, <1>3, Frames DEF UdpDone

\* A new camera is announced to the clients.
LEMMA AddCamIInv ==
  ASSUME NEW c \in Cams, IInv, AddCam(c)
  PROVE  IInv'
<1> USE DescriptorsDiffer
    DEF IInv, Types, None, Pairs, lockVars, sessionVars, acceptVars, camVars, netVars,
        viewerVars
<1>1. LockTypes'
  BY DEF AddCam, LockTypes
<1>2. CamTypes'
  BY DEF AddCam, CamTypes
<1>3. ViewerTypes'
  <2>1. /\ [type |-> "ADDCAM", cams |-> {c}] \in Messages
        /\ AddsOne([type |-> "ADDCAM", cams |-> {c}])
    BY DEF Messages, AddsOne
  <2>2. toViewer' \in [Viewers -> Seq(Messages)]
    BY <2>1, TellFacts DEF AddCam
  <2> QED
    BY <2>2 DEF AddCam, ViewerTypes
<1>4. MtxHolder'
  BY DEF AddCam, MtxHolder
<1>5. KmtxHolder'
  BY DEF AddCam, KmtxHolder
<1>6. NaluTarget'
  BY DEF AddCam, NaluTarget
<1>7. AddCamNamesOne'
  <2>1. /\ [type |-> "ADDCAM", cams |-> {c}] \in Messages
        /\ AddsOne([type |-> "ADDCAM", cams |-> {c}])
    BY DEF Messages, AddsOne
  <2> QED
    BY <2>1, TellFacts DEF AddCam, AddCamNamesOne
<1>8. fault' \in Faults
  <2>1. /\ [type |-> "ADDCAM", cams |-> {c}] \in Messages
        /\ AddsOne([type |-> "ADDCAM", cams |-> {c}])
    BY DEF Messages, AddsOne
  <2> QED
    BY <2>1, TellFacts DEF AddCam
<1> QED
  BY <1>1, <1>2, <1>3, <1>4, <1>5, <1>6, <1>7, <1>8, Frames DEF AddCam

\* onNaluUdp reaches a viewer.
LEMMA NaluFindIInv ==
  ASSUME NEW c \in Cams, NEW v \in Viewers, IInv, NaluFind(c, v)
  PROVE  IInv'
<1> USE DescriptorsDiffer
    DEF IInv, Types, None, Pairs, lockVars, sessionVars, acceptVars, camVars, netVars,
        viewerVars
<1>1. CamTypes'
  BY DEF NaluFind, CamTypes
<1>2. MtxHolder'
  BY DEF NaluFind, MtxHolder
<1>3. KmtxHolder'
  BY DEF NaluFind, KmtxHolder
<1>4. NaluTarget'
  BY DEF NaluFind, NaluTarget, CamTypes
<1>5. fault' = fault
  BY DEF NaluFind
<1> QED
  BY <1>1, <1>2, <1>3, <1>4, <1>5, Frames DEF NaluFind

\* onNaluUdp locks the mutex of a session.
LEMMA NaluLockIInv ==
  ASSUME NEW c \in Cams, IInv, NaluLock(c)
  PROVE  IInv'
<1> USE DescriptorsDiffer
    DEF IInv, Types, None, Pairs, lockVars, sessionVars, acceptVars, camVars, netVars,
        viewerVars
<1>1. SessionTypes'
  BY DEF NaluLock, SessionTypes
<1>2. CamTypes'
  BY DEF NaluLock, CamTypes
<1>3. MtxHolder'
  BY DEF NaluLock, MtxHolder, CamTypes
<1>4. KmtxHolder'
  <2>1. CASE UNCHANGED <<kmtx, cpc>>
    BY <2>1 DEF NaluLock, KmtxHolder
  <2>2. CASE /\ kmtx' = [kmtx EXCEPT ![<<naluTo[c], c>>] = "cam"]
             /\ cpc' = [cpc EXCEPT ![c] = "sending"]
    <3>1. cpc[c] = "send" /\ UNCHANGED naluTo /\ <<naluTo[c], c>> \in Pairs
      BY DEF NaluLock, NaluTarget
    <3> QED
      BY <2>2, <3>1 DEF KmtxHolder, CamTypes
  <2> QED
    BY <2>1, <2>2 DEF NaluLock
<1>5. NaluTarget'
  BY DEF NaluLock, NaluTarget, CamTypes
<1>6. fault' \in Faults
  BY DEF NaluLock, Faults
<1> QED
  BY <1>1, <1>2, <1>3, <1>4, <1>5, <1>6, Frames DEF NaluLock

\* onNaluUdp sends and unlocks.
LEMMA NaluSendIInv ==
  ASSUME NEW c \in Cams, IInv, NaluSend(c)
  PROVE  IInv'
<1> USE DescriptorsDiffer
    DEF IInv, Types, None, Pairs, lockVars, sessionVars, acceptVars, camVars, netVars,
        viewerVars
<1>1. SessionTypes'
  <2>1. CASE UNCHANGED <<kmtx, kcp, cpc, naluTo>>
    BY <2>1 DEF NaluSend, SessionTypes
  <2>2. CASE /\ kcp' = [kcp EXCEPT ![<<naluTo[c], c>>] = "data"]
             /\ kmtx' = [kmtx EXCEPT ![<<naluTo[c], c>>] = None]
             /\ cpc' = [cpc EXCEPT ![c] = "idle"]
             /\ naluTo' = [naluTo EXCEPT ![c] = None]
             /\ kcp[<<naluTo[c], c>>] # None
    <3>1. /\ cpc[c] = "sending" /\ <<naluTo[c], c>> \in Pairs
          /\ UNCHANGED <<live, conv, running, kpc, clients>>
      BY DEF NaluSend, NaluTarget
    <3> QED
      BY <2>2, <3>1 DEF SessionTypes
  <2> QED
    BY <2>1, <2>2 DEF NaluSend
<1>2. CamTypes'
  BY DEF NaluSend, CamTypes
<1>3. MtxHolder'
  BY DEF NaluSend, MtxHolder, CamTypes
<1>4. KmtxHolder'
  <2>1. CASE UNCHANGED <<kmtx, kcp, cpc, naluTo>>
    BY <2>1 DEF KmtxHolder
  <2>2. CASE /\ kcp' = [kcp EXCEPT ![<<naluTo[c], c>>] = "data"]
             /\ kmtx' = [kmtx EXCEPT ![<<naluTo[c], c>>] = None]
             /\ cpc' = [cpc EXCEPT ![c] = "idle"]
             /\ naluTo' = [naluTo EXCEPT ![c] = None]
             /\ kcp[<<naluTo[c], c>>] # None
    <3>1. /\ cpc[c] = "sending" /\ <<naluTo[c], c>> \in Pairs
          /\ UNCHANGED <<live, conv, running, kpc, clients>>
      BY DEF NaluSend, NaluTarget
    <3> QED
      BY <2>2, <3>1 DEF KmtxHolder, SessionTypes
  <2> QED
    BY <2>1, <2>2 DEF NaluSend
<1>5. NaluTarget'
  BY DEF NaluSend, NaluTarget, CamTypes
<1>6. SessionOwner'
  <2>1. CASE UNCHANGED <<kmtx, kcp, cpc, naluTo>>
    BY <2>1 DEF NaluSend, SessionOwner
  <2>2. CASE /\ kcp' = [kcp EXCEPT ![<<naluTo[c], c>>] = "data"]
             /\ kmtx' = [kmtx EXCEPT ![<<naluTo[c], c>>] = None]
             /\ cpc' = [cpc EXCEPT ![c] = "idle"]
             /\ naluTo' = [naluTo EXCEPT ![c] = None]
             /\ kcp[<<naluTo[c], c>>] # None
    <3>1. /\ cpc[c] = "sending" /\ <<naluTo[c], c>> \in Pairs
          /\ UNCHANGED <<live, conv, running, kpc, clients>>
      BY DEF NaluSend, NaluTarget
    <3> QED
      BY <2>2, <3>1 DEF SessionOwner
  <2> QED
    BY <2>1, <2>2 DEF NaluSend
<1>7. fault' \in Faults
  BY DEF NaluSend, Faults
<1> QED
  BY <1>1, <1>2, <1>3, <1>4, <1>5, <1>6, <1>7, Frames DEF NaluSend

\* removeCam takes _mtx: no close and no other removal is going on.
LEMMA RemoveCamIInv ==
  ASSUME NEW c \in Cams, IInv, RemoveCam(c)
  PROVE  IInv'
<1> USE DescriptorsDiffer
    DEF IInv, Types, None, Pairs, lockVars, sessionVars, acceptVars, camVars, netVars,
        viewerVars
<1>1. LockTypes'
  BY DEF RemoveCam, LockTypes
<1>2. CamTypes'
  BY DEF RemoveCam, CamTypes
<1>3. MtxHolder'
  BY DEF RemoveCam, MtxHolder
<1>4. KmtxHolder'
  BY DEF RemoveCam, KmtxHolder
<1>5. NaluTarget'
  BY DEF RemoveCam, NaluTarget
<1>6. fault' = fault
  BY DEF RemoveCam
<1> QED
  BY <1>1, <1>2, <1>3, <1>4, <1>5, <1>6, Frames DEF RemoveCam

\* removeCam takes the mutex of a session.
LEMMA RemoveStopIInv ==
  ASSUME NEW c \in Cams, NEW v \in Viewers, IInv, RemoveStop(c, v)
  PROVE  IInv'
<1> USE DescriptorsDiffer
    DEF IInv, Types, None, Pairs, lockVars, sessionVars, acceptVars, camVars, netVars,
        viewerVars
<1>1. SessionTypes'
  BY DEF RemoveStop, SessionTypes
<1>2. CamTypes'
  BY DEF RemoveStop, CamTypes
<1>3. ViewerTypes'
  <2>1. /\ [type |-> "DELCAM", cams |-> {c}] \in Messages
        /\ AddsOne([type |-> "DELCAM", cams |-> {c}])
    BY DEF Messages, AddsOne
  <2>2. toViewer' \in [Viewers -> Seq(Messages)]
    BY <2>1, TellFacts DEF RemoveStop
  <2> QED
    BY <2>2 DEF RemoveStop, ViewerTypes
<1>4. MtxHolder'
  BY DEF RemoveStop, MtxHolder
<1>5. KmtxHolder'
  BY DEF RemoveStop, KmtxHolder, CamTypes
<1>6. NaluTarget'
  BY DEF RemoveStop, NaluTarget, CamTypes
<1>7. AddCamNamesOne'
  <2>1. /\ [type |-> "DELCAM", cams |-> {c}] \in Messages
        /\ AddsOne([type |-> "DELCAM", cams |-> {c}])
    BY DEF Messages, AddsOne
  <2> QED
    BY <2>1, TellFacts DEF RemoveStop, AddCamNamesOne
<1>8. fault' \in Faults
  <2>1. /\ [type |-> "DELCAM", cams |-> {c}] \in Messages
        /\ AddsOne([type |-> "DELCAM", cams |-> {c}])
    BY DEF Messages, AddsOne
  <2> QED
    BY <2>1, TellFacts DEF RemoveStop
<1> QED
  BY <1>1, <1>2, <1>3, <1>4, <1>5, <1>6, <1>7, <1>8, Frames DEF RemoveStop

\* The thread, the KCP object and the session go together.
LEMMA RemoveJoinIInv ==
  ASSUME NEW c \in Cams, IInv, RemoveJoin(c)
  PROVE  IInv'
<1> USE DescriptorsDiffer
    DEF IInv, Types, None, Pairs, lockVars, sessionVars, acceptVars, camVars, netVars,
        viewerVars
<1>1. SessionTypes'
  BY DEF RemoveJoin, SessionTypes
<1>2. CamTypes'
  BY DEF RemoveJoin, CamTypes
<1>3. MtxHolder'
  BY DEF RemoveJoin, MtxHolder
<1>4. KmtxHolder'
  BY DEF RemoveJoin, KmtxHolder, SessionTypes
<1>5. NaluTarget'
  BY DEF RemoveJoin, NaluTarget, CamTypes
<1>6. AcceptsClient'
  BY DEF RemoveJoin, AcceptsClient, MtxHolder, LockTypes
<1>7. SessionOwner'
  BY DEF RemoveJoin, SessionOwner, SessionTypes
<1>8. ConvsTellCams'
  <2>1. \A w \in Viewers : \A p \in Cams \X Convs : Known(w, p)' => Known(w, p)
    BY DEF RemoveJoin, Known
  <2> QED
    BY <2>1, KnownShrinks DEF RemoveJoin
<1>9. fault' = fault
  BY DEF RemoveJoin
<1> QED
  BY <1>1, <1>2, <1>3, <1>4, <1>5, <1>6, <1>7, <1>8, <1>9, Frames DEF RemoveJoin

\* removeCam releases _mtx.
LEMMA RemoveDoneIInv ==
  ASSUME NEW c \in Cams, IInv, RemoveDone(c)
  PROVE  IInv'
<1> USE DescriptorsDiffer
    DEF IInv, Types, None, Pairs, lockVars, sessionVars, acceptVars, camVars, netVars,
        viewerVars
<1>1. LockTypes'
  BY DEF RemoveDone, LockTypes
<1>2. CamTypes'
  BY DEF RemoveDone, CamTypes
<1>3. MtxHolder'
  BY DEF RemoveDone, MtxHolder, CamTypes
<1>4. KmtxHolder'
  BY DEF RemoveDone, KmtxHolder
<1>5. NaluTarget'
  BY DEF RemoveDone, NaluTarget
<1>6. fault' = fault
  BY DEF RemoveDone
<1> QED
  BY <1>1, <1>2, <1>3, <1>4, <1>5, <1>6, Frames DEF RemoveDone

\* The update thread looks at kcp_runing.
LEMMA KcpTestIInv ==
  ASSUME NEW s \in Pairs, IInv, KcpTest(s)
  PROVE  IInv'
<1> USE DescriptorsDiffer
    DEF IInv, Types, None, Pairs, lockVars, sessionVars, acceptVars, camVars, netVars,
        viewerVars
<1>1. SessionTypes'
  BY DEF KcpTest, SessionTypes
<1>2. SessionOwner'
  BY DEF KcpTest, SessionOwner
<1>3. fault' = fault
  BY DEF KcpTest
<1> QED
  BY <1>1, <1>2, <1>3, Frames DEF KcpTest

\* The update thread drives the KCP object.
LEMMA KcpUpdateIInv ==
  ASSUME NEW s \in Pairs, IInv, KcpUpdate(s)
  PROVE  IInv'
<1> USE DescriptorsDiffer
    DEF IInv, Types, None, Pairs, lockVars, sessionVars, acceptVars, camVars, netVars,
        viewerVars
<1>1. SessionTypes'
  BY DEF KcpUpdate, SessionTypes
<1>2. EventTypes'
  BY DEF KcpUpdate, EventTypes, SessionTypes
<1>3. SessionOwner'
  BY DEF KcpUpdate, SessionOwner
<1>4. fault' = fault
  BY DEF KcpUpdate
<1> QED
  BY <1>1, <1>2, <1>3, <1>4, Frames DEF KcpUpdate

\* A viewer connects, for the first time, and sends SETUP.
LEMMA ConnectIInv ==
  ASSUME NEW v \in Viewers, IInv, Connect(v)
  PROVE  IInv'
<1> USE DescriptorsDiffer
    DEF IInv, Types, None, Pairs, lockVars, sessionVars, acceptVars, camVars, netVars,
        viewerVars
<1>1. RequestTypes'
  <2>1. [type |-> "SETUP", convs |-> {}] \in Requests
    BY DEF Requests
  <2>2. <<[type |-> "SETUP", convs |-> {}]>> \in Seq(Requests)
    BY <2>1
  <2> QED
    BY <2>2 DEF Connect, RequestTypes
<1>2. EventTypes'
  BY DEF Connect, EventTypes
<1>3. ViewerTypes'
  BY DEF Connect, ViewerTypes
<1>4. ConnectsOnce'
  BY DEF Connect, ConnectsOnce, ViewerTypes
<1>5. EventsOfClients'
  BY DEF Connect, EventsOfClients, Gone
<1>6. AcceptsClient'
  BY DEF Connect, AcceptsClient, AcceptTypes, Gone
<1>7. ConvsTellCams'
  <2> DEFINE setup == [type |-> "SETUP", convs |-> {}]
  <2>1. toServer' = [toServer EXCEPT ![v] = <<setup>>]
    BY DEF Connect
  <2>2. \A w \in Viewers : Items(toServer'[w]) \subseteq Items(toServer[w]) \cup {setup}
    BY <2>1, ItemsOfOne DEF RequestTypes
  <2>3. setup.convs = {}
    OBVIOUS
  <2>4. \A w \in Viewers : \A p \in Cams \X Convs : Known(w, p)' => Known(w, p)
    BY <2>2, <2>3 DEF Connect, Known
  <2> QED
    BY <2>4, KnownShrinks DEF Connect
<1>8. fault' = fault
  BY DEF Connect
<1> QED
  BY <1>1, <1>2, <1>3, <1>4, <1>5, <1>6, <1>7, <1>8, Frames DEF Connect

-----------------------------------------------------------------------------
(* The viewer draws conversations.                                          *)

\* A camera's place among the cameras it is drawn with.
Place(cs, c) == Cardinality({d \in cs : d <= c})

\* Places count from 1 and are different for different cameras.
LEMMA PlaceFacts ==
  ASSUME NEW cs \in SUBSET Cams
  PROVE  /\ Cardinality(cs) \in Nat
         /\ \A c \in cs : Place(cs, c) \in 1..Cardinality(cs)
         /\ \A c, d \in cs : Place(cs, c) = Place(cs, d) => c = d
<1>1. IsFiniteSet(cs) /\ cs \subseteq Nat
  BY CamsNumbered, FS_Subset
<1>2. Cardinality(cs) \in Nat
  BY <1>1, FS_CardinalityType
<1>3. ASSUME NEW c \in cs
      PROVE  /\ IsFiniteSet({d \in cs : d <= c})
             /\ Place(cs, c) \in 1..Cardinality(cs)
  <2> DEFINE D == {d \in cs : d <= c}
  <2>1. D \in SUBSET cs /\ c \in D
    BY <1>1
  <2>2. IsFiniteSet(D) /\ Cardinality(D) <= Cardinality(cs)
    BY <1>1, <2>1, FS_Subset
  <2>3. Cardinality(D) \in Nat /\ Cardinality(D) # 0
    BY <2>1, <2>2, FS_CardinalityType, FS_EmptySet
  <2> QED
    BY <1>2, <2>2, <2>3 DEF Place
<1>4. ASSUME NEW c \in cs, NEW d \in cs, c < d
      PROVE  Place(cs, c) # Place(cs, d)
  <2>1. {e \in cs : e <= c} \in SUBSET {e \in cs : e <= d}
    <3>1. \A e \in cs : e <= c => e <= d
      BY <1>1, <1>4
    <3> QED
      BY <3>1
  <2>2. d \in {e \in cs : e <= d} /\ d \notin {e \in cs : e <= c}
    BY <1>1, <1>4
  <2>3. IsFiniteSet({e \in cs : e <= d})
    BY <1>3
  <2> QED
    BY <2>1, <2>2, <2>3, FS_Subset DEF Place
<1>5. \A c, d \in cs : c < d \/ d < c \/ c = d
  BY <1>1
<1> QED
  BY <1>2, <1>3, <1>4, <1>5

\* What Draw returns lies above everything drawn before, one for each camera.
LEMMA DrawFacts ==
  ASSUME NEW v \in Viewers, NEW cs \in SUBSET Cams, lastConv[v] \in Nat
  PROVE  \A p \in Draw(v, cs) :
           /\ p \in Cams \X Convs /\ p[1] \in cs
           /\ lastConv[v] < p[2] /\ p[2] <= lastConv[v] + Cardinality(cs)
           /\ \A q \in Draw(v, cs) : p[2] = q[2] => p[1] = q[1]
<1>1. ASSUME NEW p \in Draw(v, cs)
      PROVE  /\ p[1] \in cs /\ p = <<p[1], p[2]>>
             /\ p[2] = lastConv[v] + Place(cs, p[1])
  <2>1. PICK c \in cs : p = <<c, lastConv[v] + Place(cs, c)>>
    BY <1>1 DEF Draw, Place
  <2> QED
    BY <2>1
<1>2. ASSUME NEW p \in Draw(v, cs)
      PROVE  /\ p \in Cams \X Convs /\ lastConv[v] < p[2]
             /\ p[2] <= lastConv[v] + Cardinality(cs)
  <2>1. p[1] \in cs /\ p[1] \in Cams /\ Place(cs, p[1]) \in 1..Cardinality(cs)
    BY <1>1, PlaceFacts
  <2>2. p[2] \in Nat /\ lastConv[v] < p[2] /\ p[2] <= lastConv[v] + Cardinality(cs)
    BY <1>1, <2>1, PlaceFacts
  <2> QED
    BY <1>1, <2>1, <2>2 DEF Convs
<1>3. ASSUME NEW p \in Draw(v, cs), NEW q \in Draw(v, cs), p[2] = q[2]
      PROVE  p[1] = q[1]
  <2>1. /\ p[1] \in cs /\ q[1] \in cs
        /\ lastConv[v] + Place(cs, p[1]) = lastConv[v] + Place(cs, q[1])
    BY <1>1, <1>3
  <2>2. Place(cs, p[1]) \in Nat /\ Place(cs, q[1]) \in Nat
    <3>1. Place(cs, p[1]) \in 1..Cardinality(cs) /\ Place(cs, q[1]) \in 1..Cardinality(cs)
      BY <2>1, PlaceFacts
    <3> QED
      BY <3>1
  <2>3. Place(cs, p[1]) = Place(cs, q[1])
    BY <2>1, <2>2
  <2> QED
    BY <2>1, <2>3, PlaceFacts
<1> QED
  BY <1>1, <1>2, <1>3

\* Sending appends one request, and makes an event of a client.
LEMMA SendFacts ==
  ASSUME NEW v \in Viewers, NEW type \in {"MESSAGE", "ADDCAM"},
         NEW convs \in SUBSET (Cams \X Convs), RequestTypes, Send(v, type, convs)
  PROVE  /\ toServer' \in [Viewers -> Seq(Requests)]
         /\ \A w \in Viewers \ {v} : toServer'[w] = toServer[w]
         /\ Items(toServer'[v]) = Items(toServer[v]) \cup {[type |-> type, convs |-> convs]}
         /\ toServer'[v] # <<>>
         /\ ready' = ready \cup ({v} \cap clients)
<1> DEFINE r == [type |-> type, convs |-> convs]
<1>1. r \in Requests
  BY DEF Requests
<1>2. toServer[v] \in Seq(Requests) /\ toServer \in [Viewers -> Seq(Requests)]
  BY DEF RequestTypes
<1>3. toServer' = [toServer EXCEPT ![v] = Append(toServer[v], r)]
  BY DEF Send
<1>4. /\ Append(toServer[v], r) \in Seq(Requests) /\ Append(toServer[v], r) # <<>>
      /\ Items(Append(toServer[v], r)) = Items(toServer[v]) \cup {r}
  BY <1>1, <1>2, ItemsAppend, AppendProperties
<1> QED
  BY <1>2, <1>3, <1>4 DEF Send

\* A viewer that draws for the cameras of cs, enters what it drew and sends some of
\* what it has keeps one camera for every conversation.
LEMMA DrawKeepsConvs ==
  ASSUME NEW v \in Viewers, NEW cs \in SUBSET Cams, NEW convs \in SUBSET Enter(v, cs),
         NEW type \in {"MESSAGE", "ADDCAM"},
         ViewerTypes, RequestTypes, ConvsTellCams, Send(v, type, convs),
         camMap' = [camMap EXCEPT ![v] = Enter(v, cs)],
         lastConv' = [lastConv EXCEPT ![v] = @ + Cardinality(cs)],
         UNCHANGED <<buffer, current, request, live, conv>>
  PROVE  /\ ConvsTellCams'
         /\ Enter(v, cs) \subseteq Cams \X Convs
         /\ camMap' \in [Viewers -> SUBSET (Cams \X Convs)]
         /\ lastConv' \in [Viewers -> Convs]
<1>1. /\ camMap \in [Viewers -> SUBSET (Cams \X Convs)] /\ lastConv \in [Viewers -> Nat]
      /\ lastConv[v] \in Nat
  BY DEF ViewerTypes, Convs
<1>2. Cardinality(cs) \in Nat
  BY PlaceFacts
<1>3. Enter(v, cs) \subseteq Cams \X Convs
  BY <1>1, DrawFacts DEF Enter
<1>4. convs \in SUBSET (Cams \X Convs)
  BY <1>3
<1>5. /\ lastConv'[v] = lastConv[v] + Cardinality(cs)
      /\ camMap'[v] = Enter(v, cs)
      /\ \A w \in Viewers \ {v} : lastConv'[w] = lastConv[w] /\ camMap'[w] = camMap[w]
  BY <1>1
<1>6. ASSUME NEW w \in Viewers, w # v, NEW p \in Cams \X Convs, Known(w, p)'
      PROVE  Known(w, p)
  BY <1>4, <1>5, <1>6, SendFacts DEF Known
<1>7. ASSUME NEW p \in Cams \X Convs, Known(v, p)'
      PROVE  Known(v, p) \/ p \in Draw(v, cs)
  <2>1. p \in Enter(v, cs) => p \in camMap[v] \/ p \in Draw(v, cs)
    BY DEF Enter
  <2>2. ASSUME NEW r \in Items(buffer[v]) \cup Items(toServer'[v]), p \in r.convs
        PROVE  p \in Enter(v, cs) \/ r \in Items(buffer[v]) \cup Items(toServer[v])
    BY <1>4, <2>2, SendFacts
  <2> QED
    BY <1>5, <1>7, <2>1, <2>2 DEF Known
<1>8. ASSUME NEW p \in Cams \X Convs, NEW q \in Cams \X Convs
      PROVE  /\ Known(v, p)' => p[2] <= lastConv'[v]
             /\ Known(v, p)' /\ Known(v, q)' /\ p[2] = q[2] => p[1] = q[1]
  <2>1. p[2] \in Nat /\ q[2] \in Nat
    BY DEF Convs
  <2>2. /\ Known(v, p) => p[2] <= lastConv[v]
        /\ Known(v, q) => q[2] <= lastConv[v]
        /\ Known(v, p) /\ Known(v, q) /\ p[2] = q[2] => p[1] = q[1]
    BY DEF ConvsTellCams
  <2>3. /\ p \in Draw(v, cs) => lastConv[v] < p[2] /\ p[2] <= lastConv[v] + Cardinality(cs)
        /\ q \in Draw(v, cs) => lastConv[v] < q[2]
        /\ p \in Draw(v, cs) /\ q \in Draw(v, cs) /\ p[2] = q[2] => p[1] = q[1]
    BY <1>1, DrawFacts
  <2>4. Known(v, p)' => p[2] <= lastConv'[v]
    BY <1>1, <1>2, <1>5, <1>7, <2>1, <2>2, <2>3
  <2>5. ASSUME Known(v, p)', Known(v, q)', p[2] = q[2]
        PROVE  p[1] = q[1]
    <3>1. Known(v, p) \/ p \in Draw(v, cs)
      BY <1>7, <2>5
    <3>2. Known(v, q) \/ q \in Draw(v, cs)
      BY <1>7, <2>5
    <3> QED
      BY <1>1, <2>1, <2>2, <2>3, <2>5, <3>1, <3>2
  <2> QED
    BY <2>4, <2>5
<1>9. ConvsTellCams'
  <2>1. ASSUME NEW w \in Viewers, NEW p \in Cams \X Convs, NEW q \in Cams \X Convs
        PROVE  /\ Known(w, p)' => p[2] <= lastConv'[w]
               /\ Known(w, p)' /\ Known(w, q)' /\ p[2] = q[2] => p[1] = q[1]
    <3>1. CASE w = v
      BY <1>8, <3>1
    <3>2. CASE w # v
      BY <1>5, <1>6, <3>2 DEF ConvsTellCams
    <3> QED
      BY <3>1, <3>2
  <2> QED
    BY <2>1 DEF ConvsTellCams
<1> QED
  BY <1>1, <1>2, <1>3, <1>9 DEF Convs

\* The viewer reads: what it takes from its buffer are messages of the server.
LEMMA OnReadyReadIInv ==
  ASSUME NEW v \in Viewers, IInv, OnReadyRead(v)
  PROVE  IInv'
<1> USE DEF IInv, Types, lockVars, sessionVars, acceptVars, camVars
<1>1. PICK n \in 1..Len(toViewer[v]) :
        LET read == vbuffer[v] \o SubSeq(toViewer[v], 1, n) IN
        /\ \/ ViewerCams(v, Head(read)) \/ ViewerAddCam(v, Head(read))
           \/ ViewerDelCam(v, Head(read)) \/ ViewerIgnore(v, Head(read))
        /\ vbuffer' = [vbuffer EXCEPT ![v] = Tail(read)]
        /\ cut' = [cut EXCEPT ![v] = Tail(read) # <<>>]
        /\ toViewer' = [toViewer EXCEPT ![v] = SubSeq(@, n + 1, Len(@))]
  BY DEF OnReadyRead
<1> DEFINE read == vbuffer[v] \o SubSeq(toViewer[v], 1, n)
           m == Head(read)
<1>2. /\ vpc[v] = "on"
      /\ UNCHANGED <<mtx, clients, cams, live, conv, kcp, running, kmtx, kpc, apc, batch,
                     current, request, target, buffer, cpc, naluTo, backlog, answered, vpc,
                     fault>>
  BY DEF OnReadyRead
<1>3. /\ toViewer[v] \in Seq(Messages) /\ vbuffer[v] \in Seq(Messages)
      /\ Len(toViewer[v]) \in Nat
      /\ \A x \in Items(toViewer[v]) \cup Items(vbuffer[v]) : AddsOne(x)
  BY LenProperties DEF ViewerTypes, AddCamNamesOne
<1>4. /\ SubSeq(toViewer[v], 1, n) \in Seq(Messages)
      /\ Items(SubSeq(toViewer[v], 1, n)) \subseteq Items(toViewer[v])
      /\ SubSeq(toViewer[v], 1, n) # <<>>
  BY <1>3, ItemsSubSeq
<1>5. /\ SubSeq(toViewer[v], n + 1, Len(toViewer[v])) \in Seq(Messages)
      /\ Items(SubSeq(toViewer[v], n + 1, Len(toViewer[v]))) \subseteq Items(toViewer[v])
  BY <1>3, ItemsSubSeq
<1>6. /\ read \in Seq(Messages) /\ read # <<>>
      /\ Items(read) \subseteq Items(vbuffer[v]) \cup Items(toViewer[v])
  BY <1>3, <1>4, ItemsConcat, ConcatNotEmpty
<1>7. /\ m \in Messages /\ m \in Items(read)
      /\ Tail(read) \in Seq(Messages) /\ Items(Tail(read)) \subseteq Items(read)
  BY <1>6, ItemsHeadTail
<1>8. AddsOne(m) /\ m.cams \in SUBSET Cams
  BY <1>3, <1>6, <1>7 DEF Messages
<1>9. /\ vbuffer' = [vbuffer EXCEPT ![v] = Tail(read)]
      /\ cut' = [cut EXCEPT ![v] = Tail(read) # <<>>]
      /\ toViewer' = [toViewer EXCEPT ![v] = SubSeq(toViewer[v], n + 1, Len(toViewer[v]))]
  BY <1>1
<1>10. /\ vbuffer' \in [Viewers -> Seq(Messages)]
       /\ toViewer' \in [Viewers -> Seq(Messages)]
       /\ cut' \in [Viewers -> BOOLEAN]
  BY <1>5, <1>7, <1>9 DEF ViewerTypes
<1>11. AddCamNamesOne'
  <2>1. ASSUME NEW w \in Viewers, NEW x \in Items(toViewer'[w]) \cup Items(vbuffer'[w])
        PROVE  AddsOne(x)
    <3>1. CASE w = v
      BY <1>3, <1>5, <1>6, <1>7, <1>9, <3>1 DEF ViewerTypes
    <3>2. CASE w # v
      BY <1>9, <3>2 DEF AddCamNamesOne
    <3> QED
      BY <3>1, <3>2
  <2> QED
    BY <2>1 DEF AddCamNamesOne
\* What is left is the part the four kinds of messages differ in.
<1>12. SUFFICES /\ toServer' \in [Viewers -> Seq(Requests)]
                /\ camMap' \in [Viewers -> SUBSET (Cams \X Convs)]
                /\ lastConv' \in [Viewers -> Convs]
                /\ ready' \in {ready, ready \cup ({v} \cap clients)}
                /\ \A w \in Viewers : toServer'[w] # toServer[w] => toServer'[w] # <<>>
                /\ ConvsTellCams'
  <2>1. ASSUME /\ toServer' \in [Viewers -> Seq(Requests)]
               /\ camMap' \in [Viewers -> SUBSET (Cams \X Convs)]
               /\ lastConv' \in [Viewers -> Convs]
               /\ ready' \in {ready, ready \cup ({v} \cap clients)}
               /\ \A w \in Viewers : toServer'[w] # toServer[w] => toServer'[w] # <<>>
               /\ ConvsTellCams'
        PROVE  IInv'
    <3>1. RequestTypes' /\ ViewerTypes'
      BY <1>2, <1>10, <2>1 DEF RequestTypes, ViewerTypes
    <3>2. EventTypes'
      BY <1>2, <2>1 DEF EventTypes
    <3>3. EventsOfClients'
      BY <1>2, <2>1 DEF EventsOfClients, Gone
    <3>4. AcceptsClient'
      BY <1>2, <2>1 DEF AcceptsClient, Gone
    <3> QED
      BY <1>2, <1>11, <2>1, <3>1, <3>2, <3>3, <3>4, Frames
  <2> QED
    BY <2>1
<1>13. CASE ViewerCams(v, m)
  <2>1. /\ ConvsTellCams' /\ Enter(v, m.cams) \subseteq Cams \X Convs
        /\ camMap' \in [Viewers -> SUBSET (Cams \X Convs)]
        /\ lastConv' \in [Viewers -> Convs]
    BY <1>2, <1>8, <1>13, DrawKeepsConvs DEF ViewerCams
  <2> QED
    BY <1>13, <2>1, SendFacts DEF ViewerCams
<1>14. CASE ViewerAddCam(v, m)
  <2>1. Cardinality(m.cams) = 1
    BY <1>8, <1>14, FS_Singleton DEF AddsOne, ViewerAddCam
  <2>2. Draw(v, m.cams) \in SUBSET Enter(v, m.cams)
    BY DEF Enter
  <2>3. /\ ConvsTellCams' /\ Enter(v, m.cams) \subseteq Cams \X Convs
        /\ camMap' \in [Viewers -> SUBSET (Cams \X Convs)]
        /\ lastConv' \in [Viewers -> Convs]
    BY <1>2, <1>8, <1>14, <2>1, <2>2, DrawKeepsConvs DEF ViewerAddCam
  <2>4. Draw(v, m.cams) \in SUBSET (Cams \X Convs)
    BY <2>2, <2>3
  <2> QED
    BY <1>14, <2>3, <2>4, SendFacts DEF ViewerAddCam
<1>15. CASE ViewerDelCam(v, m) \/ ViewerIgnore(v, m)
  <2>1. /\ UNCHANGED <<lastConv, toServer, ready>>
        /\ camMap' \in {camMap, [camMap EXCEPT ![v] = {p \in camMap[v] : p[1] \notin m.cams}]}
    BY <1>15 DEF ViewerDelCam, ViewerIgnore
  <2>2. /\ camMap' \in [Viewers -> SUBSET (Cams \X Convs)]
        /\ \A w \in Viewers : camMap'[w] \subseteq camMap[w]
    BY <2>1, ZenonT(40) DEF ViewerTypes
  <2>3. \A w \in Viewers : \A p \in Cams \X Convs : Known(w, p)' => Known(w, p)
    BY <1>2, <2>1, <2>2 DEF Known
  <2> QED
    BY <2>1, <2>2, <2>3, KnownShrinks DEF RequestTypes, ViewerTypes
<1> QED
  BY <1>1, <1>13, <1>14, <1>15

\* Datagrams arrive.
LEMMA AcknowledgeIInv ==
  ASSUME IInv, Acknowledge
  PROVE  IInv'
<1> USE DescriptorsDiffer
    DEF IInv, Types, None, Pairs, lockVars, sessionVars, acceptVars, camVars, netVars,
        viewerVars
<1>1. EventTypes'
  BY DEF Acknowledge, EventTypes
<1>2. EventsOfClients'
  BY DEF Acknowledge, EventsOfClients, Gone
<1>3. AcceptsClient'
  BY DEF Acknowledge, AcceptsClient, AcceptTypes, Gone
<1>4. fault' = fault
  BY DEF Acknowledge
<1> QED
  BY <1>1, <1>2, <1>3, <1>4, Frames DEF Acknowledge

\* A viewer leaves: the last event it makes.
LEMMA LeaveIInv ==
  ASSUME NEW v \in Viewers, IInv, Leave(v)
  PROVE  IInv'
<1> USE DescriptorsDiffer
    DEF IInv, Types, None, Pairs, lockVars, sessionVars, acceptVars, camVars, netVars,
        viewerVars
<1>1. EventTypes'
  BY DEF Leave, EventTypes
<1>2. ViewerTypes'
  <2>1. <<>> \in Seq(Messages)
    OBVIOUS
  <2> QED
    BY <2>1 DEF Leave, ViewerTypes
<1>3. ConnectsOnce'
  BY DEF Leave, ConnectsOnce, ViewerTypes
<1>4. EventsOfClients'
  <2>1. /\ vpc[v] = "on" /\ \A w \in Viewers \ {v} : vpc'[w] = vpc[w]
        /\ ready' = ready \cup ({v} \cap clients) /\ UNCHANGED <<batch, clients, toServer>>
    BY DEF Leave, ViewerTypes
  <2>2. ASSUME NEW w \in Viewers
        PROVE  /\ w \in ready' \cup batch' => w \in clients'
               /\ w \in batch' => toServer'[w] # <<>> \/ (Gone(w)' /\ w \notin ready')
    <3>1. CASE w = v
      BY <2>1, <3>1 DEF EventsOfClients, Gone
    <3>2. CASE w # v
      BY <2>1, <3>2 DEF EventsOfClients, Gone
    <3> QED
      BY <3>1, <3>2
  <2> QED
    BY <2>2 DEF EventsOfClients
<1>5. AcceptsClient'
  <2>1. /\ vpc[v] = "on" /\ \A w \in Viewers \ {v} : vpc'[w] = vpc[w]
        /\ ready' \subseteq ready \cup {v}
        /\ UNCHANGED <<apc, current, clients, request, target, live>>
    BY DEF Leave, ViewerTypes
  <2>2. apc \in {"close", "join"} => current \in Viewers \ {v}
    BY <2>1 DEF AcceptsClient, Gone, LockTypes
  <2>3. apc \in {"close", "join"} => Gone(current)' /\ current \notin ready'
    BY <2>1, <2>2 DEF AcceptsClient, Gone
  <2> QED
    BY <2>1, <2>3 DEF AcceptsClient
<1>6. AddCamNamesOne'
  <2>1. \A w \in Viewers : Items(toViewer'[w]) \subseteq Items(toViewer[w])
    BY ItemsEmpty DEF Leave, ViewerTypes
  <2> QED
    BY <2>1 DEF Leave, AddCamNamesOne
<1>7. fault' = fault
  BY DEF Leave
<1> QED
  BY <1>1, <1>2, <1>3, <1>4, <1>5, <1>6, <1>7, Frames DEF Leave

-----------------------------------------------------------------------------
\* The initial states satisfy the invariant.
LEMMA InitIInv == Init => IInv
<1> SUFFICES ASSUME Init
             PROVE  IInv
  OBVIOUS
<1>0. /\ <<>> \in Seq(Requests) /\ <<>> \in Seq(Messages) /\ Len(<<>>) = 0
      /\ Items(<<>>) = {}
  BY EmptySeq, ItemsEmpty
<1>1. LockTypes /\ EventTypes /\ fault \in Faults
  BY DEF Init, LockTypes, EventTypes, Faults
<1>2. SessionTypes
  BY DEF Init, SessionTypes, Convs
<1>3. AcceptTypes /\ CamTypes
  BY DEF Init, AcceptTypes, CamTypes
<1>4. RequestTypes
  BY <1>0 DEF Init, RequestTypes
<1>5. ViewerTypes
  BY <1>0 DEF Init, ViewerTypes, Convs
<1>6. MtxHolder /\ NaluTarget
  BY DEF Init, MtxHolder, NaluTarget, None
<1>7. KmtxHolder
  BY DEF Init, KmtxHolder, None
<1>8. ConnectsOnce /\ EventsOfClients
  BY DEF Init, ConnectsOnce, EventsOfClients
<1>9. AcceptsClient
  BY DEF Init, AcceptsClient
<1>10. SessionOwner
  BY DEF Init, SessionOwner
<1>11. \A v \in Viewers : \A p \in Cams \X Convs : ~Known(v, p)
  BY <1>0 DEF Init, Known
<1>12. ConvsTellCams
  BY <1>11 DEF ConvsTellCams
<1>13. AddCamNamesOne
  BY <1>0 DEF Init, AddCamNamesOne
<1> QED
  BY <1>1, <1>2, <1>3, <1>4, <1>5, <1>6, <1>7, <1>8, <1>9, <1>10, <1>12, <1>13
     DEF IInv, Types

\* Every step preserves the invariant.
LEMMA NextIInv == IInv /\ [Next]_vars => IInv'
<1> SUFFICES ASSUME IInv, [Next]_vars
             PROVE  IInv'
  OBVIOUS
<1>1. CASE AcceptThread
  BY <1>1, EpollWaitIInv, HandleSetupIInv, BeginMessageIInv, InsertSessionIInv,
     InsertTwiceIInv, StartSessionIInv, MessageDoneIInv,
     CloseJoinIInv, CloseEraseIInv, UdpInputIInv, UdpDoneIInv, AcceptIInv, RecvIInv,
     RecvFailsIInv, BeginCloseIInv, CloseStopIInv, UdpFindIInv
     DEF AcceptThread
<1>2. ASSUME NEW c \in Cams, CamCalls(c) \/ CamThread(c)
      PROVE  IInv'
  BY <1>2, AddCamIInv, RemoveCamIInv, NaluFindIInv, NaluLockIInv, NaluSendIInv,
     RemoveJoinIInv, RemoveDoneIInv, RemoveStopIInv
     DEF CamCalls, CamThread
<1>3. ASSUME NEW s \in Pairs, KcpThread(s)
      PROVE  IInv'
  BY <1>3, KcpTestIInv, KcpUpdateIInv DEF KcpThread
<1>4. ASSUME NEW v \in Viewers, Connect(v) \/ OnReadyRead(v) \/ Leave(v)
      PROVE  IInv'
  BY <1>4, ConnectIInv, OnReadyReadIInv, LeaveIInv
<1>5. CASE Acknowledge
  BY <1>5, AcknowledgeIInv
<1>6. CASE UNCHANGED vars
  BY <1>6, Frames
     DEF IInv, Types, vars, lockVars, sessionVars, acceptVars, camVars, netVars,
         viewerVars
<1> QED
  BY <1>1, <1>2, <1>3, <1>4, <1>5, <1>6 DEF Next

\* So it holds at all times.
LEMMA AlwaysIInv == Spec => []IInv
BY InitIInv, NextIInv, PTL DEF Spec

-----------------------------------------------------------------------------
\* Sessions are sound whatever viewers and cameras do: every update thread has its
\* session and its KCP object, and two sessions of a viewer never share a
\* conversation, so that acknowledgements reach the session they are meant for.
THEOREM SessionsAreSound == Spec => []SessionInv
<1>1. IInv => TypeOK
  BY DEF IInv, Types, TypeOK, LockTypes, SessionTypes, AcceptTypes, RequestTypes,
         CamTypes, EventTypes, ViewerTypes
<1>2. IInv => ThreadHasSession
  BY DEF IInv, SessionOwner, ThreadHasSession, None
<1>3. IInv => ConversationsDiffer
  <2> SUFFICES ASSUME IInv, NEW s \in live, NEW t \in live, s[1] = t[1], conv[s] = conv[t]
               PROVE  s = t
    BY DEF ConversationsDiffer
  <2> DEFINE p == <<s[2], conv[s]>>
             q == <<t[2], conv[t]>>
  <2>1. /\ s \in Viewers \X Cams /\ t \in Viewers \X Cams
        /\ conv[s] \in Convs /\ conv[t] \in Convs
    BY DEF IInv, Types, SessionTypes, Pairs
  <2>2. s = <<s[1], s[2]>> /\ t = <<t[1], t[2]>>
    BY <2>1
  <2>3. Known(s[1], p) /\ Known(s[1], q)
    BY <2>2 DEF Known
  <2>4. p \in Cams \X Convs /\ q \in Cams \X Convs /\ s[1] \in Viewers
    BY <2>1
  <2>5. s[2] = t[2]
    BY <2>3, <2>4 DEF IInv, ConvsTellCams
  <2> QED
    BY <2>2, <2>5
<1>4. IInv => SessionInv
  BY <1>1, <1>2, <1>3 DEF SessionInv
<1> QED
  BY AlwaysIInv, <1>4, PTL

\* The close of a viewer leaves no session and no thread of it behind, although
\* cameras come and go meanwhile.
THEOREM ForgottenIsClean == Spec => []GoneViewerIsClean
<1>1. IInv => GoneViewerIsClean
  BY DEF IInv, SessionOwner, GoneViewerIsClean
<1> QED
  BY AlwaysIInv, <1>1, PTL

\* acceptLoop joins update threads while it holds _mtx; the mutex such a thread
\* may wait for is never held by a removeCam that waits as well.
THEOREM JoinDoesNotDeadlock == Spec => []JoinCannotDeadlock
<1>1. IInv => JoinCannotDeadlock
  <2> SUFFICES ASSUME IInv, apc = "join", kmtx[target] = "cam"
               PROVE  cpc[target[2]] = "sending"
    BY DEF JoinCannotDeadlock
  <2>1. target \in Pairs
    BY DEF IInv, Types, AcceptsClient, SessionTypes
  <2>2. target[2] \in Cams /\ cpc[target[2]] \in {"sending", "join"}
    BY <2>1 DEF IInv, KmtxHolder, Pairs
  <2>3. mtx = "accept"
    BY DEF IInv, MtxHolder
  <2> QED
    BY <2>2, <2>3 DEF IInv, MtxHolder
<1> QED
  BY AlwaysIInv, <1>1, PTL
=============================================================================
