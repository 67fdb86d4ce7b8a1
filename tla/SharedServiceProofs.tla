------------------------- MODULE SharedServiceProofs -------------------------
(***************************************************************************)
(* Proofs about SharedService: what holds for any number of clients and of *)
(* peers without a bridge, any shapes of message and any deaths of server  *)
(* and bridges, and that the service keeps the promise of RequestReply.    *)
(***************************************************************************)
EXTENDS SharedService, SequenceTheorems, TLAPS

Msgs == [from : Clients, n : Nat, form : Forms, id : BOOLEAN, meta : Metas,
         does : Deeds]
Fields == {"up", "open", "m", "whole", "responses"}
Places == {"read", "connect", "send", "wait", "gone"}
InService == pc \in {"receive", "handle", "write"}

(***************************************************************************)
(* What does not depend on the messages: connections have their parts,     *)
(* those in the backlog are open to the server, each once, and so is the   *)
(* one being served; a bridge that reads or is about to connect has none.  *)
(***************************************************************************)
Shaped ==
  /\ DOMAIN conn = Peers
  /\ \A p \in Peers : /\ DOMAIN conn[p] = Fields
                      /\ conn[p].up \in BOOLEAN /\ conn[p].open \in BOOLEAN
  /\ DOMAIN bridge = Clients
  /\ \A c \in Clients : /\ DOMAIN bridge[c] = {"pc", "msg", "legacy"}
                        /\ bridge[c].pc \in Places
  /\ backlog \in Seq(Peers)

\* Nothing yet, or one response.
Short(responses) == responses = <<>> \/ \E r : responses = <<r>>

LEMMA ShortIsShort == ASSUME NEW s, Short(s) PROVE Len(s) <= 1
<1>1. Len(s) = 0 \/ Len(s) = 1
  BY DEF Short
<1>2. 0 <= 1 /\ 1 <= 1
  OBVIOUS
<1> QED BY <1>1, <1>2, Zenon

Served ==
  /\ \A p \in Peers : /\ conn[p].up => conn[p].responses = <<>>
                      /\ Short(conn[p].responses)
  /\ \A i \in 1 .. Len(backlog) : conn[backlog[i]].up
  /\ \A i, j \in 1 .. Len(backlog) : i # j => backlog[i] # backlog[j]
  /\ InService => /\ peer \in Peers /\ conn[peer].up
                  /\ \A i \in 1 .. Len(backlog) : backlog[i] # peer
  /\ \A c \in Clients : bridge[c].pc \in {"read", "connect"} => ~conn[c].up
  /\ pc = "down" => backlog = <<>>

ConnInv == Shaped /\ Served

LEMMA ClientsArePeers == \A c \in Clients : c \in Peers
BY DEF Peers
LEMMA OthersArePeers == \A o \in Others : o \in Peers /\ o \notin Clients
BY PeersAssumption DEF Peers

LEMMA NoConnectionFields ==
  /\ DOMAIN NoConnection = Fields /\ NoConnection.up = FALSE
  /\ NoConnection.open = FALSE /\ NoConnection.responses = <<>>
BY DEF NoConnection, Fields

LEMMA ConnectionFields ==
  ASSUME NEW m, NEW whole
  PROVE  /\ DOMAIN Connection(m, whole) = Fields
         /\ Connection(m, whole).up = TRUE /\ Connection(m, whole).open = TRUE
         /\ Connection(m, whole).responses = <<>> /\ Connection(m, whole).m = m
BY DEF Connection, Fields

LEMMA HungFields ==
  ASSUME NEW k, DOMAIN k = Fields, k.up \in BOOLEAN, k.open \in BOOLEAN
  PROVE  /\ DOMAIN Hung(k) = Fields
         /\ Hung(k).up = k.up /\ Hung(k).open \in BOOLEAN
         /\ Hung(k).up => Hung(k) = k
         /\ Hung(k).responses \in {k.responses, <<>>}
BY NoConnectionFields DEF Hung

LEMMA OneAfterNone == ASSUME NEW r PROVE <<>> \o <<r>> = <<r>>
<1>1. <<r>> \in Seq({r})
  OBVIOUS
<1> QED BY <1>1, ConcatEmptySeq

\* The server sees a peer's leaving only in what it reads or writes.
LEMMA LeftFields ==
  ASSUME Shaped, NEW p \in Peers, conn' = LeftBy(p)
  PROVE  /\ DOMAIN conn' = Peers
         /\ \A q \in Peers :
              /\ DOMAIN conn'[q] = Fields
              /\ conn'[q].up = conn[q].up /\ conn'[q].open \in BOOLEAN
              /\ conn'[q].responses \in {conn[q].responses, <<>>}
              /\ conn'[q].up => conn'[q].m = conn[q].m
              /\ q # p => conn'[q] = conn[q]
<1> DEFINE k == [conn[p] EXCEPT !.open = FALSE]
<1>1. /\ DOMAIN k = Fields /\ k.up = conn[p].up /\ k.open = FALSE
      /\ k.responses = conn[p].responses /\ k.m = conn[p].m
  BY DEF Shaped, Fields
<1>2. conn' = [conn EXCEPT ![p] = Hung(k)]
  BY DEF LeftBy
<1> HIDE DEF k
<1>3. /\ DOMAIN Hung(k) = Fields /\ Hung(k).up = conn[p].up
      /\ Hung(k).open \in BOOLEAN
      /\ Hung(k).responses \in {conn[p].responses, <<>>}
      /\ Hung(k).up => Hung(k).m = conn[p].m
  BY <1>1, HungFields DEF Shaped
<1>4. /\ DOMAIN conn' = Peers /\ conn'[p] = Hung(k)
      /\ \A q \in Peers : q # p => conn'[q] = conn[q]
  BY <1>2 DEF Shaped
<1> QED BY <1>3, <1>4 DEF Shaped

\* Connections of which p's has been answered and closed.
Answered(p, k) ==
  /\ DOMAIN k = Peers
  /\ \A q \in Peers : DOMAIN k[q] = Fields
  /\ k[p].up = FALSE /\ k[p].open \in BOOLEAN /\ Short(k[p].responses)
  /\ \A q \in Peers : q # p => k[q] = conn[q]

\* One response on a connection that has none.
LEMMA RespondedFields ==
  ASSUME Shaped, NEW p \in Peers, NEW r, conn[p].responses = <<>>
  PROVE  /\ Answered(p, Responded(p, <<r>>))
         /\ Responded(p, <<r>>)[p].responses \in {<<r>>, <<>>}
<1> DEFINE after == Responded(p, <<r>>)
           k == [conn[p] EXCEPT !.up = FALSE, !.responses = conn[p].responses \o <<r>>]
<1>1. /\ DOMAIN k = Fields /\ k.up = FALSE /\ k.open = conn[p].open
      /\ k.responses = <<r>>
  BY OneAfterNone DEF Shaped, Fields
<1>2. after = [conn EXCEPT ![p] = Hung(k)]
  BY DEF Responded
<1> HIDE DEF k
<1>3. /\ DOMAIN Hung(k) = Fields /\ Hung(k).up = FALSE
      /\ Hung(k).open \in BOOLEAN /\ Short(Hung(k).responses)
      /\ Hung(k).responses \in {<<r>>, <<>>}
  BY <1>1, HungFields DEF Shaped, Short
<1>4. /\ DOMAIN after = Peers /\ after[p] = Hung(k)
      /\ \A q \in Peers : q # p => after[q] = conn[q]
  BY <1>2 DEF Shaped
<1> HIDE DEF after
<1>5. Answered(p, after)
  BY <1>3, <1>4 DEF Shaped, Answered
<1>6. after[p].responses \in {<<r>>, <<>>}
  BY <1>3, <1>4
<1> QED BY <1>5, <1>6 DEF after

\* A refusal is one response, and an error.
LEMMA OneRefusal ==
  ASSUME NEW p, NEW request \in Requests(p) \ {"post"}
  PROVE  \E r : r.body = "rpc_error" /\
               [i \in DOMAIN Refusals(request) |->
                  [status |-> Refusals(request)[i], body |-> "rpc_error"]] = <<r>>
<1>1. PICK status : Refusals(request) = <<status>>
  <2>1. CASE OwnAnswer(request) = <<>>
    BY <2>1, OneAfterNone DEF Refusals
  <2>2. CASE OwnAnswer(request) # <<>>
    <3>1. PICK status \in Nat : OwnAnswer(request) = <<status>>
      BY <2>2 DEF OwnAnswer
    <3>2. <<status>> \in Seq(Nat)
      OBVIOUS
    <3> QED BY <2>2, <3>1, <3>2, ConcatEmptySeq DEF Refusals
  <2> QED BY <2>1, <2>2
<1> DEFINE r == [status |-> status, body |-> "rpc_error"]
<1>2. [i \in DOMAIN Refusals(request) |->
        [status |-> Refusals(request)[i], body |-> "rpc_error"]] = <<r>>
  BY <1>1
<1> QED BY <1>2

-----------------------------------------------------------------------------
\* The bridges keep their parts, and one that may connect has no connection.
Bridged(c, b) ==
  /\ DOMAIN b = Clients
  /\ \A d \in Clients : /\ DOMAIN b[d] = {"pc", "msg", "legacy"}
                        /\ b[d].pc \in Places
                        /\ d # c => b[d] = bridge[d]

LEMMA GoOnBridges ==
  ASSUME Shaped, NEW c \in Clients, NEW point \in Places, GoOn(c, point)
  PROVE  Bridged(c, bridge') /\ bridge'[c].pc = point /\ bridge'[c].msg = bridge[c].msg
BY DEF Shaped, GoOn, Bridged

LEMMA TellBridges ==
  ASSUME Shaped, NEW c \in Clients, NEW kind, Tell(c, kind)
  PROVE  Bridged(c, bridge') /\ bridge'[c].pc = "read" /\ bridge'[c].msg = NoMessage
<1>1. bridge' = [bridge EXCEPT ![c].pc = "read", ![c].msg = NoMessage]
  BY DEF Tell
<1> QED BY <1>1 DEF Shaped, Bridged, Places

LEMMA ReadBridges ==
  ASSUME Shaped, NEW c \in Clients, BridgeRead(c)
  PROVE  /\ Bridged(c, bridge') /\ bridge'[c].pc = "connect"
         /\ bridge'[c].msg = Head(inbox[c]) /\ bridge[c].pc = "read"
<1>1. bridge' = [bridge EXCEPT ![c].pc = "connect", ![c].msg = Head(inbox[c]),
                   ![c].legacy = @ \/ Head(inbox[c]).form = "initialize"]
  BY DEF BridgeRead
<1> QED BY <1>1 DEF Shaped, Bridged, Places, BridgeRead, BridgeAt

\* A step after which the connections are the same to the server.
LEMMA SameConnections ==
  ASSUME ConnInv, UNCHANGED <<backlog, peer, pc>>,
         DOMAIN conn' = Peers,
         \A q \in Peers : /\ DOMAIN conn'[q] = Fields
                          /\ conn'[q].up = conn[q].up /\ conn'[q].open \in BOOLEAN
                          /\ conn'[q].responses \in {conn[q].responses, <<>>},
         NEW c, Bridged(c, bridge'),
         c \in Clients /\ bridge'[c].pc \in {"read", "connect"} => ~conn[c].up
  PROVE  ConnInv'
<1>1. Shaped'
  BY DEF ConnInv, Shaped, Bridged
<1>2. \A d \in Clients : bridge'[d].pc \in {"read", "connect"} => ~conn'[d].up
  BY ClientsArePeers DEF ConnInv, Served, Bridged
<1>3. \A q \in Peers : /\ conn'[q].up => conn'[q].responses = <<>>
                       /\ Short(conn'[q].responses)
  BY DEF ConnInv, Served, Short
<1>4. \A i \in 1 .. Len(backlog) : backlog[i] \in Peers
  BY DEF ConnInv, Shaped
<1> QED BY <1>1, <1>2, <1>3, <1>4 DEF ConnInv, Served, InService

LEMMA OneMore ==
  ASSUME NEW n \in Nat, NEW i \in 1 .. n + 1
  PROVE  i = n + 1 \/ i \in 1 .. n
OBVIOUS

\* A peer without a connection gets one, at the end of the backlog.
LEMMA NewConnection ==
  ASSUME ConnInv, NEW p \in Peers, ~conn[p].up, NEW m, pc # "down",
         conn' = [conn EXCEPT ![p] = Connection(m, FALSE)],
         backlog' = Append(backlog, p), UNCHANGED <<peer, pc>>,
         Bridged(p, bridge'),
         p \in Clients => bridge'[p].pc \notin {"read", "connect"}
  PROVE  ConnInv'
<1>1. /\ DOMAIN conn' = Peers
      /\ \A q \in Peers : q # p => conn'[q] = conn[q]
      /\ DOMAIN conn'[p] = Fields /\ conn'[p].up = TRUE /\ conn'[p].open = TRUE
      /\ conn'[p].responses = <<>>
  <2>1. /\ DOMAIN conn' = Peers /\ conn'[p] = Connection(m, FALSE)
        /\ \A q \in Peers : q # p => conn'[q] = conn[q]
    BY DEF ConnInv, Shaped
  <2>2. /\ DOMAIN Connection(m, FALSE) = Fields /\ Connection(m, FALSE).up = TRUE
        /\ Connection(m, FALSE).open = TRUE /\ Connection(m, FALSE).responses = <<>>
    BY DEF Connection, Fields
  <2> QED BY <2>1, <2>2
<1>2. /\ backlog' \in Seq(Peers) /\ Len(backlog') = Len(backlog) + 1
      /\ \A i \in 1 .. Len(backlog) : backlog'[i] = backlog[i]
      /\ backlog'[Len(backlog) + 1] = p /\ Len(backlog) \in Nat
      /\ \A i \in 1 .. Len(backlog) : backlog[i] \in Peers /\ backlog[i] # p
  BY DEF ConnInv, Shaped, Served
<1>3. Shaped'
  <2>1. \A q \in Peers : /\ DOMAIN conn'[q] = Fields
                         /\ conn'[q].up \in BOOLEAN /\ conn'[q].open \in BOOLEAN
    BY <1>1 DEF ConnInv, Shaped
  <2> QED BY <1>1, <1>2, <2>1 DEF Shaped, Bridged
<1>4. \A d \in Clients : bridge'[d].pc \in {"read", "connect"} => ~conn'[d].up
  BY <1>1, ClientsArePeers DEF ConnInv, Served, Bridged
<1>5. \A q \in Peers : /\ conn'[q].up => conn'[q].responses = <<>>
                       /\ Short(conn'[q].responses)
  <2> SUFFICES ASSUME NEW q \in Peers
               PROVE  /\ conn'[q].up => conn'[q].responses = <<>>
                      /\ Short(conn'[q].responses)
    OBVIOUS
  <2>1. CASE q = p
    BY <1>1, <2>1 DEF Short
  <2>2. CASE q # p
    BY <1>1, <2>2 DEF ConnInv, Served
  <2> QED BY <2>1, <2>2
<1>6. \A i \in 1 .. Len(backlog') : conn'[backlog'[i]].up
  <2> SUFFICES ASSUME NEW i \in 1 .. Len(backlog) + 1
               PROVE  conn'[backlog'[i]].up
    BY <1>2
  <2>1. CASE i = Len(backlog) + 1
    BY <1>1, <1>2, <2>1
  <2>2. CASE i \in 1 .. Len(backlog)
    BY <1>1, <1>2, <2>2 DEF ConnInv, Served
  <2> QED BY <1>2, <2>1, <2>2, OneMore
<1>7. \A i, j \in 1 .. Len(backlog') : i # j => backlog'[i] # backlog'[j]
  <2> SUFFICES ASSUME NEW i \in 1 .. Len(backlog) + 1,
                      NEW j \in 1 .. Len(backlog) + 1, i # j
               PROVE  backlog'[i] # backlog'[j]
    BY <1>2
  <2>1. CASE i \in 1 .. Len(backlog) /\ j \in 1 .. Len(backlog)
    BY <1>2, <2>1 DEF ConnInv, Served
  <2>2. CASE i = Len(backlog) + 1 /\ j \in 1 .. Len(backlog)
    BY <1>2, <2>2
  <2>3. CASE j = Len(backlog) + 1 /\ i \in 1 .. Len(backlog)
    BY <1>2, <2>3
  <2>4. i = Len(backlog) + 1 \/ i \in 1 .. Len(backlog)
    BY <1>2, OneMore
  <2>5. j = Len(backlog) + 1 \/ j \in 1 .. Len(backlog)
    BY <1>2, OneMore
  <2> QED BY <2>1, <2>2, <2>3, <2>4, <2>5
<1>8. ASSUME InService'
      PROVE  /\ peer' \in Peers /\ conn'[peer'].up
             /\ \A i \in 1 .. Len(backlog') : backlog'[i] # peer'
  <2>1. /\ peer \in Peers /\ conn[peer].up /\ peer # p
        /\ \A i \in 1 .. Len(backlog) : backlog[i] # peer
    BY <1>8 DEF ConnInv, Served, InService
  <2>2. \A i \in 1 .. Len(backlog) + 1 : backlog'[i] # peer
    <3> SUFFICES ASSUME NEW i \in 1 .. Len(backlog) + 1 PROVE backlog'[i] # peer
      OBVIOUS
    <3>1. CASE i = Len(backlog) + 1
      BY <1>2, <2>1, <3>1
    <3>2. CASE i \in 1 .. Len(backlog)
      BY <1>2, <2>1, <3>2
    <3> QED BY <1>2, <3>1, <3>2, OneMore
  <2> QED BY <1>1, <1>2, <2>1, <2>2
<1> QED BY <1>3, <1>4, <1>5, <1>6, <1>7, <1>8 DEF ConnInv, Served

\* The connection that is served is done with, and the server accepts again.
LEMMA DoneWith ==
  ASSUME ConnInv, InService, UNCHANGED <<bridge, backlog>>, pc' = "accept",
         DOMAIN conn' = Peers, DOMAIN conn'[peer] = Fields,
         conn'[peer].up = FALSE, conn'[peer].open \in BOOLEAN,
         Short(conn'[peer].responses),
         \A q \in Peers : q # peer => conn'[q] = conn[q]
  PROVE  ConnInv'
<1>1. \A i \in 1 .. Len(backlog) : backlog[i] \in Peers /\ backlog[i] # peer
  BY DEF ConnInv, Shaped, Served
<1>2. Shaped'
  BY DEF ConnInv, Shaped
<1>3. \A q \in Peers : /\ conn'[q].up => conn'[q].responses = <<>>
                       /\ Short(conn'[q].responses)
  BY DEF ConnInv, Served
<1>4. \A d \in Clients : bridge'[d].pc \in {"read", "connect"} => ~conn'[d].up
  BY ClientsArePeers DEF ConnInv, Served
<1> QED BY <1>1, <1>2, <1>3, <1>4 DEF ConnInv, Served, InService

\* All connections are dropped at once.
LEMMA AllDropped ==
  ASSUME Shaped, NEW k, DOMAIN k = Peers,
         \A p \in Peers : /\ DOMAIN k[p] = Fields /\ k[p].open \in BOOLEAN
                          /\ Short(k[p].responses),
         conn' = Dropped(k)
  PROVE  /\ DOMAIN conn' = Peers
         /\ \A p \in Peers : /\ DOMAIN conn'[p] = Fields /\ conn'[p].up = FALSE
                             /\ conn'[p].open \in BOOLEAN
                             /\ Short(conn'[p].responses)
                             /\ conn'[p].responses \in {k[p].responses, <<>>}
<1> SUFFICES ASSUME NEW p \in Peers
             PROVE  /\ DOMAIN conn'[p] = Fields /\ conn'[p].up = FALSE
                    /\ conn'[p].open \in BOOLEAN /\ Short(conn'[p].responses)
                    /\ conn'[p].responses \in {k[p].responses, <<>>}
  BY DEF Dropped
<1> DEFINE l == [k[p] EXCEPT !.up = FALSE]
<1>1. /\ DOMAIN l = Fields /\ l.up = FALSE /\ l.open \in BOOLEAN
      /\ Short(l.responses) /\ l.responses = k[p].responses
  BY DEF Fields
<1>2. conn'[p] = Hung(l)
  BY DEF Dropped
<1> HIDE DEF l
<1>3. l.up \in BOOLEAN
  BY <1>1
<1>4. Hung(l).responses \in {l.responses, <<>>}
  BY <1>1, <1>3, HungFields
<1>5. Short(Hung(l).responses)
  BY <1>1, <1>4 DEF Short
<1> QED BY <1>1, <1>2, <1>3, <1>4, <1>5, HungFields

LEMMA DeathLeavesNone ==
  ASSUME ConnInv, Die
  PROVE  /\ DOMAIN conn' = Peers
         /\ \A p \in Peers : /\ DOMAIN conn'[p] = Fields /\ conn'[p].up = FALSE
                             /\ conn'[p].open \in BOOLEAN
                             /\ Short(conn'[p].responses)
<1>1. \A p \in Peers : /\ DOMAIN conn[p] = Fields /\ conn[p].open \in BOOLEAN
                       /\ Short(conn[p].responses)
  BY DEF ConnInv, Shaped, Served
<1>2. CASE conn' = Dropped(conn)
  BY <1>1, <1>2, AllDropped DEF ConnInv, Shaped
<1>3. CASE /\ pc = "write"
           /\ conn' = Dropped(Responded(peer, <<[status |-> 200, body |-> "truncated"]>>))
  <2>1. peer \in Peers /\ conn[peer].responses = <<>>
    BY <1>3 DEF ConnInv, Served, InService
  <2>2. PICK r : conn' = Dropped(Responded(peer, <<r>>))
    BY <1>3
  <2>3. PICK k : k = Responded(peer, <<r>>)
    OBVIOUS
  <2>4. Answered(peer, k)
    BY <2>1, <2>3, RespondedFields DEF ConnInv
  <2>5. \A p \in Peers : /\ DOMAIN k[p] = Fields /\ k[p].open \in BOOLEAN
                         /\ Short(k[p].responses)
    BY <1>1, <2>4 DEF Answered
  <2>6. DOMAIN k = Peers
    BY <2>4 DEF ConnInv, Shaped, Answered
  <2>7. conn' = Dropped(k)
    BY <2>2, <2>3
  <2>8. Shaped
    BY DEF ConnInv
  <2> QED BY <2>5, <2>6, <2>7, <2>8, AllDropped
<1> QED BY <1>2, <1>3 DEF Die

LEMMA DeathDrops == ASSUME ConnInv, Die PROVE ConnInv'
<1>1. UNCHANGED bridge /\ backlog' = <<>> /\ pc' = "down"
  BY DEF Die, ServerOnly
<1>2. Shaped'
  <2>1. backlog' \in Seq(Peers)
    BY <1>1
  <2>2. \A p \in Peers : /\ DOMAIN conn'[p] = Fields
                         /\ conn'[p].up \in BOOLEAN /\ conn'[p].open \in BOOLEAN
    BY DeathLeavesNone
  <2> QED BY DeathLeavesNone, <1>1, <2>1, <2>2 DEF ConnInv, Shaped
<1>3. \A d \in Clients : ~conn'[d].up
  BY DeathLeavesNone, ClientsArePeers
<1>4. \A p \in Peers : ~conn'[p].up /\ Short(conn'[p].responses)
  BY DeathLeavesNone
<1>5. backlog' = <<>> /\ Len(backlog') = 0 /\ ~InService'
  BY <1>1 DEF InService
<1>6. \A i \in 1 .. Len(backlog') : FALSE
  BY <1>5
<1>7. Served'
  BY <1>3, <1>4, <1>5, <1>6 DEF Served
<1> QED BY <1>2, <1>7 DEF ConnInv

LEMMA AcceptTakes == ASSUME ConnInv, Accept PROVE ConnInv'
<1>1. /\ backlog \in Seq(Peers) /\ backlog # <<>> /\ peer' = backlog[1]
      /\ backlog' = Tail(backlog) /\ UNCHANGED <<conn, bridge>> /\ pc' = "receive"
  BY DEF ConnInv, Shaped, Accept, ServerOnly
<1>2. /\ backlog' \in Seq(Peers) /\ Len(backlog) \in Nat /\ Len(backlog) > 0
      /\ Len(backlog') = Len(backlog) - 1
      /\ \A i \in 1 .. Len(backlog') : /\ backlog'[i] = backlog[i + 1]
                                       /\ i + 1 \in 1 .. Len(backlog)
  BY <1>1
<1>3. peer' \in Peers /\ 1 \in 1 .. Len(backlog)
  BY <1>1, <1>2
<1>4. Shaped'
  BY <1>1, <1>2 DEF ConnInv, Shaped
<1>5. \A i, j \in 1 .. Len(backlog) : i # j => backlog[i] # backlog[j]
  BY DEF ConnInv, Served
<1>6. \A i, j \in 1 .. Len(backlog') : i # j => backlog'[i] # backlog'[j]
  BY <1>2, <1>5
<1>7. \A i \in 1 .. Len(backlog') : backlog'[i] # peer'
  BY <1>1, <1>2, <1>3, <1>5
<1>8. \A i \in 1 .. Len(backlog') : conn'[backlog'[i]].up
  BY <1>1, <1>2 DEF ConnInv, Served
<1>9. conn'[peer'].up
  BY <1>1, <1>3 DEF ConnInv, Served
<1> QED BY <1>1, <1>3, <1>4, <1>6, <1>7, <1>8, <1>9 DEF ConnInv, Served

LEMMA ReceiveReads == ASSUME ConnInv, Receive PROVE ConnInv'
<1>1. /\ pc = "receive" /\ InService /\ UNCHANGED <<bridge, backlog>>
      /\ peer \in Peers /\ conn[peer].responses = <<>>
  BY DEF Receive, InService, ServerOnly, ConnInv, Served
<1>2. CASE /\ conn' = [conn EXCEPT ![peer] = NoConnection]
           /\ BackToAccept
  <2>1. /\ DOMAIN conn' = Peers /\ conn'[peer] = NoConnection
        /\ \A q \in Peers : q # peer => conn'[q] = conn[q]
    BY <1>1, <1>2 DEF ConnInv, Shaped
  <2>2. /\ DOMAIN conn'[peer] = Fields /\ conn'[peer].up = FALSE
        /\ conn'[peer].open \in BOOLEAN /\ Short(conn'[peer].responses)
    BY <2>1, NoConnectionFields DEF Short
  <2>3. pc' = "accept"
    BY <1>2 DEF BackToAccept
  <2> QED BY <1>1, <2>1, <2>2, <2>3, DoneWith
<1>3. CASE /\ \E request \in Requests(peer) \ {"post"} :
                conn' = Responded(peer, [i \in DOMAIN Refusals(request) |->
                          [status |-> Refusals(request)[i], body |-> "rpc_error"]])
           /\ BackToAccept
  <2>1. PICK request \in Requests(peer) \ {"post"} :
          conn' = Responded(peer, [i \in DOMAIN Refusals(request) |->
                    [status |-> Refusals(request)[i], body |-> "rpc_error"]])
    BY <1>3
  <2>2. PICK r : [i \in DOMAIN Refusals(request) |->
                   [status |-> Refusals(request)[i], body |-> "rpc_error"]] = <<r>>
    BY OneRefusal
  <2>3. conn' = Responded(peer, <<r>>)
    BY <2>1, <2>2
  <2>4. Answered(peer, conn')
    BY <1>1, <2>3, RespondedFields DEF ConnInv
  <2>5. pc' = "accept"
    BY <1>3 DEF BackToAccept
  <2> QED BY <1>1, <2>4, <2>5, DoneWith DEF Answered
<1>4. CASE pc' = "handle" /\ UNCHANGED <<conn, peer>>
  BY <1>1, <1>4 DEF ConnInv, Shaped, Served, InService
<1> QED BY <1>2, <1>3, <1>4 DEF Receive

LEMMA WriteAnswers == ASSUME ConnInv, Write PROVE ConnInv'
<1>1. /\ InService /\ UNCHANGED <<bridge, backlog>> /\ pc' = "accept"
      /\ peer \in Peers /\ conn[peer].responses = <<>>
  BY DEF Write, BackToAccept, InService, ServerOnly, ConnInv, Served
<1>2. PICK r : conn' = Responded(peer, <<r>>)
  BY DEF Write
<1>3. Answered(peer, conn')
  BY <1>1, <1>2, RespondedFields DEF ConnInv
<1> QED BY <1>1, <1>3, DoneWith DEF Answered

\* The connections of all peers but perhaps one are the same.
LEMMA SendMarks ==
  ASSUME Shaped, NEW p \in Peers, conn' = [conn EXCEPT ![p].whole = TRUE]
  PROVE  /\ DOMAIN conn' = Peers
         /\ \A q \in Peers : /\ DOMAIN conn'[q] = Fields
                             /\ conn'[q].up = conn[q].up /\ conn'[q].open \in BOOLEAN
                             /\ conn'[q].responses \in {conn[q].responses, <<>>}
                             /\ conn'[q].m = conn[q].m
<1> DEFINE k == [conn[p] EXCEPT !.whole = TRUE]
<1>1. /\ DOMAIN k = Fields /\ k.up = conn[p].up /\ k.open = conn[p].open
      /\ k.responses = conn[p].responses /\ k.m = conn[p].m
  BY DEF Shaped, Fields
<1>2. /\ DOMAIN conn' = Peers /\ conn'[p] = k
      /\ \A q \in Peers : q # p => conn'[q] = conn[q]
  BY DEF Shaped
<1> HIDE DEF k
<1> QED BY <1>1, <1>2 DEF Shaped

LEMMA BridgeKeeps ==
  ASSUME ConnInv, NEW c \in Clients, BridgeStep(c) \/ BridgeEnds(c) \/ BridgeKilled(c)
  PROVE  ConnInv'
<1>0. c \in Peers /\ Shaped
  BY ClientsArePeers DEF ConnInv
<1>1. CASE BridgeRead(c)
  <2>1. /\ Bridged(c, bridge') /\ bridge[c].pc = "read"
        /\ UNCHANGED <<conn, backlog, peer, pc>>
    BY <1>0, <1>1, ReadBridges DEF BridgeRead, loopVars
  <2>2. ~conn[c].up
    BY <2>1 DEF ConnInv, Served
  <2> QED BY <1>0, <2>1, <2>2, SameConnections DEF Shaped
<1>2. CASE BridgeEnds(c)
  <2>1. /\ Bridged(c, bridge') /\ bridge'[c].pc = "gone"
        /\ UNCHANGED <<conn, backlog, peer, pc>>
    BY <1>0, <1>2, GoOnBridges DEF BridgeEnds, BridgeOnly, loopVars, Places
  <2> QED BY <1>0, <2>1, SameConnections DEF Shaped
<1>3. CASE BridgeKilled(c)
  <2>1. /\ Bridged(c, bridge') /\ bridge'[c].pc = "gone"
        /\ conn' = LeftBy(c) /\ UNCHANGED <<backlog, peer, pc>>
    BY <1>0, <1>3, GoOnBridges DEF BridgeKilled, BridgeOnly, loopVars, Places
  <2> QED BY <1>0, <2>1, LeftFields, SameConnections
<1>4. CASE BridgeConnect(c)
  <2>1. BridgeAt(c, "connect") /\ UNCHANGED <<peer, pc>>
    BY <1>4 DEF BridgeConnect
  <2>2. ~conn[c].up
    BY <2>1 DEF BridgeAt, ConnInv, Served
  <2>3. CASE /\ pc # "down" /\ conn' = [conn EXCEPT ![c] = Connection(Enriched(c), FALSE)]
             /\ backlog' = Append(backlog, c) /\ GoOn(c, "send")
    <3>1. Bridged(c, bridge') /\ bridge'[c].pc = "send"
      BY <1>0, <2>3, GoOnBridges DEF Places
    <3> QED BY <1>0, <2>1, <2>2, <2>3, <3>1, NewConnection
  <2>4. CASE Tell(c, "bridge_error") /\ UNCHANGED <<conn, backlog>>
    <3>1. Bridged(c, bridge')
      BY <1>0, <2>4, TellBridges
    <3> QED BY <1>0, <2>1, <2>2, <2>4, <3>1, SameConnections DEF Shaped
  <2> QED BY <1>4, <2>3, <2>4 DEF BridgeConnect
<1>5. CASE BridgeSend(c)
  <2>1. UNCHANGED <<backlog, peer, pc>>
    BY <1>5 DEF BridgeSend, BridgeOnly, loopVars
  <2>2. CASE conn' = [conn EXCEPT ![c].whole = TRUE] /\ GoOn(c, "wait")
    <3>1. Bridged(c, bridge') /\ bridge'[c].pc = "wait"
      BY <1>0, <2>2, GoOnBridges DEF Places
    <3> QED BY <1>0, <2>1, <2>2, <3>1, SendMarks, SameConnections
  <2>3. CASE ~conn[c].up /\ conn' = LeftBy(c) /\ Tell(c, "bridge_error")
    <3>1. Bridged(c, bridge')
      BY <1>0, <2>3, TellBridges
    <3> QED BY <1>0, <2>1, <2>3, <3>1, LeftFields, SameConnections
  <2>4. CASE ~conn[c].up /\ conn' = LeftBy(c) /\ GoOn(c, "gone")
    <3>1. Bridged(c, bridge')
      BY <1>0, <2>4, GoOnBridges DEF Places
    <3> QED BY <1>0, <2>1, <2>4, <3>1, LeftFields, SameConnections
  <2> QED BY <1>5, <2>2, <2>3, <2>4 DEF BridgeSend
<1>6. CASE BridgeReceive(c)
  <2>1. conn' = LeftBy(c) /\ UNCHANGED <<backlog, peer, pc>>
    BY <1>6 DEF BridgeReceive, BridgeOnly, loopVars
  <2>2. ~conn[c].up
    BY <1>0, <1>6 DEF BridgeReceive, ConnInv, Served
  <2>3. Bridged(c, bridge')
    <3>1. \E kind : Tell(c, kind)
      BY <1>6 DEF BridgeReceive
    <3> QED BY <1>0, <3>1, TellBridges
  <2> QED BY <1>0, <2>1, <2>2, <2>3, LeftFields, SameConnections
<1> QED BY <1>1, <1>2, <1>3, <1>4, <1>5, <1>6 DEF BridgeStep

LEMMA OtherKeeps ==
  ASSUME ConnInv, NEW o \in Others, OtherStep(o)
  PROVE  ConnInv'
<1>1. /\ o \in Peers /\ o \notin Clients /\ Shaped
      /\ UNCHANGED <<bridge, peer, pc>> /\ Bridged(o, bridge')
  BY OthersArePeers DEF ConnInv, OtherStep, OtherConnects, OtherSends, OtherCloses,
     OthersOnly, Bridged, Shaped
<1>2. CASE OtherConnects(o)
  BY <1>1, <1>2, NewConnection DEF OtherConnects
<1>3. CASE OtherSends(o)
  BY <1>1, <1>3, SendMarks, SameConnections DEF OtherSends
<1>4. CASE OtherCloses(o)
  BY <1>1, <1>4, LeftFields, SameConnections DEF OtherCloses
<1> QED BY <1>2, <1>3, <1>4 DEF OtherStep

LEMMA NothingMoves ==
  ASSUME ConnInv, conn' = conn, bridge' = bridge, backlog' = backlog, peer' = peer,
         InService' => InService, pc' = "down" => pc = "down"
  PROVE  ConnInv'
BY DEF ConnInv, Shaped, Served, InService

LEMMA ConnInvHolds ==
  /\ Init => ConnInv
  /\ ConnInv /\ [Next]_vars => ConnInv'
<1>1. ASSUME Init PROVE ConnInv
  <2>1. \A p \in Peers : conn[p] = NoConnection
    BY <1>1 DEF Init
  <2>2. \A c \in Clients : bridge[c] = Idle
    BY <1>1 DEF Init
  <2>3. DOMAIN Idle = {"pc", "msg", "legacy"} /\ Idle.pc \in Places
    BY DEF Idle, Places
  <2>4. Shaped
    <3>1. /\ DOMAIN conn = Peers /\ DOMAIN bridge = Clients /\ backlog = <<>>
      BY <1>1 DEF Init
    <3>2. backlog \in Seq(Peers)
      BY <3>1
    <3>3. \A p \in Peers : /\ DOMAIN conn[p] = Fields
                           /\ conn[p].up \in BOOLEAN /\ conn[p].open \in BOOLEAN
      BY <2>1, NoConnectionFields
    <3> QED BY <2>2, <2>3, <3>1, <3>2, <3>3 DEF Shaped
  <2>5. Served
    BY <1>1, <2>1, NoConnectionFields, ClientsArePeers
    DEF Init, Served, Short, InService
  <2> QED BY <2>4, <2>5 DEF ConnInv
<1>2. ASSUME ConnInv, Next PROVE ConnInv'
  <2>1. CASE \E c \in Clients : BridgeStep(c) \/ BridgeEnds(c) \/ BridgeKilled(c)
    BY <1>2, <2>1, BridgeKeeps
  <2>2. CASE \E c \in Clients, s \in Shapes : Send(c, s)
    <3>1. /\ conn' = conn /\ bridge' = bridge /\ backlog' = backlog /\ peer' = peer
          /\ InService' => InService
          /\ pc' = "down" => pc = "down"
      BY <2>2 DEF Send, loopVars, InService
    <3> QED BY <1>2, <3>1, NothingMoves
  <2>3. CASE \E o \in Others : OtherStep(o)
    BY <1>2, <2>3, OtherKeeps
  <2>4. CASE ServerStep
    <3>1. CASE Handle
      <4>1. /\ conn' = conn /\ bridge' = bridge /\ backlog' = backlog /\ peer' = peer
            /\ InService' => InService
            /\ pc' = "down" => pc = "down"
        BY <3>1 DEF Handle, ServerOnly, InService
      <4> QED BY <1>2, <4>1, NothingMoves
    <3> QED BY <1>2, <2>4, <3>1, AcceptTakes, ReceiveReads, WriteAnswers DEF ServerStep
  <2>5. CASE Die
    BY <1>2, <2>5, DeathDrops
  <2>6. CASE Restart
    <3>1. /\ conn' = conn /\ bridge' = bridge /\ backlog' = backlog /\ peer' = peer
          /\ InService' => InService
          /\ pc' = "down" => pc = "down"
      BY <2>6 DEF Restart, ServerOnly, InService
    <3> QED BY <1>2, <3>1, NothingMoves
  <2> QED BY <1>2, <2>1, <2>2, <2>3, <2>4, <2>5, <2>6 DEF Next, ClientStep
<1>3. ASSUME ConnInv, UNCHANGED vars PROVE ConnInv'
  <2>1. /\ conn' = conn /\ bridge' = bridge /\ backlog' = backlog /\ peer' = peer
        /\ InService' => InService
        /\ pc' = "down" => pc = "down"
    BY <1>3 DEF vars, loopVars, InService
  <2> QED BY <1>3, <2>1, NothingMoves
<1> QED BY <1>1, <1>2, <1>3

LEMMA SpecSteps == Spec => Init /\ [][Next]_vars
BY PTL DEF Spec

(***************************************************************************)
(* No connection is answered twice, whatever is refused, cut off or        *)
(* answered late: what HttpTransport::read and write owe a socket, for any *)
(* number of peers and any deaths.                                         *)
(***************************************************************************)
THEOREM OneAnswer == Spec => []OneResponsePerConnection
<1>1. ConnInv => OneResponsePerConnection
  BY ShortIsShort DEF ConnInv, Served, OneResponsePerConnection
<1> QED BY <1>1, ConnInvHolds, SpecSteps, PTL

-----------------------------------------------------------------------------
LEMMA HandledIsAccounted ==
  ASSUME Handle
  PROVE  desktop' \ ledger' \subseteq desktop \ ledger
<1>1. PICK r : HandleMessage(msg, r)
  BY DEF Handle
<1> QED BY <1>1 DEF HandleMessage, CallTool, Run, ReleaseAll

(***************************************************************************)
(* Only the death of the server leaves something on the desktop that no    *)
(* release_all will let go of, for any messages in any order.              *)
(***************************************************************************)
THEOREM OnlyDeath == Spec => OnlyDeathOrphans
<1>1. [Next]_vars => [desktop' \ ledger' \subseteq desktop \ ledger \/ pc' = "down"]_vars
  <2> SUFFICES ASSUME Next
               PROVE  desktop' \ ledger' \subseteq desktop \ ledger \/ pc' = "down"
    OBVIOUS
  <2>1. CASE Handle
    BY <2>1, HandledIsAccounted
  <2>2. CASE Die
    BY <2>2 DEF Die
  <2>3. CASE UNCHANGED <<desktop, ledger>>
    BY <2>3
  <2> QED BY <2>1, <2>2, <2>3
      DEF Next, BridgeStep, ClientStep, OtherStep, ServerStep, Send, BridgeRead,
          BridgeEnds, BridgeConnect, BridgeSend, BridgeReceive, BridgeKilled,
          BridgeOnly, OtherConnects, OtherSends, OtherCloses, OthersOnly, Accept,
          Receive, Write, Restart, serverVars
<1> QED BY <1>1, SpecSteps, PTL DEF OnlyDeathOrphans
-----------------------------------------------------------------------------
(***************************************************************************)
(* Why no call is run twice: messages are numbered in the order they are   *)
(* sent; a bridge reads them in that order and holds one at a time; one    *)
(* that it is about to post, or has posted on a connection the server has  *)
(* not handled, has not been run.                                          *)
(***************************************************************************)
Last(c) == sent[c] - Len(inbox[c])

Numbered ==
  /\ DOMAIN sent = Clients /\ DOMAIN inbox = Clients
  /\ \A c \in Clients :
       /\ sent[c] \in Nat /\ inbox[c] \in Seq(Msgs) /\ Last(c) \in Nat
       /\ \A i \in 1 .. Len(inbox[c]) : /\ inbox[c][i].from = c
                                        /\ inbox[c][i].n = Last(c) + i

Ran(done, e) == \E i \in 1 .. Len(done) : done[i] = e
Fresh(c, m, last, done) ==
  m \in Msgs /\ m.from = c /\ m.n <= last /\ ~Ran(done, <<c, m.n>>)

RunOnce ==
  /\ performed \in Seq(Clients \X Nat)
  /\ \A c \in Clients, n \in Nat : Ran(performed, <<c, n>>) => n <= Last(c)
  /\ \A i, j \in 1 .. Len(performed) : performed[i] = performed[j] => i = j

Unhandled(c) == conn[c].up /\ ~(peer = c /\ pc = "write")
Held ==
  /\ \A c \in Clients :
       /\ bridge[c].pc = "connect" => Fresh(c, bridge[c].msg, Last(c), performed)
       /\ Unhandled(c) => Fresh(c, conn[c].m, Last(c), performed)
  /\ pc = "handle" => peer \in Clients /\ msg = conn[peer].m

CallInv == ConnInv /\ Numbered /\ RunOnce /\ Held

LEMMA SentMessages ==
  ASSUME NEW c \in Clients, NEW n \in Nat, NEW s \in Shapes
  PROVE  Message(c, n, s) \in Msgs /\ Message(c, n, s).from = c /\ Message(c, n, s).n = n
BY ShapesAssumption DEF Message, Msgs

LEMMA EnrichedFields ==
  ASSUME NEW c \in Clients, bridge[c].msg \in Msgs
  PROVE  /\ Enriched(c) \in Msgs /\ Enriched(c).from = bridge[c].msg.from
         /\ Enriched(c).n = bridge[c].msg.n /\ Enriched(c).form = bridge[c].msg.form
<1> DEFINE m == bridge[c].msg
<1>1. /\ [m EXCEPT !.meta = "modern"] \in Msgs
      /\ [m EXCEPT !.meta = "modern"].from = m.from
      /\ [m EXCEPT !.meta = "modern"].n = m.n
      /\ [m EXCEPT !.meta = "modern"].form = m.form
  BY DEF Msgs, Metas
<1>2. Enriched(c) \in {m, [m EXCEPT !.meta = "modern"]}
  BY DEF Enriched
<1> QED BY <1>1, <1>2

\* A step in which nothing is sent, read from a pipe or run.
LEMMA NothingRun ==
  ASSUME CallInv, ConnInv', UNCHANGED <<clientVars, performed>>,
         \A c \in Clients : /\ bridge'[c].pc = "connect" => bridge'[c] = bridge[c]
                            /\ Unhandled(c)' => \/ Unhandled(c) /\ conn'[c].m = conn[c].m
                                                \/ Fresh(c, conn'[c].m, Last(c), performed),
         pc' = "handle" => peer' \in Clients /\ msg' = conn'[peer'].m
  PROVE  CallInv'
<1>1. \A c \in Clients : Last(c)' = Last(c)
  BY DEF Last, clientVars
<1>2. sent' = sent /\ inbox' = inbox /\ performed' = performed
  BY DEF clientVars
<1>3. Numbered'
  BY <1>1, <1>2 DEF CallInv, Numbered
<1>4. RunOnce'
  BY <1>1, <1>2 DEF CallInv, RunOnce
<1>5. \A c \in Clients : /\ bridge'[c].pc = "connect"
                              => Fresh(c, bridge'[c].msg, Last(c), performed)
                         /\ Unhandled(c)' => Fresh(c, conn'[c].m, Last(c), performed)
  BY DEF CallInv, Held
<1>6. Held'
  BY <1>1, <1>2, <1>5 DEF Held
<1> QED BY <1>3, <1>4, <1>6 DEF CallInv

LEMMA SendCalls ==
  ASSUME CallInv, ConnInv', NEW c \in Clients, NEW s \in Shapes, Send(c, s)
  PROVE  CallInv'
<1> DEFINE m == Message(c, sent[c] + 1, s)
<1>1. /\ sent' = [sent EXCEPT ![c] = sent[c] + 1]
      /\ inbox' = [inbox EXCEPT ![c] = Append(inbox[c], m)]
      /\ UNCHANGED <<performed, bridge, conn, peer, pc, msg>>
  BY DEF Send, serverVars, loopVars
<1>2. /\ sent[c] \in Nat /\ inbox[c] \in Seq(Msgs) /\ Last(c) \in Nat
      /\ Len(inbox[c]) \in Nat /\ Last(c) = sent[c] - Len(inbox[c])
  BY DEF CallInv, Numbered, Last
<1>3. m \in Msgs /\ m.from = c /\ m.n = Last(c) + (Len(inbox[c]) + 1)
  <2>1. m \in Msgs /\ m.from = c /\ m.n = sent[c] + 1
    BY <1>2, SentMessages
  <2> HIDE DEF m
  <2> QED BY <1>2, <2>1
<1> HIDE DEF m
<1>4. /\ inbox'[c] \in Seq(Msgs) /\ Len(inbox'[c]) = Len(inbox[c]) + 1
      /\ \A i \in 1 .. Len(inbox[c]) : inbox'[c][i] = inbox[c][i]
      /\ inbox'[c][Len(inbox[c]) + 1] = m
  BY <1>1, <1>2, <1>3 DEF CallInv, Numbered
<1>5. Last(c)' = Last(c) /\ sent'[c] \in Nat
  BY <1>1, <1>2, <1>4 DEF Last, CallInv, Numbered
<1>6. \A d \in Clients : d # c => /\ sent'[d] = sent[d] /\ inbox'[d] = inbox[d]
                                  /\ Last(d)' = Last(d)
  BY <1>1 DEF Last, CallInv, Numbered
<1>7. \A d \in Clients : Last(d)' = Last(d)
  BY <1>5, <1>6
<1>8. \A i \in 1 .. Len(inbox'[c]) : /\ inbox'[c][i].from = c
                                     /\ inbox'[c][i].n = Last(c) + i
  <2> SUFFICES ASSUME NEW i \in 1 .. Len(inbox[c]) + 1
               PROVE  inbox'[c][i].from = c /\ inbox'[c][i].n = Last(c) + i
    BY <1>4
  <2>1. CASE i = Len(inbox[c]) + 1
    BY <1>3, <1>4, <2>1
  <2>2. CASE i \in 1 .. Len(inbox[c])
    BY <1>4, <2>2 DEF CallInv, Numbered
  <2> QED BY <1>2, <2>1, <2>2, OneMore
<1>9. Numbered'
  <2>1. \A d \in Clients :
          /\ sent'[d] \in Nat /\ inbox'[d] \in Seq(Msgs) /\ Last(d)' \in Nat
          /\ \A i \in 1 .. Len(inbox'[d]) : /\ inbox'[d][i].from = d
                                            /\ inbox'[d][i].n = Last(d)' + i
    <3> SUFFICES ASSUME NEW d \in Clients
                 PROVE  /\ sent'[d] \in Nat /\ inbox'[d] \in Seq(Msgs) /\ Last(d)' \in Nat
                        /\ \A i \in 1 .. Len(inbox'[d]) : /\ inbox'[d][i].from = d
                                                          /\ inbox'[d][i].n = Last(d)' + i
      OBVIOUS
    <3>1. CASE d = c
      BY <1>2, <1>4, <1>5, <1>8, <3>1
    <3>2. CASE d # c
      BY <1>6, <3>2 DEF CallInv, Numbered
    <3> QED BY <3>1, <3>2
  <2>2. DOMAIN sent' = Clients /\ DOMAIN inbox' = Clients
    BY <1>1 DEF CallInv, Numbered
  <2> QED BY <2>1, <2>2 DEF Numbered
<1>10. RunOnce'
  BY <1>1, <1>7 DEF CallInv, RunOnce
<1>11. Held'
  BY <1>1, <1>7 DEF CallInv, Held, Unhandled
<1> QED BY <1>9, <1>10, <1>11 DEF CallInv

LEMMA ReadCalls ==
  ASSUME CallInv, ConnInv', NEW c \in Clients, BridgeRead(c)
  PROVE  CallInv'
<1>1. /\ inbox' = [inbox EXCEPT ![c] = Tail(inbox[c])] /\ inbox[c] # <<>>
      /\ UNCHANGED <<sent, performed, conn, peer, pc, msg>>
  BY DEF BridgeRead, serverVars, loopVars
<1>2. /\ sent[c] \in Nat /\ inbox[c] \in Seq(Msgs) /\ Last(c) \in Nat
      /\ Len(inbox[c]) \in Nat /\ Last(c) = sent[c] - Len(inbox[c])
      /\ Len(inbox[c]) > 0
  BY <1>1 DEF CallInv, Numbered, Last
<1>3. /\ inbox'[c] = Tail(inbox[c]) /\ inbox'[c] \in Seq(Msgs)
      /\ Len(inbox'[c]) = Len(inbox[c]) - 1
      /\ \A i \in 1 .. Len(inbox'[c]) : /\ inbox'[c][i] = inbox[c][i + 1]
                                        /\ i + 1 \in 1 .. Len(inbox[c])
  BY <1>1, <1>2 DEF CallInv, Numbered
<1>4. Last(c)' = Last(c) + 1 /\ Last(c)' \in Nat
  BY <1>1, <1>2, <1>3 DEF Last
<1>5. \A d \in Clients : d # c => inbox'[d] = inbox[d] /\ Last(d)' = Last(d)
  BY <1>1 DEF Last, CallInv, Numbered
<1>6. \A d \in Clients : Last(d) \in Nat /\ Last(d)' \in Nat /\ Last(d) <= Last(d)'
  <2> SUFFICES ASSUME NEW d \in Clients
               PROVE  Last(d) \in Nat /\ Last(d)' \in Nat /\ Last(d) <= Last(d)'
    OBVIOUS
  <2>1. Last(d) \in Nat
    BY DEF CallInv, Numbered
  <2>2. CASE d = c
    BY <1>4, <2>1, <2>2
  <2>3. CASE d # c
    BY <1>5, <2>1, <2>3
  <2> QED BY <2>1, <2>2, <2>3
<1>7. Numbered'
  <2>1. \A d \in Clients :
          /\ sent'[d] \in Nat /\ inbox'[d] \in Seq(Msgs) /\ Last(d)' \in Nat
          /\ \A i \in 1 .. Len(inbox'[d]) : /\ inbox'[d][i].from = d
                                            /\ inbox'[d][i].n = Last(d)' + i
    <3> SUFFICES ASSUME NEW d \in Clients
                 PROVE  /\ sent'[d] \in Nat /\ inbox'[d] \in Seq(Msgs) /\ Last(d)' \in Nat
                        /\ \A i \in 1 .. Len(inbox'[d]) : /\ inbox'[d][i].from = d
                                                          /\ inbox'[d][i].n = Last(d)' + i
      OBVIOUS
    <3>1. CASE d = c
      <4>1. \A i \in 1 .. Len(inbox[c]) : /\ inbox[c][i].from = c
                                          /\ inbox[c][i].n = Last(c) + i
        BY DEF CallInv, Numbered
      <4>2. \A i \in 1 .. Len(inbox'[c]) : /\ inbox'[c][i].from = c
                                           /\ inbox'[c][i].n = Last(c) + (i + 1)
        BY <1>3, <4>1
      <4>3. \A i \in 1 .. Len(inbox'[c]) : inbox'[c][i].n = Last(c)' + i
        BY <1>2, <1>4, <4>2
      <4>4. sent'[c] \in Nat
        BY <1>1, <1>2
      <4> QED BY <1>3, <1>4, <3>1, <4>2, <4>3, <4>4
    <3>2. CASE d # c
      BY <1>1, <1>5, <3>2 DEF CallInv, Numbered
    <3> QED BY <3>1, <3>2
  <2>2. DOMAIN sent' = Clients /\ DOMAIN inbox' = Clients
    BY <1>1 DEF CallInv, Numbered
  <2> QED BY <2>1, <2>2 DEF Numbered
<1>8. RunOnce'
  <2>1. \A d \in Clients, n \in Nat : Ran(performed, <<d, n>>) => n <= Last(d)
    BY DEF CallInv, RunOnce
  <2>2. \A d \in Clients, n \in Nat : Ran(performed', <<d, n>>) => n <= Last(d)'
    BY <1>1, <1>6, <2>1
  <2> QED BY <1>1, <2>2 DEF CallInv, RunOnce
<1>9. \A d \in Clients : \A m : Fresh(d, m, Last(d), performed)
                                 => Fresh(d, m, Last(d)', performed')
  <2>1. \A m \in Msgs : m.n \in Nat
    BY DEF Msgs
  <2> QED BY <1>1, <1>6, <2>1 DEF Fresh
<1>10. Bridged(c, bridge') /\ bridge'[c].msg = Head(inbox[c])
  BY ReadBridges DEF CallInv, ConnInv
<1>11. Fresh(c, Head(inbox[c]), Last(c)', performed')
  <2> DEFINE m == Head(inbox[c])
  <2>1. m = inbox[c][1] /\ 1 \in 1 .. Len(inbox[c])
    BY <1>1, <1>2
  <2>2. m \in Msgs /\ m.from = c /\ m.n = Last(c) + 1
    BY <1>2, <2>1 DEF CallInv, Numbered
  <2> HIDE DEF m
  <2>3. ~Ran(performed, <<c, m.n>>)
    <3>1. m.n \in Nat /\ ~(m.n <= Last(c))
      BY <1>2, <2>2
    <3> QED BY <3>1 DEF CallInv, RunOnce
  <2>4. m.n <= Last(c)'
    BY <1>2, <1>4, <2>2
  <2>5. Fresh(c, m, Last(c)', performed')
    BY <1>1, <2>2, <2>3, <2>4 DEF Fresh
  <2> QED BY <2>5 DEF m
<1>12. Held'
  <2>1. \A d \in Clients : bridge'[d].pc = "connect"
                             => Fresh(d, bridge'[d].msg, Last(d)', performed')
    BY <1>9, <1>10, <1>11 DEF Bridged, CallInv, Held
  <2>2. \A d \in Clients : Unhandled(d)' => Fresh(d, conn'[d].m, Last(d)', performed')
    BY <1>1, <1>9 DEF CallInv, Held, Unhandled
  <2> QED BY <1>1, <2>1, <2>2 DEF CallInv, Held
<1> QED BY <1>7, <1>8, <1>12 DEF CallInv
LEMMA HandleCalls ==
  ASSUME CallInv, ConnInv', Handle
  PROVE  CallInv'
<1> DEFINE e == <<msg.from, msg.n>>
<1>1. /\ pc = "handle" /\ pc' = "write" /\ msg' = NoMessage
      /\ UNCHANGED <<sent, inbox, bridge, conn, peer>>
  BY DEF Handle, ServerOnly, clientVars
<1>2. peer \in Clients /\ msg = conn[peer].m /\ conn[peer].up /\ peer \in Peers
  BY <1>1 DEF CallInv, Held, ConnInv, Served, InService
<1>3. Unhandled(peer)
  BY <1>1, <1>2 DEF Unhandled
<1>4. Fresh(peer, msg, Last(peer), performed)
  BY <1>2, <1>3 DEF CallInv, Held
<1>5. /\ msg.from = peer /\ msg.n \in Nat /\ msg.n <= Last(peer)
      /\ ~Ran(performed, e) /\ e = <<peer, msg.n>> /\ e \in Clients \X Nat
  BY <1>2, <1>4 DEF Fresh, Msgs
<1>6. performed' \in {performed, Append(performed, e)}
  <2>1. PICK r : HandleMessage(msg, r)
    BY DEF Handle
  <2> QED BY <2>1 DEF HandleMessage, CallTool, Run
<1>7. \A c \in Clients : Last(c)' = Last(c)
  BY <1>1 DEF Last
<1>8. performed \in Seq(Clients \X Nat) /\ Len(performed) \in Nat
  BY DEF CallInv, RunOnce
<1> HIDE DEF e
<1>9. /\ performed' \in Seq(Clients \X Nat)
      /\ \A x : Ran(performed', x) => Ran(performed, x) \/ x = e
  <2>1. CASE performed' = performed
    BY <1>8, <2>1
  <2>2. CASE performed' = Append(performed, e)
    <3>1. /\ performed' \in Seq(Clients \X Nat)
          /\ Len(performed') = Len(performed) + 1
          /\ \A i \in 1 .. Len(performed) : performed'[i] = performed[i]
          /\ performed'[Len(performed) + 1] = e
      BY <1>5, <1>8, <2>2
    <3>2. ASSUME NEW i \in 1 .. Len(performed')
          PROVE  (\E j \in 1 .. Len(performed) : performed'[i] = performed[j])
                   \/ performed'[i] = e
      BY <1>8, <3>1, OneMore
    <3> QED BY <3>1, <3>2 DEF Ran
  <2> QED BY <1>6, <2>1, <2>2
<1>10. \A i, j \in 1 .. Len(performed') : performed'[i] = performed'[j] => i = j
  <2>1. \A i, j \in 1 .. Len(performed) : performed[i] = performed[j] => i = j
    BY DEF CallInv, RunOnce
  <2>2. CASE performed' = performed
    BY <2>1, <2>2
  <2>3. CASE performed' = Append(performed, e)
    <3>1. /\ Len(performed') = Len(performed) + 1
          /\ \A i \in 1 .. Len(performed) : performed'[i] = performed[i]
          /\ performed'[Len(performed) + 1] = e
      BY <1>5, <1>8, <2>3
    <3>2. \A i \in 1 .. Len(performed) : performed[i] # e
      BY <1>5 DEF Ran
    <3> SUFFICES ASSUME NEW i \in 1 .. Len(performed) + 1,
                        NEW j \in 1 .. Len(performed) + 1,
                        performed'[i] = performed'[j]
                 PROVE  i = j
      BY <3>1
    <3>3. i = Len(performed) + 1 \/ i \in 1 .. Len(performed)
      BY <1>8, OneMore
    <3>4. j = Len(performed) + 1 \/ j \in 1 .. Len(performed)
      BY <1>8, OneMore
    <3> QED BY <2>1, <3>1, <3>2, <3>3, <3>4
  <2> QED BY <1>6, <2>2, <2>3
<1>11. RunOnce'
  <2>1. \A c \in Clients, n \in Nat : <<c, n>> = e => n <= Last(c)
    BY <1>5
  <2>2. \A c \in Clients, n \in Nat : Ran(performed', <<c, n>>) => n <= Last(c)'
    BY <1>7, <1>9, <2>1 DEF CallInv, RunOnce
  <2> QED BY <1>9, <1>10, <2>2 DEF RunOnce
<1>12. Numbered'
  BY <1>1, <1>7 DEF CallInv, Numbered
<1>13. \A c \in Clients : \A m : c # peer /\ Fresh(c, m, Last(c), performed)
                                    => Fresh(c, m, Last(c)', performed')
  <2>1. \A c, n : c # peer => <<c, n>> # e
    BY <1>5
  <2> QED BY <1>7, <1>9, <2>1 DEF Fresh
<1>14. Held'
  <2>1. bridge[peer].pc # "connect"
    BY <1>2 DEF CallInv, ConnInv, Served
  <2>2. \A c \in Clients : bridge'[c].pc = "connect"
                             => Fresh(c, bridge'[c].msg, Last(c)', performed')
    BY <1>1, <1>13, <2>1 DEF CallInv, Held
  <2>3. \A c \in Clients : Unhandled(c)' => Unhandled(c) /\ c # peer
    BY <1>1 DEF Unhandled
  <2>4. \A c \in Clients : Unhandled(c)' => Fresh(c, conn'[c].m, Last(c)', performed')
    BY <1>1, <1>13, <2>3 DEF CallInv, Held
  <2> QED BY <1>1, <2>2, <2>4 DEF Held
<1> QED BY <1>11, <1>12, <1>14 DEF CallInv

\* A bridge that goes on, or leaves, posts what it holds or nothing.
LEMMA BridgeCalls ==
  ASSUME CallInv, ConnInv', NEW c \in Clients,
         \/ BridgeEnds(c) \/ BridgeKilled(c) \/ BridgeConnect(c)
         \/ BridgeSend(c) \/ BridgeReceive(c)
  PROVE  CallInv'
<1>1. UNCHANGED <<clientVars, performed, peer, pc, msg>>
  BY DEF BridgeEnds, BridgeKilled, BridgeConnect, BridgeSend, BridgeReceive,
     BridgeOnly, serverVars, loopVars
<1>2. /\ Bridged(c, bridge') /\ bridge'[c].pc # "connect"
  <2>1. CASE \E point \in Places \ {"connect"} : GoOn(c, point)
    BY <2>1, GoOnBridges DEF CallInv, ConnInv
  <2>2. CASE \E kind : Tell(c, kind)
    BY <2>2, TellBridges DEF CallInv, ConnInv
  <2> QED BY <2>1, <2>2 DEF BridgeEnds, BridgeKilled, BridgeConnect, BridgeSend,
            BridgeReceive, Places
<1>3. \A d \in Clients : bridge'[d].pc = "connect" => bridge'[d] = bridge[d]
  BY <1>2 DEF Bridged
<1>4. c \in Peers /\ Shaped
  BY ClientsArePeers DEF CallInv, ConnInv
<1>5. \/ conn' = conn \/ conn' = LeftBy(c) \/ conn' = [conn EXCEPT ![c].whole = TRUE]
      \/ BridgeConnect(c) /\ conn' = [conn EXCEPT ![c] = Connection(Enriched(c), FALSE)]
  BY DEF BridgeEnds, BridgeKilled, BridgeConnect, BridgeSend, BridgeReceive
<1>6. CASE \A q \in Peers : conn'[q].up => conn[q].up /\ conn'[q].m = conn[q].m
  <2>1. \A d \in Clients : Unhandled(d)' => Unhandled(d) /\ conn'[d].m = conn[d].m
    BY <1>1, <1>6, ClientsArePeers DEF Unhandled
  <2>2. pc' = "handle" => peer' \in Clients /\ msg' = conn'[peer'].m
    <3> SUFFICES ASSUME pc' = "handle"
                 PROVE  peer' \in Clients /\ msg' = conn'[peer'].m
      OBVIOUS
    <3>1. peer \in Clients /\ msg = conn[peer].m
      BY <1>1 DEF CallInv, Held
    <3>2. peer' \in Peers /\ conn'[peer'].up
      BY DEF ConnInv, Served, InService
    <3> QED BY <1>1, <1>6, <3>1, <3>2
  <2> QED BY <1>1, <1>3, <2>1, <2>2, NothingRun
<1>7. CASE /\ BridgeConnect(c)
           /\ conn' = [conn EXCEPT ![c] = Connection(Enriched(c), FALSE)]
  <2>1. bridge[c].pc = "connect" /\ ~conn[c].up
    BY <1>7 DEF BridgeConnect, BridgeAt, CallInv, ConnInv, Served
  <2>2. Fresh(c, bridge[c].msg, Last(c), performed)
    BY <2>1 DEF CallInv, Held
  <2>3. bridge[c].msg \in Msgs
    BY <2>2 DEF Fresh
  <2>4. Fresh(c, Enriched(c), Last(c), performed)
    BY <2>2, <2>3, EnrichedFields DEF Fresh
  <2>5. conn'[c].m = Enriched(c) /\ \A d \in Clients : d # c => conn'[d] = conn[d]
    <3>1. Connection(Enriched(c), FALSE).m = Enriched(c)
      BY ConnectionFields
    <3> QED BY <1>4, <1>7, <3>1, ClientsArePeers DEF Shaped
  <2>6. \A d \in Clients : Unhandled(d)' => \/ Unhandled(d) /\ conn'[d].m = conn[d].m
                                            \/ Fresh(d, conn'[d].m, Last(d), performed)
    BY <1>1, <2>4, <2>5 DEF Unhandled
  <2>7. pc' = "handle" => peer' \in Clients /\ msg' = conn'[peer'].m
    BY <1>1, <2>1, <2>5 DEF CallInv, Held, ConnInv, Served, InService
  <2> QED BY <1>1, <1>3, <2>6, <2>7, NothingRun
<1>8. CASE conn' = conn
  BY <1>6, <1>8
<1>9. CASE conn' = LeftBy(c)
  BY <1>4, <1>6, <1>9, LeftFields
<1>10. CASE conn' = [conn EXCEPT ![c].whole = TRUE]
  BY <1>4, <1>6, <1>10, SendMarks
<1> QED BY <1>5, <1>7, <1>8, <1>9, <1>10

\* What the others do with connections adds no message to run.
LEMMA OtherCalls ==
  ASSUME CallInv, ConnInv', NEW o \in Others, OtherStep(o)
  PROVE  CallInv'
<1>1. /\ UNCHANGED <<clientVars, performed, bridge, peer, pc, msg>>
      /\ o \in Peers /\ o \notin Clients /\ Shaped
  BY OthersArePeers DEF OtherStep, OtherConnects, OtherSends, OtherCloses, OthersOnly,
     serverVars, CallInv, ConnInv
<1>2. \A c \in Clients : conn'[c].up = conn[c].up
                           /\ (conn'[c].up => conn'[c].m = conn[c].m)
  <2>1. CASE OtherConnects(o)
    BY <1>1, <2>1, ClientsArePeers DEF OtherConnects, Shaped
  <2>2. CASE OtherSends(o)
    BY <1>1, <2>2, SendMarks, ClientsArePeers DEF OtherSends
  <2>3. CASE OtherCloses(o)
    BY <1>1, <2>3, LeftFields, ClientsArePeers DEF OtherCloses
  <2> QED BY <2>1, <2>2, <2>3 DEF OtherStep
<1>3. \A c \in Clients : Unhandled(c)' => Unhandled(c) /\ conn'[c].m = conn[c].m
  BY <1>1, <1>2 DEF Unhandled
<1>4. pc' = "handle" => peer' \in Clients /\ msg' = conn'[peer'].m
  BY <1>1, <1>2 DEF CallInv, Held, ConnInv, Served, InService
<1> QED BY <1>1, <1>3, <1>4, NothingRun

\* Nor do the steps of the server but for Handle.
LEMMA ServerCalls ==
  ASSUME CallInv, ConnInv', Accept \/ Receive \/ Write \/ Die \/ Restart
  PROVE  CallInv'
<1>1. UNCHANGED <<clientVars, performed, bridge>> /\ Shaped
  BY DEF Accept, Receive, Write, Die, Restart, ServerOnly, serverVars, CallInv, ConnInv
<1>2. CASE conn' = conn /\ pc # "write" /\ pc' # "handle"
  <2>1. \A c \in Clients : Unhandled(c)' => Unhandled(c) /\ conn'[c].m = conn[c].m
    BY <1>2 DEF Unhandled
  <2> QED BY <1>1, <1>2, <2>1, NothingRun
<1>3. CASE pc' # "handle" /\ \A c \in Clients : ~conn'[c].up
  BY <1>1, <1>3, NothingRun DEF Unhandled
<1>4. CASE /\ InService /\ pc' = "accept" /\ ~conn'[peer].up
           /\ \A q \in Peers : q # peer => conn'[q] = conn[q]
  <2>1. \A c \in Clients : Unhandled(c)' => Unhandled(c) /\ conn'[c].m = conn[c].m
    BY <1>4, ClientsArePeers DEF Unhandled
  <2> QED BY <1>1, <1>4, <2>1, NothingRun
<1>5. CASE Receive
  <2>1. /\ pc = "receive" /\ InService /\ peer \in Peers /\ conn[peer].responses = <<>>
    BY <1>5 DEF Receive, InService, CallInv, ConnInv, Served
  <2>2. CASE conn' = [conn EXCEPT ![peer] = NoConnection] /\ pc' = "accept"
    BY <1>1, <1>4, <2>1, <2>2, NoConnectionFields DEF Shaped
  <2>3. CASE /\ \E request \in Requests(peer) \ {"post"} :
                  conn' = Responded(peer, [i \in DOMAIN Refusals(request) |->
                            [status |-> Refusals(request)[i], body |-> "rpc_error"]])
             /\ pc' = "accept"
    <3>1. PICK request \in Requests(peer) \ {"post"} :
            conn' = Responded(peer, [i \in DOMAIN Refusals(request) |->
                      [status |-> Refusals(request)[i], body |-> "rpc_error"]])
      BY <2>3
    <3>2. PICK r : [i \in DOMAIN Refusals(request) |->
                     [status |-> Refusals(request)[i], body |-> "rpc_error"]] = <<r>>
      BY OneRefusal
    <3>3. conn' = Responded(peer, <<r>>)
      BY <3>1, <3>2
    <3>4. Answered(peer, conn')
      BY <1>1, <2>1, <3>3, RespondedFields
    <3> QED BY <1>4, <2>1, <2>3, <3>4 DEF Answered
  <2>4. CASE /\ "post" \in Requests(peer) /\ msg' = conn[peer].m /\ pc' = "handle"
             /\ UNCHANGED <<conn, peer>>
    <3>1. peer \in Clients
      <4>1. ASSUME peer \in Others PROVE FALSE
        <5>1. Requests(peer) = {"unauthorized", "get", "cross_origin", "mismatch", "no_body"}
          BY <4>1, PeersAssumption DEF Requests
        <5> QED BY <2>4, <5>1
      <4> QED BY <2>1, <4>1 DEF Peers
    <3>2. \A c \in Clients : Unhandled(c)' => Unhandled(c) /\ conn'[c].m = conn[c].m
      BY <2>1, <2>4 DEF Unhandled
    <3> QED BY <1>1, <2>4, <3>1, <3>2, NothingRun
  <2> QED BY <1>5, <2>2, <2>3, <2>4 DEF Receive, BackToAccept
<1>6. CASE Write
  <2>1. /\ InService /\ peer \in Peers /\ conn[peer].responses = <<>> /\ pc' = "accept"
    BY <1>6 DEF Write, BackToAccept, InService, CallInv, ConnInv, Served
  <2>2. PICK r : conn' = Responded(peer, <<r>>)
    BY <1>6 DEF Write
  <2>3. Answered(peer, conn')
    BY <1>1, <2>1, <2>2, RespondedFields
  <2> QED BY <1>4, <2>1, <2>3 DEF Answered
<1>7. CASE Die
  <2>1. \A c \in Clients : ~conn'[c].up
    BY <1>7, DeathLeavesNone, ClientsArePeers DEF CallInv
  <2> QED BY <1>3, <1>7, <2>1 DEF Die
<1> QED BY <1>2, <1>5, <1>6, <1>7 DEF Accept, Restart

LEMMA CallInvHolds ==
  /\ Init => CallInv
  /\ CallInv /\ [Next]_vars => CallInv'
<1>1. ASSUME Init PROVE CallInv
  <2>1. ConnInv
    BY <1>1, ConnInvHolds
  <2>2. \A c \in Clients : sent[c] = 0 /\ inbox[c] = <<>> /\ bridge[c] = Idle
                           /\ conn[c] = NoConnection
    BY <1>1, ClientsArePeers DEF Init
  <2>3. Numbered
    <3>1. \A c \in Clients : Last(c) = 0 /\ inbox[c] \in Seq(Msgs) /\ Len(inbox[c]) = 0
      <4>1. <<>> \in Seq(Msgs) /\ Len(<<>>) = 0 /\ 0 - 0 = 0
        OBVIOUS
      <4>2. \A c \in Clients : Len(inbox[c]) = 0 /\ inbox[c] \in Seq(Msgs)
        BY <2>2, <4>1
      <4> QED BY <2>2, <4>1, <4>2 DEF Last
    <3> QED BY <1>1, <2>2, <3>1 DEF Init, Numbered
  <2>4. RunOnce
    <3>1. performed = <<>> /\ performed \in Seq(Clients \X Nat) /\ Len(performed) = 0
      BY <1>1 DEF Init, ServerInit
    <3> QED BY <3>1 DEF RunOnce, Ran
  <2>5. Held
    BY <1>1, <2>2, NoConnectionFields DEF Init, Held, Idle, Unhandled
  <2> QED BY <2>1, <2>3, <2>4, <2>5 DEF CallInv
<1>2. ASSUME CallInv, [Next]_vars PROVE CallInv'
  <2>1. ConnInv'
    BY <1>2, ConnInvHolds DEF CallInv
  <2>2. CASE \E c \in Clients : BridgeStep(c) \/ BridgeEnds(c) \/ BridgeKilled(c)
    BY <1>2, <2>1, <2>2, ReadCalls, BridgeCalls DEF BridgeStep
  <2>3. CASE \E c \in Clients, s \in Shapes : Send(c, s)
    BY <1>2, <2>1, <2>3, SendCalls
  <2>4. CASE \E o \in Others : OtherStep(o)
    BY <1>2, <2>1, <2>4, OtherCalls
  <2>5. CASE ServerStep \/ Die \/ Restart
    BY <1>2, <2>1, <2>5, HandleCalls, ServerCalls DEF ServerStep
  <2>6. CASE UNCHANGED vars
    <3>1. /\ UNCHANGED <<clientVars, performed>> /\ bridge' = bridge /\ conn' = conn
          /\ peer' = peer /\ pc' = pc /\ msg' = msg
      BY <2>6 DEF vars, serverVars, loopVars
    <3>2. \A c \in Clients : Unhandled(c)' => Unhandled(c) /\ conn'[c].m = conn[c].m
      BY <3>1 DEF Unhandled
    <3>3. pc' = "handle" => peer' \in Clients /\ msg' = conn'[peer'].m
      BY <1>2, <3>1 DEF CallInv, Held
    <3> QED BY <1>2, <2>1, <3>1, <3>2, <3>3, NothingRun
  <2> QED BY <1>2, <2>2, <2>3, <2>4, <2>5, <2>6 DEF Next, ClientStep
<1> QED BY <1>1, <1>2

(***************************************************************************)
(* A call is run at most once, for any number of clients and messages and  *)
(* whichever of the processes die when: neither the bridge nor a restarted *)
(* server repeats one.                                                     *)
(***************************************************************************)
THEOREM NoCallTwice == Spec => []RunAtMostOnce
<1>1. CallInv => RunAtMostOnce
  <2> SUFFICES ASSUME CallInv, NEW i \in DOMAIN performed, NEW j \in DOMAIN performed,
                      performed[i] = performed[j]
               PROVE  i = j
    BY DEF RunAtMostOnce
  <2>1. DOMAIN performed = 1 .. Len(performed)
    BY DEF CallInv, RunOnce
  <2> QED BY <2>1 DEF CallInv, RunOnce
<1> QED BY <1>1, CallInvHolds, SpecSteps, PTL

-----------------------------------------------------------------------------
(***************************************************************************)
(* Why the service keeps the promises of RequestReply: a connection, while *)
(* the server has it, is about the message in its bridge's hands, and so   *)
(* is the response on it; a response that says a call was served is there  *)
(* only when the call has been run.  One that reads has neither a message  *)
(* nor a response that was meant for an earlier one.                       *)
(***************************************************************************)
Truthful(c, kind) ==
  kind = "result" /\ bridge[c].msg.form = "call" => Ran(performed, <<c, bridge[c].msg.n>>)

Bodies == Kinds \cup {"nothing", "truncated"}

Posted(c) ==
  /\ bridge[c].msg # NoMessage
  /\ conn[c].m.n = bridge[c].msg.n /\ conn[c].m.form = bridge[c].msg.form

Mediates(c) ==
  /\ bridge[c].msg \in Msgs \cup {NoMessage}
  /\ bridge[c].pc = "read" => bridge[c].msg = NoMessage
  /\ bridge[c].pc \in {"connect", "send", "wait"} => bridge[c].msg # NoMessage
  /\ bridge[c].pc \in {"read", "connect"} => conn[c].responses = <<>>
  /\ conn[c].up => Posted(c)
  /\ \A r : conn[c].responses = <<r>> => r.body \in Bodies /\ Truthful(c, r.body)

ReplyIsRight ==
  pc = "write" => /\ peer \in Clients /\ reply.kind \in Bodies
                  /\ Truthful(peer, reply.kind)

PromiseInv == (\A c \in Clients : Mediates(c)) /\ ReplyIsRight

\* What the steps of others do to a connection: it may be dropped or forgotten.
Shrinks(c) ==
  /\ conn'[c].up => conn[c].up /\ conn'[c].m = conn[c].m
  /\ conn'[c].responses \in {conn[c].responses, <<>>}

\* A bridge goes from one point to a later one with its message.
GoesOn(c) ==
  /\ bridge'[c].msg = bridge[c].msg
  /\ \/ bridge'[c].pc \in {bridge[c].pc, "gone"}
     \/ bridge[c].pc \in {"connect", "send"} /\ bridge'[c].pc \in {"send", "wait"}

Remembers == \A e : Ran(performed, e) => Ran(performed', e)

LEMMA TruthfulStays ==
  ASSUME NEW c \in Clients, NEW kind, Truthful(c, kind), Remembers,
         bridge'[c].msg = bridge[c].msg
  PROVE  Truthful(c, kind)'
BY DEF Truthful, Remembers

LEMMA OneIsNotNone == ASSUME NEW r PROVE <<r>> # <<>>
<1>1. Len(<<r>>) = 1 /\ Len(<<>>) = 0
  OBVIOUS
<1> QED BY <1>1

LEMMA MediatesStays ==
  ASSUME NEW c \in Clients, Mediates(c), Shrinks(c), GoesOn(c), Remembers
  PROVE  Mediates(c)'
<1>1. \A r : conn'[c].responses = <<r>> => r.body \in Bodies /\ Truthful(c, r.body)'
  <2> SUFFICES ASSUME NEW r, conn'[c].responses = <<r>>
               PROVE  r.body \in Bodies /\ Truthful(c, r.body)'
    OBVIOUS
  <2>1. conn[c].responses = <<r>>
    BY OneIsNotNone DEF Shrinks
  <2> QED BY <2>1, TruthfulStays DEF Mediates, GoesOn
<1>2. conn'[c].up => Posted(c)'
  BY DEF Mediates, Shrinks, GoesOn, Posted
<1> QED BY <1>1, <1>2 DEF Mediates, Shrinks, GoesOn, Bodies

\* The server's answer stays right while its peer's bridge waits for it.
LEMMA ReplyStays ==
  ASSUME ConnInv, ReplyIsRight, UNCHANGED <<peer, pc, reply>>, Remembers,
         \A c \in Clients : conn[c].up => bridge'[c].msg = bridge[c].msg
  PROVE  ReplyIsRight'
<1> SUFFICES ASSUME pc = "write" PROVE ReplyIsRight'
  BY DEF ReplyIsRight
<1>1. conn[peer].up /\ peer \in Clients /\ Truthful(peer, reply.kind)
  BY DEF ConnInv, Served, InService, ReplyIsRight
<1>2. Truthful(peer, reply.kind)'
  BY <1>1, TruthfulStays
<1> QED BY <1>1, <1>2 DEF ReplyIsRight, Bodies

\* What is nothing is not a message.
LEMMA HeldIsAMessage == NoMessage \notin Msgs
<1>1. \A m \in Msgs : m.form \in Forms
  BY DEF Msgs
<1>2. NoMessage.form \notin Forms
  BY DEF NoMessage, Forms
<1> QED BY <1>1, <1>2

\* A bridge that has told its client starts over.
LEMMA MediatesAnew ==
  ASSUME NEW c \in Clients, bridge'[c].msg = NoMessage, bridge'[c].pc = "read",
         ~conn'[c].up, conn'[c].responses = <<>>
  PROVE  Mediates(c)'
<1>1. \A r : conn'[c].responses # <<r>>
  BY OneIsNotNone
<1> QED BY <1>1 DEF Mediates

\* A connection that both have closed is forgotten.
LEMMA LeftOver ==
  ASSUME Shaped, NEW p \in Peers, conn' = LeftBy(p), ~conn[p].up
  PROVE  conn'[p] = NoConnection
<1> DEFINE k == [conn[p] EXCEPT !.open = FALSE]
<1>1. k.up = FALSE /\ k.open = FALSE
  BY DEF Shaped, Fields
<1>2. conn'[p] = Hung(k)
  BY DEF LeftBy, Shaped
<1> QED BY <1>1, <1>2 DEF Hung

LEMMA LeavingShrinks ==
  ASSUME Shaped, NEW p \in Peers, conn' = LeftBy(p)
  PROVE  \A d \in Clients : Shrinks(d)
BY LeftFields, ClientsArePeers DEF Shrinks

\* A step of one bridge.
LEMMA BridgeMediates ==
  ASSUME CallInv, PromiseInv, NEW c \in Clients, Bridged(c, bridge'),
         UNCHANGED <<performed, peer, pc, reply>>,
         \A d \in Clients : d # c => Shrinks(d),
         conn[c].up => bridge'[c].msg = bridge[c].msg, Mediates(c)'
  PROVE  PromiseInv'
<1>1. Remembers
  BY DEF Remembers
<1>2. \A d \in Clients : d # c => Mediates(d)'
  BY <1>1, MediatesStays DEF Bridged, GoesOn, PromiseInv
<1>3. \A d \in Clients : conn[d].up => bridge'[d].msg = bridge[d].msg
  BY DEF Bridged
<1>4. ReplyIsRight'
  BY <1>1, <1>3, ReplyStays DEF PromiseInv, CallInv
<1> QED BY <1>2, <1>4 DEF PromiseInv

LEMMA ReadPromises ==
  ASSUME CallInv, PromiseInv, NEW c \in Clients, BridgeRead(c)
  PROVE  PromiseInv'
<1>1. /\ Bridged(c, bridge') /\ bridge[c].pc = "read" /\ bridge'[c].pc = "connect"
      /\ bridge'[c].msg = Head(inbox[c])
      /\ UNCHANGED <<performed, peer, pc, reply, conn>> /\ inbox[c] # <<>>
  BY ReadBridges DEF BridgeRead, serverVars, loopVars, CallInv, ConnInv
<1>2. inbox[c] \in Seq(Msgs)
  BY DEF CallInv, Numbered
<1>3. Head(inbox[c]) \in Msgs
  BY <1>1, <1>2
<1>4. Head(inbox[c]) # NoMessage
  BY <1>3, HeldIsAMessage
<1>5. ~conn[c].up /\ conn[c].responses = <<>>
  BY <1>1 DEF CallInv, ConnInv, Served, PromiseInv, Mediates
<1>6. \A r : conn'[c].responses # <<r>>
  BY <1>1, <1>5, OneIsNotNone
<1>7. Mediates(c)'
  BY <1>1, <1>3, <1>4, <1>5, <1>6 DEF Mediates
<1>8. \A d \in Clients : Shrinks(d)
  BY <1>1 DEF Shrinks
<1> QED BY <1>1, <1>5, <1>7, <1>8, BridgeMediates

LEMMA ConnectPromises ==
  ASSUME CallInv, PromiseInv, NEW c \in Clients, BridgeConnect(c)
  PROVE  PromiseInv'
<1>1. /\ bridge[c].pc = "connect" /\ ~conn[c].up /\ conn[c].responses = <<>>
      /\ bridge[c].msg # NoMessage /\ bridge[c].msg \in Msgs
      /\ UNCHANGED <<performed, peer, pc, reply>> /\ c \in Peers /\ Shaped
  <2>1. bridge[c].pc = "connect"
    BY DEF BridgeConnect, BridgeAt
  <2>2. UNCHANGED <<performed, peer, pc, reply>>
    BY DEF BridgeConnect, serverVars
  <2>3. Mediates(c)
    BY DEF PromiseInv
  <2>4. c \in Peers /\ Shaped /\ Served
    BY ClientsArePeers DEF CallInv, ConnInv
  <2>5. ~conn[c].up
    BY <2>1, <2>4 DEF Served
  <2> QED BY <2>1, <2>2, <2>3, <2>4, <2>5 DEF Mediates
<1>2. CASE conn' = [conn EXCEPT ![c] = Connection(Enriched(c), FALSE)] /\ GoOn(c, "send")
  <2>1. /\ Bridged(c, bridge') /\ bridge'[c].pc = "send" /\ bridge'[c].msg = bridge[c].msg
    BY <1>1, <1>2, GoOnBridges DEF Places
  <2>2. conn'[c] = Connection(Enriched(c), FALSE)
        /\ \A d \in Clients : d # c => conn'[d] = conn[d]
    <3>1. DOMAIN conn = Peers
      BY <1>1 DEF Shaped
    <3> QED BY <1>1, <1>2, <3>1, ClientsArePeers
  <2>3. conn'[c].m = Enriched(c) /\ conn'[c].responses = <<>>
    <3>1. /\ Connection(Enriched(c), FALSE).m = Enriched(c)
          /\ Connection(Enriched(c), FALSE).responses = <<>>
      BY DEF Connection
    <3> QED BY <2>2, <3>1
  <2>4. Posted(c)'
    BY <1>1, <2>1, <2>3, EnrichedFields DEF Posted
  <2>5. \A r : conn'[c].responses # <<r>>
    BY <2>3, OneIsNotNone
  <2>6. Mediates(c)'
    BY <1>1, <2>1, <2>4, <2>5 DEF Mediates
  <2>7. \A d \in Clients : d # c => Shrinks(d)
    BY <2>2 DEF Shrinks
  <2> QED BY <1>1, <2>1, <2>6, <2>7, BridgeMediates
<1>3. CASE Tell(c, "bridge_error") /\ conn' = conn
  <2>1. Bridged(c, bridge') /\ bridge'[c].pc = "read" /\ bridge'[c].msg = NoMessage
    BY <1>1, <1>3, TellBridges
  <2>2. Mediates(c)'
    BY <1>1, <1>3, <2>1, MediatesAnew
  <2>3. \A d \in Clients : Shrinks(d)
    BY <1>3 DEF Shrinks
  <2> QED BY <1>1, <2>1, <2>2, <2>3, BridgeMediates
<1> QED BY <1>2, <1>3 DEF BridgeConnect

\* A bridge that goes on with its message, or leaves with it.
LEMMA GoingOnPromises ==
  ASSUME CallInv, PromiseInv, NEW c \in Clients,
         GoOn(c, "gone") \/ (GoOn(c, "wait") /\ bridge[c].pc = "send"),
         \A d \in Clients : Shrinks(d), UNCHANGED <<performed, peer, pc, reply>>
  PROVE  PromiseInv'
<1>1. /\ Bridged(c, bridge') /\ bridge'[c].msg = bridge[c].msg
      /\ bridge'[c].pc = "gone" \/ (bridge[c].pc = "send" /\ bridge'[c].pc = "wait")
  <2>1. "gone" \in Places /\ "wait" \in Places
    BY DEF Places
  <2>2. CASE GoOn(c, "gone")
    BY <2>1, <2>2, GoOnBridges DEF CallInv, ConnInv
  <2>3. CASE GoOn(c, "wait") /\ bridge[c].pc = "send"
    BY <2>1, <2>3, GoOnBridges DEF CallInv, ConnInv
  <2> QED BY <2>2, <2>3
<1>2. GoesOn(c)
  BY <1>1 DEF GoesOn
<1>3. Mediates(c)'
  BY <1>2, MediatesStays DEF PromiseInv, Remembers
<1> QED BY <1>1, <1>3, BridgeMediates

\* One that tells its client leaves a connection the server has done with.
LEMMA TellingPromises ==
  ASSUME CallInv, PromiseInv, NEW c \in Clients, NEW kind, Tell(c, kind),
         conn' = LeftBy(c), ~conn[c].up, UNCHANGED <<performed, peer, pc, reply>>
  PROVE  PromiseInv'
<1>1. c \in Peers /\ Shaped
  BY ClientsArePeers DEF CallInv, ConnInv
<1>2. Bridged(c, bridge') /\ bridge'[c].pc = "read" /\ bridge'[c].msg = NoMessage
  BY <1>1, TellBridges
<1>3. conn'[c] = NoConnection
  BY <1>1, LeftOver
<1>4. Mediates(c)'
  BY <1>2, <1>3, NoConnectionFields, MediatesAnew
<1> QED BY <1>1, <1>2, <1>4, LeavingShrinks, BridgeMediates

LEMMA BridgePromises ==
  ASSUME CallInv, PromiseInv, NEW c \in Clients,
         BridgeStep(c) \/ BridgeEnds(c) \/ BridgeKilled(c)
  PROVE  PromiseInv'
<1>0. c \in Peers /\ Shaped
  BY ClientsArePeers DEF CallInv, ConnInv
<1>1. CASE BridgeEnds(c) \/ BridgeKilled(c) \/ BridgeSend(c) \/ BridgeReceive(c)
  <2>1. UNCHANGED <<performed, peer, pc, reply>>
    BY <1>1 DEF BridgeEnds, BridgeKilled, BridgeSend, BridgeReceive, BridgeOnly,
       serverVars, loopVars
  <2>2. CASE BridgeEnds(c)
    <3>1. \A d \in Clients : Shrinks(d)
      BY <2>2 DEF BridgeEnds, Shrinks
    <3> QED BY <2>1, <2>2, <3>1, GoingOnPromises DEF BridgeEnds
  <2>3. CASE BridgeKilled(c)
    <3>1. \A d \in Clients : Shrinks(d)
      BY <1>0, <2>3, LeavingShrinks DEF BridgeKilled
    <3> QED BY <2>1, <2>3, <3>1, GoingOnPromises DEF BridgeKilled
  <2>4. CASE conn' = [conn EXCEPT ![c].whole = TRUE] /\ GoOn(c, "wait") /\ BridgeAt(c, "send")
    <3>1. \A d \in Clients : Shrinks(d)
      BY <1>0, <2>4, SendMarks, ClientsArePeers DEF Shrinks
    <3> QED BY <2>1, <2>4, <3>1, GoingOnPromises DEF BridgeAt
  <2>5. CASE ~conn[c].up /\ conn' = LeftBy(c) /\ GoOn(c, "gone")
    <3>1. \A d \in Clients : Shrinks(d)
      BY <1>0, <2>5, LeavingShrinks
    <3> QED BY <2>1, <2>5, <3>1, GoingOnPromises
  <2>6. CASE ~conn[c].up /\ conn' = LeftBy(c) /\ \E kind : Tell(c, kind)
    BY <2>1, <2>6, TellingPromises
  <2>7. BridgeReceive(c) => ~conn[c].up
    BY <1>0 DEF BridgeReceive, CallInv, ConnInv, Served
  <2> QED BY <1>1, <2>2, <2>3, <2>4, <2>5, <2>6, <2>7 DEF BridgeSend, BridgeReceive
<1> QED BY <1>1, ReadPromises, ConnectPromises DEF BridgeStep

-----------------------------------------------------------------------------
\* A step in which no bridge moves.
LEMMA BridgesRest ==
  ASSUME PromiseInv, bridge' = bridge, \A d \in Clients : Shrinks(d), Remembers,
         ReplyIsRight'
  PROVE  PromiseInv'
<1>1. \A d \in Clients : GoesOn(d)
  BY DEF GoesOn
<1>2. \A d \in Clients : Mediates(d)'
  BY <1>1, MediatesStays DEF PromiseInv
<1> QED BY <1>2 DEF PromiseInv

LEMMA SendPromises ==
  ASSUME CallInv, PromiseInv, NEW c \in Clients, NEW s \in Shapes, Send(c, s)
  PROVE  PromiseInv'
<1>1. UNCHANGED <<performed, bridge, conn, peer, pc, reply>>
  BY DEF Send, serverVars, loopVars
<1>2. Remembers /\ \A d \in Clients : Shrinks(d)
  BY <1>1 DEF Remembers, Shrinks
<1>3. ReplyIsRight'
  BY <1>1, <1>2, ReplyStays DEF PromiseInv, CallInv
<1> QED BY <1>1, <1>2, <1>3, BridgesRest

LEMMA OtherPromises ==
  ASSUME CallInv, PromiseInv, NEW o \in Others, OtherStep(o)
  PROVE  PromiseInv'
<1>1. /\ UNCHANGED <<performed, bridge, peer, pc, reply>>
      /\ o \in Peers /\ o \notin Clients /\ Shaped
  BY OthersArePeers DEF OtherStep, OtherConnects, OtherSends, OtherCloses, OthersOnly,
     serverVars, CallInv, ConnInv
<1>2. \A d \in Clients : Shrinks(d)
  <2>1. CASE OtherConnects(o)
    BY <1>1, <2>1, ClientsArePeers DEF OtherConnects, Shaped, Shrinks
  <2>2. CASE OtherSends(o)
    BY <1>1, <2>2, SendMarks, ClientsArePeers DEF OtherSends, Shrinks
  <2>3. CASE OtherCloses(o)
    BY <1>1, <2>3, LeavingShrinks DEF OtherCloses
  <2> QED BY <2>1, <2>2, <2>3 DEF OtherStep
<1>3. Remembers
  BY <1>1 DEF Remembers
<1>4. ReplyIsRight'
  BY <1>1, <1>3, ReplyStays DEF PromiseInv, CallInv
<1> QED BY <1>1, <1>2, <1>3, <1>4, BridgesRest

\* The server answers the one it serves.
LEMMA AnswerPromises ==
  ASSUME CallInv, PromiseInv, InService, bridge' = bridge, performed' = performed,
         pc' # "write", NEW r, conn' = Responded(peer, <<r>>),
         peer \in Clients => r.body \in Bodies /\ Truthful(peer, r.body)
  PROVE  PromiseInv'
<1>1. /\ peer \in Peers /\ Shaped /\ conn[peer].up /\ conn[peer].responses = <<>>
  BY DEF CallInv, ConnInv, Served
<1>2. Answered(peer, conn') /\ conn'[peer].responses \in {<<r>>, <<>>}
  BY <1>1, RespondedFields
<1>3. Remembers /\ ReplyIsRight'
  BY DEF Remembers, ReplyIsRight
<1>4. \A d \in Clients : d # peer => Mediates(d)'
  <2>1. \A d \in Clients : d # peer => Shrinks(d)
    BY <1>2, ClientsArePeers DEF Answered, Shrinks
  <2>2. \A d \in Clients : GoesOn(d)
    BY DEF GoesOn
  <2> QED BY <1>3, <2>1, <2>2, MediatesStays DEF PromiseInv
<1>5. ASSUME NEW p \in Clients, p = peer PROVE Mediates(p)'
  <2>1. bridge'[p].pc \notin {"read", "connect"}
    BY <1>1, <1>5 DEF CallInv, ConnInv, Served
  <2>2. ~conn'[p].up
    BY <1>2, <1>5 DEF Answered
  <2>3. \A q : conn'[p].responses = <<q>> => q.body \in Bodies /\ Truthful(p, q.body)'
    <3> SUFFICES ASSUME NEW q, conn'[p].responses = <<q>>
                 PROVE  q.body \in Bodies /\ Truthful(p, q.body)'
      OBVIOUS
    <3>1. <<r>> = <<q>>
      BY <1>2, <1>5, OneIsNotNone
    <3>2. r = q
      BY <3>1
    <3>3. Truthful(p, r.body)'
      BY <1>3, <1>5, TruthfulStays
    <3> QED BY <1>5, <3>2, <3>3
  <2>4. /\ bridge'[p].msg \in Msgs \cup {NoMessage}
        /\ bridge'[p].pc \in {"connect", "send", "wait"} => bridge'[p].msg # NoMessage
    BY <1>5 DEF PromiseInv, Mediates
  <2> QED BY <2>1, <2>2, <2>3, <2>4 DEF Mediates, Bodies
<1>6. \A d \in Clients : Mediates(d)'
  BY <1>4, <1>5
<1> QED BY <1>3, <1>6 DEF PromiseInv

LEMMA ReceivePromises ==
  ASSUME CallInv, PromiseInv, Receive
  PROVE  PromiseInv'
<1>1. /\ UNCHANGED <<performed, bridge>> /\ pc' # "write" /\ InService
      /\ peer \in Peers /\ Shaped
  BY DEF Receive, ServerOnly, serverVars, BackToAccept, InService, CallInv, ConnInv, Served
<1>2. Remembers /\ ReplyIsRight'
  BY <1>1 DEF Remembers, ReplyIsRight
<1>3. CASE conn' = conn
  BY <1>1, <1>2, <1>3, BridgesRest DEF Shrinks
<1>4. CASE conn' = [conn EXCEPT ![peer] = NoConnection]
  <2>1. \A d \in Clients : Shrinks(d)
    BY <1>1, <1>4, NoConnectionFields, ClientsArePeers DEF Shaped, Shrinks
  <2> QED BY <1>1, <1>2, <2>1, BridgesRest
<1>5. CASE \E request \in Requests(peer) \ {"post"} :
             conn' = Responded(peer, [i \in DOMAIN Refusals(request) |->
                       [status |-> Refusals(request)[i], body |-> "rpc_error"]])
  <2>1. PICK request \in Requests(peer) \ {"post"} :
          conn' = Responded(peer, [i \in DOMAIN Refusals(request) |->
                    [status |-> Refusals(request)[i], body |-> "rpc_error"]])
    BY <1>5
  <2>2. PICK r : /\ r.body = "rpc_error"
                 /\ [i \in DOMAIN Refusals(request) |->
                      [status |-> Refusals(request)[i], body |-> "rpc_error"]] = <<r>>
    BY OneRefusal
  <2>3. conn' = Responded(peer, <<r>>)
    BY <2>1, <2>2
  <2>4. r.body \in Bodies /\ Truthful(peer, r.body)
    BY <2>2 DEF Bodies, Kinds, Truthful
  <2> QED BY <1>1, <2>3, <2>4, AnswerPromises
<1> QED BY <1>3, <1>4, <1>5 DEF Receive

LEMMA WritePromises ==
  ASSUME CallInv, PromiseInv, Write
  PROVE  PromiseInv'
<1>1. /\ UNCHANGED <<performed, bridge>> /\ pc' # "write" /\ InService /\ pc = "write"
  BY DEF Write, ServerOnly, serverVars, BackToAccept, InService
<1> DEFINE r == [status |-> IF reply = NoReply THEN 202 ELSE 200, body |-> reply.kind]
<1>2. conn' = Responded(peer, <<r>>)
  BY DEF Write
<1>3. r.body = reply.kind
  OBVIOUS
<1> HIDE DEF r
<1>4. r.body \in Bodies /\ Truthful(peer, r.body)
  BY <1>1, <1>3 DEF PromiseInv, ReplyIsRight
<1> QED BY <1>1, <1>2, <1>4, AnswerPromises

LEMMA DeathPromises ==
  ASSUME CallInv, PromiseInv, Die
  PROVE  PromiseInv'
<1>1. /\ UNCHANGED <<performed, bridge>> /\ pc' # "write" /\ ConnInv /\ Shaped
  BY DEF Die, ServerOnly, CallInv, ConnInv
<1>2. Remembers /\ ReplyIsRight' /\ \A d \in Clients : GoesOn(d)
  BY <1>1 DEF Remembers, ReplyIsRight, GoesOn
<1>3. \A p \in Peers : /\ DOMAIN conn[p] = Fields /\ conn[p].open \in BOOLEAN
                       /\ Short(conn[p].responses)
  BY <1>1 DEF ConnInv, Shaped, Served
<1>4. CASE conn' = Dropped(conn)
  <2>1. \A d \in Clients : Shrinks(d)
    BY <1>1, <1>3, <1>4, AllDropped, ClientsArePeers DEF Shaped, Shrinks
  <2> QED BY <1>1, <1>2, <2>1, BridgesRest
<1>5. CASE /\ pc = "write"
           /\ conn' = Dropped(Responded(peer, <<[status |-> 200, body |-> "truncated"]>>))
  <2>1. /\ peer \in Clients /\ peer \in Peers /\ conn[peer].up
        /\ conn[peer].responses = <<>>
    BY <1>1, <1>5 DEF ConnInv, Served, InService, PromiseInv, ReplyIsRight
  <2>2. PICK r : r.body = "truncated" /\ conn' = Dropped(Responded(peer, <<r>>))
    BY <1>5
  <2>3. PICK k : k = Responded(peer, <<r>>)
    OBVIOUS
  <2>4. Answered(peer, k) /\ k[peer].responses \in {<<r>>, <<>>}
    BY <1>1, <2>1, <2>3, RespondedFields
  <2>5. \A p \in Peers : /\ DOMAIN k[p] = Fields /\ k[p].open \in BOOLEAN
                         /\ Short(k[p].responses)
    BY <1>3, <2>4 DEF Answered
  <2>6. \A p \in Peers : conn'[p].up = FALSE /\ conn'[p].responses \in {k[p].responses, <<>>}
    <3>1. DOMAIN k = Peers /\ conn' = Dropped(k)
      BY <2>2, <2>3, <2>4 DEF Answered
    <3> QED BY <1>1, <2>5, <3>1, AllDropped
  <2>7. \A d \in Clients : d # peer => Shrinks(d)
    BY <2>4, <2>6, ClientsArePeers DEF Answered, Shrinks
  <2>8. \A d \in Clients : d # peer => Mediates(d)'
    BY <1>2, <2>7, MediatesStays DEF PromiseInv
  <2>9. ASSUME NEW p \in Clients, p = peer PROVE Mediates(p)'
    <3>1. bridge'[p].pc \notin {"read", "connect"}
      BY <1>1, <2>1, <2>9 DEF ConnInv, Served
    <3>2. \A q : conn'[p].responses = <<q>> => q.body \in Bodies /\ Truthful(p, q.body)'
      <4> SUFFICES ASSUME NEW q, conn'[p].responses = <<q>>
                   PROVE  q.body \in Bodies /\ Truthful(p, q.body)'
        OBVIOUS
      <4>1. <<r>> = <<q>>
        BY <2>1, <2>4, <2>6, <2>9, OneIsNotNone
      <4>2. q.body = "truncated"
        BY <2>2, <4>1
      <4> QED BY <4>2 DEF Bodies, Truthful
    <3>3. /\ bridge'[p].msg \in Msgs \cup {NoMessage}
          /\ bridge'[p].pc \in {"connect", "send", "wait"} => bridge'[p].msg # NoMessage
      BY <1>1, <2>1, <2>9 DEF PromiseInv, Mediates
    <3> QED BY <2>1, <2>6, <2>9, ClientsArePeers, <3>1, <3>2, <3>3 DEF Mediates, Bodies
  <2> QED BY <1>2, <2>8, <2>9 DEF PromiseInv
<1> QED BY <1>4, <1>5 DEF Die

\* What Handle does to the calls that have been run.
LEMMA HandleRuns ==
  ASSUME CallInv, Handle
  PROVE  /\ \/ performed' = performed
            \/ msg.form = "call" /\ performed' = Append(performed, <<msg.from, msg.n>>)
         /\ reply'.kind \in Kinds \cup {"nothing"}
         /\ (reply'.kind = "result" /\ msg.form = "call")
              => performed' = Append(performed, <<msg.from, msg.n>>)
<1>1. PICK r \in {Reply(msg, kind) : kind \in Kinds} \cup {NoReply} :
        HandleMessage(msg, r) /\ reply' = r
  BY DEF Handle
<1>2. r.kind \in Kinds \cup {"nothing"}
  BY <1>1 DEF Reply, NoReply
<1>3. CASE RunsTool(msg)
  <2>1. CallTool(msg, r) /\ msg.form = "call"
    BY <1>1, <1>3 DEF HandleMessage, RunsTool
  <2>2. CASE r = Reply(msg, "failed") /\ UNCHANGED performed
    <3>1. r.kind = "failed"
      BY <2>2 DEF Reply
    <3> QED BY <1>1, <1>2, <2>2, <3>1
  <2>3. CASE Run(msg)
    <3>1. performed' = Append(performed, <<msg.from, msg.n>>)
      BY <2>3 DEF Run
    <3> QED BY <1>1, <1>2, <2>1, <3>1
  <2> QED BY <2>1, <2>2, <2>3 DEF CallTool
<1>4. CASE ~RunsTool(msg)
  <2>1. UNCHANGED performed
    BY <1>1, <1>4 DEF HandleMessage
  <2>2. ASSUME msg.form = "call" PROVE r.kind # "result"
    <3>1. r = Reply(msg, "rpc_error")
      BY <1>1, <1>4, <2>2 DEF HandleMessage, RunsTool
    <3> QED BY <3>1 DEF Reply
  <2> QED BY <1>1, <1>2, <2>1, <2>2
<1> QED BY <1>3, <1>4

LEMMA AppendRan ==
  ASSUME CallInv, NEW e \in Clients \X Nat, performed' = Append(performed, e)
  PROVE  /\ Remembers /\ Ran(performed', e)
         /\ \A x : Ran(performed', x) => Ran(performed, x) \/ x = e
<1>1. performed \in Seq(Clients \X Nat) /\ Len(performed) \in Nat
  BY DEF CallInv, RunOnce
<1>2. /\ Len(performed') = Len(performed) + 1
      /\ \A i \in 1 .. Len(performed) : performed'[i] = performed[i]
      /\ performed'[Len(performed) + 1] = e
  BY <1>1
<1>3. Remembers
  BY <1>1, <1>2 DEF Remembers, Ran
<1>4. Ran(performed', e)
  <2>1. Len(performed) + 1 \in 1 .. Len(performed')
    BY <1>1, <1>2
  <2> QED BY <1>2, <2>1 DEF Ran
<1>5. ASSUME NEW x, Ran(performed', x) PROVE Ran(performed, x) \/ x = e
  <2>1. PICK i \in 1 .. Len(performed) + 1 : performed'[i] = x
    BY <1>2, <1>5 DEF Ran
  <2>2. i = Len(performed) + 1 \/ i \in 1 .. Len(performed)
    BY <1>1, OneMore
  <2> QED BY <1>2, <2>1, <2>2 DEF Ran
<1> QED BY <1>3, <1>4, <1>5

\* The message being handled is the one in the hands of its sender's bridge.
LEMMA HandledIsHeld ==
  ASSUME CallInv, PromiseInv, pc = "handle"
  PROVE  /\ peer \in Clients /\ conn[peer].up
         /\ msg \in Msgs /\ msg.from = peer /\ <<msg.from, msg.n>> \in Clients \X Nat
         /\ bridge[peer].msg # NoMessage
         /\ bridge[peer].msg.n = msg.n /\ bridge[peer].msg.form = msg.form
         /\ ~Ran(performed, <<peer, msg.n>>)
<1>1. peer \in Clients /\ msg = conn[peer].m /\ conn[peer].up
  BY DEF CallInv, Held, ConnInv, Served, InService
<1>2. Fresh(peer, msg, Last(peer), performed)
  BY <1>1 DEF CallInv, Held, Unhandled
<1>3. Posted(peer)
  BY <1>1 DEF PromiseInv, Mediates
<1> QED BY <1>1, <1>2, <1>3 DEF Fresh, Posted, Msgs

LEMMA HandlePromises ==
  ASSUME CallInv, PromiseInv, Handle
  PROVE  PromiseInv'
<1>1. /\ pc = "handle" /\ UNCHANGED <<bridge, conn, peer>>
  BY DEF Handle, ServerOnly
<1>2. Remembers
  <2>1. CASE performed' = performed
    BY <2>1 DEF Remembers
  <2> QED BY <1>1, <2>1, HandleRuns, HandledIsHeld, AppendRan
<1>3. ASSUME NEW p, p = peer, NEW kind, kind = reply'.kind
      PROVE  Truthful(p, kind)'
  <2> SUFFICES ASSUME kind = "result", bridge[p].msg.form = "call"
               PROVE  Ran(performed', <<p, bridge[p].msg.n>>)
    BY <1>1 DEF Truthful
  <2>1. performed' = Append(performed, <<msg.from, msg.n>>)
    BY <1>1, <1>3, HandleRuns, HandledIsHeld
  <2>2. Ran(performed', <<msg.from, msg.n>>)
    BY <1>1, <2>1, HandledIsHeld, AppendRan
  <2> QED BY <1>1, <1>3, <2>2, HandledIsHeld
<1>4. ReplyIsRight'
  BY <1>1, <1>3, HandleRuns, HandledIsHeld DEF ReplyIsRight, Bodies
<1>5. \A d \in Clients : Shrinks(d)
  BY <1>1 DEF Shrinks
<1> QED BY <1>1, <1>2, <1>4, <1>5, BridgesRest

LEMMA PromiseInvHolds ==
  /\ Init => PromiseInv
  /\ CallInv /\ PromiseInv /\ [Next]_vars => PromiseInv'
<1>1. ASSUME Init PROVE PromiseInv
  <2>1. \A c \in Clients : bridge[c] = Idle /\ conn[c] = NoConnection
    BY <1>1, ClientsArePeers DEF Init
  <2>2. \A c \in Clients : Mediates(c)
    <3> SUFFICES ASSUME NEW c \in Clients PROVE Mediates(c)
      OBVIOUS
    <3>1. bridge[c].pc = "read" /\ bridge[c].msg = NoMessage
      BY <2>1 DEF Idle
    <3>2. conn[c].up = FALSE /\ conn[c].responses = <<>>
      BY <2>1, NoConnectionFields
    <3> QED BY <3>1, <3>2, OneIsNotNone DEF Mediates
  <2>3. pc # "write"
    BY <1>1 DEF Init
  <2> QED BY <2>2, <2>3 DEF PromiseInv, ReplyIsRight
<1>2. ASSUME CallInv, PromiseInv, [Next]_vars PROVE PromiseInv'
  <2>1. CASE \E c \in Clients : BridgeStep(c) \/ BridgeEnds(c) \/ BridgeKilled(c)
    BY <1>2, <2>1, BridgePromises
  <2>2. CASE \E c \in Clients, s \in Shapes : Send(c, s)
    BY <1>2, <2>2, SendPromises
  <2>3. CASE \E o \in Others : OtherStep(o)
    BY <1>2, <2>3, OtherPromises
  <2>4. CASE Accept \/ Restart
    <3>1. UNCHANGED <<performed, bridge, conn>> /\ pc' # "write"
      BY <2>4 DEF Accept, Restart, ServerOnly, serverVars
    <3>2. Remembers /\ ReplyIsRight' /\ \A d \in Clients : Shrinks(d)
      BY <3>1 DEF Remembers, ReplyIsRight, Shrinks
    <3> QED BY <1>2, <3>1, <3>2, BridgesRest
  <2>5. CASE UNCHANGED vars
    <3>1. UNCHANGED <<performed, bridge, conn, peer, pc, reply>>
      BY <2>5 DEF vars, serverVars, loopVars
    <3>2. Remembers /\ \A d \in Clients : Shrinks(d)
      BY <3>1 DEF Remembers, Shrinks
    <3>3. ReplyIsRight'
      BY <1>2, <3>1, <3>2, ReplyStays DEF PromiseInv, CallInv
    <3> QED BY <1>2, <3>1, <3>2, <3>3, BridgesRest
  <2> QED BY <1>2, <2>1, <2>2, <2>3, <2>4, <2>5, ReceivePromises, HandlePromises,
             WritePromises, DeathPromises DEF Next, ClientStep, ServerStep
<1> QED BY <1>1, <1>2

-----------------------------------------------------------------------------
\* The variables of RequestReply, as the service gives them.
TakenBy == [c \in Clients |-> Waiting(c)]
Performed == {performed[i] : i \in DOMAIN performed}
Departed == {c \in Clients : BridgeAt(c, "gone")}

SameTaken(c) == Waiting(c)' = Waiting(c)
SameDeparture(c) == bridge'[c].pc = "gone" <=> bridge[c].pc = "gone"

\* One in hand and the rest of the pipe.
LEMMA Pushed ==
  ASSUME NEW S, NEW m \in S, NEW s \in Seq(S)
  PROVE  LET w == <<m>> \o s
         IN /\ w # <<>> /\ Head(w) = m /\ Tail(w) = s
            /\ \A x \in S : <<m>> \o Append(s, x) = Append(w, x)
<1> DEFINE w == <<m>> \o s
<1>1. /\ w \in Seq(S) /\ Len(w) = Len(s) + 1 /\ w[1] = m /\ Len(s) \in Nat
      /\ \A i \in 1 .. Len(s) : w[i + 1] = s[i]
  OBVIOUS
<1>2. w # <<>> /\ Head(w) = m
  BY <1>1
<1>3. Tail(w) = s
  BY <1>1
<1>4. \A x \in S : <<m>> \o Append(s, x) = Append(w, x)
  OBVIOUS
<1> QED BY <1>2, <1>3, <1>4

LEMMA TakenInHand ==
  ASSUME NEW c \in Clients, bridge[c].msg \in Msgs, inbox[c] \in Seq(Msgs)
  PROVE  /\ Waiting(c) = <<bridge[c].msg>> \o inbox[c] /\ Waiting(c) # <<>>
         /\ Head(Waiting(c)) = bridge[c].msg /\ Tail(Waiting(c)) = inbox[c]
<1>1. Waiting(c) = <<bridge[c].msg>> \o inbox[c]
  BY HeldIsAMessage DEF Waiting
<1> QED BY <1>1, Pushed

LEMMA TakenMoves ==
  ASSUME NEW c \in Clients, NEW s, Waiting(c)' = s,
         \A d \in Clients : d # c => SameTaken(d)
  PROVE  TakenBy' = [TakenBy EXCEPT ![c] = s]
BY DEF TakenBy, SameTaken

LEMMA TakenStays ==
  ASSUME \A d \in Clients : SameTaken(d)
  PROVE  TakenBy' = TakenBy
BY DEF TakenBy, SameTaken

LEMMA DepartedStays ==
  ASSUME \A d \in Clients : SameDeparture(d)
  PROVE  Departed' = Departed
BY DEF Departed, SameDeparture, BridgeAt

LEMMA SameInPipe ==
  ASSUME NEW c \in Clients, bridge'[c].msg = bridge[c].msg, inbox'[c] = inbox[c]
  PROVE  SameTaken(c)
BY DEF SameTaken, Waiting

LEMMA PerformedIsRan == CallInv => \A e : e \in Performed <=> Ran(performed, e)
BY DEF CallInv, RunOnce, Performed, Ran

\* A step that the clients are promised nothing about.
LEMMA StepStutters ==
  ASSUME outbox' = outbox, performed' = performed,
         \A d \in Clients : SameTaken(d) /\ SameDeparture(d)
  PROVE  UNCHANGED Abstract!rrVars
<1>1. TakenBy' = TakenBy /\ Departed' = Departed /\ Performed' = Performed
  BY TakenStays, DepartedStays DEF Performed
<1> QED BY <1>1 DEF Abstract!rrVars, TakenBy, Departed, Performed

LEMMA SendAsks ==
  ASSUME CallInv, PromiseInv, NEW c \in Clients, NEW s \in Shapes, Send(c, s)
  PROVE  Abstract!Ask(c)
<1> DEFINE m == Message(c, sent[c] + 1, s)
<1>1. /\ inbox' = [inbox EXCEPT ![c] = Append(inbox[c], m)]
      /\ UNCHANGED <<performed, bridge, outbox>> /\ sent[c] < Quota[c]
  BY DEF Send, serverVars
<1>2. /\ sent[c] \in Nat /\ inbox[c] \in Seq(Msgs) /\ DOMAIN inbox = Clients
      /\ bridge[c].msg \in Msgs \cup {NoMessage}
  BY DEF CallInv, Numbered, PromiseInv, Mediates
<1>3. m \in Messages /\ m.from = c
  <2>1. Quota[c] \in 0 .. MaxSent
    BY PeersAssumption
  <2>2. sent[c] + 1 \in 1 .. MaxSent
    BY <1>1, <1>2, <2>1, MaxSentAssumption
  <2>3. m \in Messages
    BY <2>2 DEF Messages
  <2> QED BY <2>3 DEF Message
<1>4. m \in Msgs
  BY <1>2, SentMessages
<1> HIDE DEF m
<1>5. inbox'[c] = Append(inbox[c], m) /\ \A d \in Clients : d # c => inbox'[d] = inbox[d]
  BY <1>1, <1>2
<1>6. Waiting(c)' = Append(Waiting(c), m)
  <2>1. CASE bridge[c].msg = NoMessage
    BY <1>1, <1>5, <2>1 DEF Waiting
  <2>2. CASE bridge[c].msg \in Msgs
    <3>1. Waiting(c)' = <<bridge[c].msg>> \o Append(inbox[c], m)
      BY <1>1, <1>5, <2>2, HeldIsAMessage DEF Waiting
    <3>2. Waiting(c) = <<bridge[c].msg>> \o inbox[c]
      BY <1>2, <2>2, TakenInHand
    <3> QED BY <1>2, <1>4, <2>2, <3>1, <3>2, Pushed
  <2> QED BY <1>2, <2>1, <2>2
<1>7. \A d \in Clients : d # c => SameTaken(d)
  BY <1>1, <1>5, SameInPipe
<1>8. TakenBy' = [TakenBy EXCEPT ![c] = Append(TakenBy[c], m)]
  <2>1. TakenBy[c] = Waiting(c)
    BY DEF TakenBy
  <2> QED BY <1>6, <1>7, <2>1, TakenMoves
<1>9. Departed' = Departed /\ Performed' = Performed /\ outbox' = outbox
  BY <1>1, DepartedStays DEF SameDeparture, Performed
<1> QED BY <1>3, <1>8, <1>9 DEF Abstract!Ask, TakenBy, Departed, Performed

\* A line for the client settles the message that the bridge has in hand.
LEMMA TellSettles ==
  ASSUME CallInv, PromiseInv, NEW c \in Clients, NEW kind, Tell(c, kind),
         kind \in Kinds \cup {"truncated"}, Truthful(c, kind),
         bridge[c].pc \in {"connect", "send", "wait"},
         inbox' = inbox, performed' = performed
  PROVE  Abstract!Settle(c)
<1> DEFINE m == bridge[c].msg
<1>1. m \in Msgs /\ inbox[c] \in Seq(Msgs) /\ Shaped
  BY DEF PromiseInv, Mediates, CallInv, Numbered, ConnInv
<1>2. /\ Waiting(c) # <<>> /\ Head(Waiting(c)) = m /\ Tail(Waiting(c)) = inbox[c]
  BY <1>1, TakenInHand
<1>3. /\ Bridged(c, bridge') /\ bridge'[c].pc = "read" /\ bridge'[c].msg = NoMessage
  BY <1>1, TellBridges
<1>4. Waiting(c)' = inbox[c]
  BY <1>3 DEF Waiting
<1>5. \A d \in Clients : d # c => SameTaken(d)
  BY <1>3, SameInPipe DEF Bridged
<1>6. TakenBy[c] = Waiting(c) /\ TakenBy' = [TakenBy EXCEPT ![c] = Tail(TakenBy[c])]
  <2>1. TakenBy[c] = Waiting(c)
    BY DEF TakenBy
  <2> QED BY <1>2, <1>4, <1>5, <2>1, TakenMoves
<1>7. Departed' = Departed /\ Performed' = Performed /\ c \notin Departed
  <2>1. \A d \in Clients : SameDeparture(d)
    BY <1>3 DEF SameDeparture, Bridged
  <2>2. Departed' = Departed
    BY <2>1, DepartedStays
  <2> QED BY <2>2 DEF Departed, Performed, BridgeAt
<1>8. kind = "result" /\ IsCall(m) => <<c, m.n>> \in Performed
  BY PerformedIsRan DEF Truthful, IsCall
<1>9. \/ ExpectsLine(m) /\ outbox' = [outbox EXCEPT ![c] =
                                       Append(outbox[c], [n |-> m.n, kind |-> kind])]
      \/ ~ExpectsLine(m) /\ outbox' = outbox
  BY DEF Tell
<1> HIDE DEF m
<1> QED BY <1>2, <1>6, <1>7, <1>8, <1>9
        DEF Abstract!Settle, TakenBy, Departed, Performed

\* Its client is promised nothing more once the bridge has gone.
LEMMA LeavingGoes ==
  ASSUME CallInv, NEW c \in Clients, GoOn(c, "gone"), inbox' = inbox,
         outbox' = outbox, performed' = performed
  PROVE  Abstract!Go(c)
<1>1. Bridged(c, bridge') /\ bridge'[c].pc = "gone" /\ bridge'[c].msg = bridge[c].msg
  <2>1. "gone" \in Places
    BY DEF Places
  <2> QED BY <2>1, GoOnBridges DEF CallInv, ConnInv
<1>2. TakenBy' = TakenBy
  BY <1>1, SameInPipe, TakenStays DEF Bridged
<1>3. Departed' = Departed \cup {c}
  BY <1>1 DEF Departed, BridgeAt, Bridged
<1>4. Performed' = Performed
  BY DEF Performed
<1> QED BY <1>2, <1>3, <1>4 DEF Abstract!Go, TakenBy, Departed, Performed

\* Reading a line takes it from the pipe into the bridge's hands.
LEMMA ReadStutters ==
  ASSUME CallInv, PromiseInv, NEW c \in Clients, BridgeRead(c)
  PROVE  UNCHANGED Abstract!rrVars
<1>1. /\ Bridged(c, bridge') /\ bridge[c].pc = "read" /\ bridge'[c].pc = "connect"
      /\ bridge'[c].msg = Head(inbox[c])
      /\ outbox' = outbox /\ performed' = performed /\ inbox[c] # <<>>
      /\ inbox' = [inbox EXCEPT ![c] = Tail(inbox[c])]
  BY ReadBridges DEF BridgeRead, serverVars, CallInv, ConnInv
<1>2. /\ inbox[c] \in Seq(Msgs) /\ DOMAIN inbox = Clients /\ bridge[c].msg = NoMessage
  BY <1>1 DEF CallInv, Numbered, PromiseInv, Mediates
<1>3. Head(inbox[c]) \in Msgs /\ <<Head(inbox[c])>> \o Tail(inbox[c]) = inbox[c]
  <2>1. \A s \in Seq(Msgs) : s # <<>> => Head(s) \in Msgs /\ <<Head(s)>> \o Tail(s) = s
    OBVIOUS
  <2> QED BY <1>1, <1>2, <2>1
<1>4. inbox'[c] = Tail(inbox[c]) /\ \A d \in Clients : d # c => inbox'[d] = inbox[d]
  <2>1. PICK rest : rest = Tail(inbox[c])
    OBVIOUS
  <2>2. inbox' = [inbox EXCEPT ![c] = rest]
    BY <1>1, <2>1
  <2>3. DOMAIN inbox = Clients
    BY <1>2
  <2>4. inbox'[c] = rest /\ \A d \in Clients : d # c => inbox'[d] = inbox[d]
    BY <2>2, <2>3
  <2> QED BY <2>1, <2>4
<1>5. SameTaken(c)
  BY <1>1, <1>2, <1>3, <1>4, HeldIsAMessage DEF SameTaken, Waiting
<1>6. \A d \in Clients : d # c => SameTaken(d)
  BY <1>1, <1>4, SameInPipe DEF Bridged
<1>7. \A d \in Clients : SameDeparture(d)
  BY <1>1 DEF SameDeparture, Bridged
<1> QED BY <1>1, <1>5, <1>6, <1>7, StepStutters

\* A bridge that goes on with its message.
LEMMA GoingOnStutters ==
  ASSUME CallInv, NEW c \in Clients, NEW point \in {"send", "wait"}, GoOn(c, point),
         bridge[c].pc # "gone", outbox' = outbox, inbox' = inbox, performed' = performed
  PROVE  UNCHANGED Abstract!rrVars
<1>1. Bridged(c, bridge') /\ bridge'[c].pc = point /\ bridge'[c].msg = bridge[c].msg
  <2>1. point \in Places
    BY DEF Places
  <2> QED BY <2>1, GoOnBridges DEF CallInv, ConnInv
<1>2. \A d \in Clients : SameTaken(d) /\ SameDeparture(d)
  BY <1>1, SameInPipe DEF Bridged, SameDeparture
<1> QED BY <1>2, StepStutters

\* The response on a connection is one that its bridge may pass on.
LEMMA ResponseIsRight ==
  ASSUME CallInv, PromiseInv, NEW c \in Clients, conn[c].responses # <<>>
  PROVE  /\ Head(conn[c].responses).body \in Bodies
         /\ Truthful(c, Head(conn[c].responses).body)
<1>1. Short(conn[c].responses)
  BY ClientsArePeers DEF CallInv, ConnInv, Served
<1>2. PICK r : conn[c].responses = <<r>>
  BY <1>1 DEF Short
<1>3. r.body \in Bodies /\ Truthful(c, r.body)
  BY <1>2 DEF PromiseInv, Mediates
<1>4. Head(<<r>>) = r
  OBVIOUS
<1> QED BY <1>2, <1>3, <1>4

LEMMA ErrorsAreTruthful ==
  ASSUME NEW c
  PROVE  "bridge_error" \in Kinds \cup {"truncated"} /\ Truthful(c, "bridge_error")
BY DEF Kinds, Truthful

LEMMA BridgeImplements ==
  ASSUME CallInv, PromiseInv, NEW c \in Clients,
         BridgeStep(c) \/ BridgeEnds(c) \/ BridgeKilled(c)
  PROVE  Abstract!RRNext \/ UNCHANGED Abstract!rrVars
<1>1. CASE BridgeRead(c)
  BY <1>1, ReadStutters
<1>2. CASE BridgeEnds(c) \/ BridgeKilled(c)
  BY <1>2, LeavingGoes DEF BridgeEnds, BridgeKilled, BridgeOnly, clientVars, serverVars,
     Abstract!RRNext
<1>3. CASE BridgeConnect(c)
  <2>1. bridge[c].pc = "connect" /\ inbox' = inbox /\ performed' = performed
    BY <1>3 DEF BridgeConnect, BridgeAt, clientVars, serverVars
  <2>2. CASE GoOn(c, "send") /\ outbox' = outbox
    BY <2>1, <2>2, GoingOnStutters
  <2>3. CASE Tell(c, "bridge_error")
    BY <2>1, <2>3, ErrorsAreTruthful, TellSettles DEF Abstract!RRNext
  <2> QED BY <1>3, <2>2, <2>3 DEF BridgeConnect
<1>4. CASE BridgeSend(c)
  <2>1. bridge[c].pc = "send" /\ inbox' = inbox /\ performed' = performed
    BY <1>4 DEF BridgeSend, BridgeAt, BridgeOnly, clientVars, serverVars
  <2>2. CASE GoOn(c, "wait") /\ outbox' = outbox
    BY <2>1, <2>2, GoingOnStutters
  <2>3. CASE Tell(c, "bridge_error")
    BY <2>1, <2>3, ErrorsAreTruthful, TellSettles DEF Abstract!RRNext
  <2>4. CASE GoOn(c, "gone") /\ outbox' = outbox
    BY <2>1, <2>4, LeavingGoes DEF Abstract!RRNext
  <2> QED BY <1>4, <2>2, <2>3, <2>4 DEF BridgeSend
<1>5. CASE BridgeReceive(c)
  <2>1. bridge[c].pc = "wait" /\ inbox' = inbox /\ performed' = performed
    BY <1>5 DEF BridgeReceive, BridgeAt, BridgeOnly, clientVars, serverVars
  <2>2. PICK kind : Tell(c, kind) /\ \/ kind = "bridge_error"
                                     \/ /\ conn[c].responses # <<>> /\ kind # "nothing"
                                        /\ kind = Head(conn[c].responses).body
    BY <1>5 DEF BridgeReceive
  <2>3. kind \in Kinds \cup {"truncated"} /\ Truthful(c, kind)
    BY <2>2, ErrorsAreTruthful, ResponseIsRight DEF Bodies
  <2> QED BY <2>1, <2>2, <2>3, TellSettles DEF Abstract!RRNext
<1> QED BY <1>1, <1>2, <1>3, <1>4, <1>5 DEF BridgeStep

\* A call is run while the bridge of its sender holds it.
LEMMA HandleImplements ==
  ASSUME CallInv, CallInv', PromiseInv, Handle
  PROVE  Abstract!RRNext \/ UNCHANGED Abstract!rrVars
<1>1. /\ pc = "handle" /\ UNCHANGED <<bridge, inbox, outbox>>
  BY DEF Handle, ServerOnly, clientVars
<1>2. TakenBy' = TakenBy /\ Departed' = Departed
  BY <1>1, TakenStays, DepartedStays DEF SameTaken, Waiting, SameDeparture
<1>3. CASE performed' = performed
  BY <1>1, <1>3, StepStutters DEF SameTaken, Waiting, SameDeparture
<1>4. CASE msg.form = "call" /\ performed' = Append(performed, <<msg.from, msg.n>>)
  <2>1. PICK c \in Clients : c = peer
    BY <1>1, HandledIsHeld
  <2>2. /\ msg.from = c /\ <<msg.from, msg.n>> \in Clients \X Nat
        /\ bridge[c].msg # NoMessage /\ bridge[c].msg.n = msg.n
        /\ bridge[c].msg.form = "call" /\ ~Ran(performed, <<c, msg.n>>)
    BY <1>1, <1>4, <2>1, HandledIsHeld
  <2>3. inbox[c] \in Seq(Msgs) /\ bridge[c].msg \in Msgs
    BY <2>2 DEF CallInv, Numbered, PromiseInv, Mediates
  <2>4. Waiting(c) # <<>> /\ Head(Waiting(c)) = bridge[c].msg /\ TakenBy[c] = Waiting(c)
    BY <2>3, TakenInHand DEF TakenBy
  <2> DEFINE e == <<c, bridge[c].msg.n>>
  <2>5. performed' = Append(performed, e) /\ e \in Clients \X Nat
    BY <1>4, <2>2
  <2>6. e \notin Performed
    BY <2>2, PerformedIsRan
  <2> HIDE DEF e
  <2>7. Performed' = Performed \cup {e}
    <3>0. DOMAIN performed' = 1 .. Len(performed')
      BY <2>5 DEF CallInv, RunOnce
    <3>1. \A x : x \in Performed' <=> Ran(performed', x)
      BY <3>0 DEF Performed, Ran
    <3>2. Remembers /\ Ran(performed', e)
          /\ \A x : Ran(performed', x) => Ran(performed, x) \/ x = e
      BY <2>5, AppendRan
    <3>3. \A x : Ran(performed, x) => Ran(performed', x)
      BY <3>2 DEF Remembers
    <3>4. \A x : x \in Performed <=> Ran(performed, x)
      BY PerformedIsRan
    <3> QED BY <3>1, <3>2, <3>3, <3>4
  <2>8. Abstract!RunHead(c)
    BY <1>1, <1>2, <2>2, <2>4, <2>6, <2>7
    DEF Abstract!RunHead, IsCall, e, TakenBy, Departed, Performed
  <2> QED BY <2>8 DEF Abstract!RRNext
<1> QED BY <1>3, <1>4, HandleRuns

LEMMA StepImplements ==
  ASSUME CallInv, CallInv', PromiseInv, [Next]_vars
  PROVE  [Abstract!RRNext]_(Abstract!rrVars)
<1>1. CASE \E c \in Clients : BridgeStep(c) \/ BridgeEnds(c) \/ BridgeKilled(c)
  BY <1>1, BridgeImplements
<1>2. CASE \E c \in Clients, s \in Shapes : Send(c, s)
  BY <1>2, SendAsks DEF Abstract!RRNext
<1>3. CASE UNCHANGED <<performed, bridge, inbox, outbox>>
  BY <1>3, StepStutters DEF SameTaken, Waiting, SameDeparture
<1>4. CASE (\E o \in Others : OtherStep(o)) \/ Accept \/ Receive \/ Write \/ Die \/ Restart
  BY <1>3, <1>4 DEF OtherStep, OtherConnects, OtherSends, OtherCloses, OthersOnly, Accept,
     Receive, Write, Die, Restart, ServerOnly, clientVars, serverVars
<1>5. CASE UNCHANGED vars
  BY <1>3, <1>5 DEF vars, clientVars, serverVars
<1> QED BY <1>1, <1>2, <1>4, <1>5, HandleImplements DEF Next, ClientStep, ServerStep

LEMMA InitImplements == Init => Abstract!RRInit
<1> SUFFICES ASSUME Init PROVE Abstract!RRInit
  OBVIOUS
<1>1. \A c \in Clients : bridge[c] = Idle /\ inbox[c] = <<>>
  BY DEF Init
<1>2. \A c \in Clients : Waiting(c) = <<>> /\ ~BridgeAt(c, "gone")
  <2>1. Idle.msg = NoMessage /\ Idle.pc = "read"
    BY DEF Idle
  <2>2. \A c \in Clients : bridge[c].msg = NoMessage /\ bridge[c].pc = "read"
    BY <1>1, <2>1
  <2> QED BY <1>1, <2>2 DEF Waiting, BridgeAt
<1>3. performed = <<>> /\ outbox = [c \in Clients |-> <<>>]
  BY DEF Init, ServerInit
<1>4. TakenBy = [c \in Clients |-> <<>>] /\ Departed = {}
  BY <1>2 DEF TakenBy, Departed
<1>5. Performed = {}
  <2>1. DOMAIN performed = {}
    BY <1>3
  <2> QED BY <2>1 DEF Performed
<1> QED BY <1>3, <1>4, <1>5 DEF Abstract!RRInit, TakenBy, Departed, Performed

(***************************************************************************)
(* The service keeps the promises of RequestReply, for any number of       *)
(* clients and of peers without a bridge, any messages, whoever dies when: *)
(* every step of a bridge, of the server and of their deaths is one that   *)
(* the clients were promised, or one that they do not see.                 *)
(***************************************************************************)
THEOREM PromiseKept == Spec => KeepsThePromise
<1>1. CallInv /\ CallInv' /\ PromiseInv /\ [Next]_vars
        => [Abstract!RRNext]_(Abstract!rrVars)
  BY StepImplements
<1>2. Spec => Abstract!RRInit /\ [][Abstract!RRNext]_(Abstract!rrVars)
  BY <1>1, InitImplements, CallInvHolds, PromiseInvHolds, SpecSteps, PTL
<1>3. Abstract!RRInit /\ [][Abstract!RRNext]_(Abstract!rrVars) => KeepsThePromise
  BY PTL DEF KeepsThePromise, Abstract!RRSpec
<1> QED BY <1>2, <1>3, PTL

-----------------------------------------------------------------------------
(***************************************************************************)
(* Type correctness rests on the promises: a line is about the message in  *)
(* the bridge's hands, whose number its sender's quota bounds, and of a    *)
(* kind that was on the connection.                                        *)
(***************************************************************************)
Line == [n : 1 .. MaxSent, kind : Kinds \cup {"truncated"}]

WithinQuota ==
  \A c \in Clients : /\ sent[c] <= Quota[c]
                     /\ bridge[c].msg # NoMessage => bridge[c].msg.n \in 1 .. MaxSent
Lines ==
  /\ DOMAIN outbox = Clients
  /\ \A c \in Clients : outbox[c] \in Seq(Line)
InItsLoop ==
  /\ peer \in Peers \cup {Nobody}
  /\ pc \in {"accept", "receive", "handle", "write", "down"}
  /\ peer = Nobody <=> pc \in {"accept", "down"}

TypeInv == ServerTypeOK /\ WithinQuota /\ Lines /\ InItsLoop
Invs == CallInv /\ PromiseInv

\* The numbers in a pipe are those of messages sent.
LEMMA NumbersInPipe ==
  ASSUME Invs, WithinQuota, NEW c \in Clients, inbox[c] # <<>>
  PROVE  Head(inbox[c]).n \in 1 .. MaxSent
<1>1. /\ sent[c] \in Nat /\ inbox[c] \in Seq(Msgs) /\ Last(c) \in Nat
      /\ \A i \in 1 .. Len(inbox[c]) : inbox[c][i].n = Last(c) + i
  BY DEF Invs, CallInv, Numbered
<1>2. /\ Len(inbox[c]) \in Nat /\ 1 <= Len(inbox[c]) /\ Head(inbox[c]) = inbox[c][1]
  BY <1>1
<1>3. Quota[c] \in Nat /\ Quota[c] <= MaxSent /\ sent[c] <= Quota[c] /\ MaxSent \in Nat
  BY PeersAssumption, MaxSentAssumption DEF WithinQuota
<1>4. Head(inbox[c]).n = Last(c) + 1
  BY <1>1, <1>2
<1> QED BY <1>1, <1>2, <1>3, <1>4 DEF Last

\* What a bridge does to the lines and to the message it holds.
LEMMA TellWrites ==
  ASSUME Invs, WithinQuota, Lines, NEW c \in Clients, NEW kind, Tell(c, kind),
         bridge[c].pc \in {"connect", "send", "wait"},
         kind \in Kinds \cup {"truncated"}, sent' = sent
  PROVE  WithinQuota' /\ Lines'
<1>1. Bridged(c, bridge') /\ bridge'[c].msg = NoMessage
  BY TellBridges DEF Invs, CallInv, ConnInv
<1>2. WithinQuota'
  BY <1>1 DEF WithinQuota, Bridged
<1>3. [n |-> bridge[c].msg.n, kind |-> kind] \in Line
  BY DEF Invs, PromiseInv, Mediates, WithinQuota, Line
<1>4. \A s \in Seq(Line), x \in Line : Append(s, x) \in Seq(Line)
  OBVIOUS
<1>5. Lines'
  BY <1>3, <1>4 DEF Tell, Lines
<1> QED BY <1>2, <1>5

LEMMA GoingOnWrites ==
  ASSUME Invs, WithinQuota, Lines, NEW c \in Clients, NEW point \in Places,
         GoOn(c, point), sent' = sent, outbox' = outbox
  PROVE  WithinQuota' /\ Lines'
<1>1. Bridged(c, bridge') /\ bridge'[c].msg = bridge[c].msg
  BY GoOnBridges DEF Invs, CallInv, ConnInv
<1> QED BY <1>1 DEF WithinQuota, Lines, Bridged

LEMMA BridgeWrites ==
  ASSUME Invs, WithinQuota, Lines, NEW c \in Clients,
         BridgeStep(c) \/ BridgeEnds(c) \/ BridgeKilled(c)
  PROVE  WithinQuota' /\ Lines'
<1>0. {"send", "wait", "gone"} \subseteq Places /\ "bridge_error" \in Kinds
  BY DEF Places, Kinds
<1>1. CASE BridgeRead(c)
  <2>1. /\ Bridged(c, bridge') /\ bridge'[c].msg = Head(inbox[c])
        /\ inbox[c] # <<>> /\ UNCHANGED <<sent, outbox>>
    BY <1>1, ReadBridges DEF BridgeRead, Invs, CallInv, ConnInv
  <2>2. Head(inbox[c]).n \in 1 .. MaxSent
    BY <2>1, NumbersInPipe
  <2> QED BY <2>1, <2>2 DEF WithinQuota, Lines, Bridged
<1>2. CASE BridgeEnds(c) \/ BridgeKilled(c)
  BY <1>0, <1>2, GoingOnWrites DEF BridgeEnds, BridgeKilled, BridgeOnly, clientVars
<1>3. CASE BridgeConnect(c)
  <2>1. bridge[c].pc = "connect" /\ sent' = sent
    BY <1>3 DEF BridgeConnect, BridgeAt, clientVars
  <2>2. (GoOn(c, "send") /\ outbox' = outbox) \/ Tell(c, "bridge_error")
    BY <1>3 DEF BridgeConnect
  <2> QED BY <1>0, <2>1, <2>2, GoingOnWrites, TellWrites
<1>4. CASE BridgeSend(c)
  <2>1. bridge[c].pc = "send" /\ sent' = sent
    BY <1>4 DEF BridgeSend, BridgeAt, BridgeOnly, clientVars
  <2>2. \/ outbox' = outbox /\ (GoOn(c, "wait") \/ GoOn(c, "gone"))
        \/ Tell(c, "bridge_error")
    BY <1>4 DEF BridgeSend
  <2> QED BY <1>0, <2>1, <2>2, GoingOnWrites, TellWrites
<1>5. CASE BridgeReceive(c)
  <2>1. bridge[c].pc = "wait" /\ sent' = sent
    BY <1>5 DEF BridgeReceive, BridgeAt, BridgeOnly, clientVars
  <2>2. PICK kind : Tell(c, kind) /\ \/ kind = "bridge_error"
                                     \/ /\ conn[c].responses # <<>> /\ kind # "nothing"
                                        /\ kind = Head(conn[c].responses).body
    BY <1>5 DEF BridgeReceive
  <2>3. kind \in Kinds \cup {"truncated"}
    BY <1>0, <2>2, ResponseIsRight DEF Bodies, Invs
  <2> QED BY <2>1, <2>2, <2>3, TellWrites
<1> QED BY <1>1, <1>2, <1>3, <1>4, <1>5 DEF BridgeStep

\* What the server holds of its clients.
LEMMA HandleTypes ==
  ASSUME Invs, WithinQuota, ServerTypeOK, Handle
  PROVE  ServerTypeOK'
<1>1. PICK r : HandleMessage(msg, r)
  BY DEF Handle
<1>2. PICK c \in Clients : c = peer
  BY HandledIsHeld DEF Invs, Handle
<1>3. msg.from = c /\ msg.n \in 1 .. MaxSent
  BY <1>2, HandledIsHeld DEF Invs, Handle, WithinQuota
<1>4. Append(performed, <<msg.from, msg.n>>) \in Seq(Clients \X (1 .. MaxSent))
  BY <1>3 DEF ServerTypeOK
<1>5. /\ session' \in BOOLEAN /\ ledger' \subseteq Clients /\ desktop' \subseteq Clients
      /\ performed' \in {performed, Append(performed, <<msg.from, msg.n>>)}
  <2>1. CASE RunsTool(msg) /\ Run(msg) /\ session' = TRUE
    BY <1>3, <2>1 DEF Run, ReleaseAll, ServerTypeOK
  <2>2. CASE UNCHANGED <<session, ledger, desktop, performed>>
    BY <2>2 DEF ServerTypeOK
  <2> QED BY <1>1, <2>1, <2>2 DEF HandleMessage, CallTool
<1>6. legacySession' \in BOOLEAN
  BY <1>1 DEF HandleMessage
<1> QED BY <1>4, <1>5, <1>6 DEF ServerTypeOK

LEMMA ServerRuns ==
  ASSUME InItsLoop, ConnInv, ServerStep \/ Die \/ Restart
  PROVE  InItsLoop'
<1>1. CASE Accept
  <2>1. backlog \in Seq(Peers) /\ backlog # <<>>
    BY <1>1 DEF Accept, ConnInv, Shaped
  <2>2. Head(backlog) \in Peers
    BY <2>1
  <2> QED BY <1>1, <2>2, PeersAssumption DEF Accept, InItsLoop
<1>2. CASE Receive
  BY <1>2 DEF Receive, BackToAccept, InItsLoop
<1>3. CASE Handle
  BY <1>3 DEF Handle, InItsLoop
<1>4. CASE Write
  BY <1>4 DEF Write, BackToAccept, InItsLoop
<1>5. CASE Die \/ Restart
  BY <1>5 DEF Die, Restart, InItsLoop
<1> QED BY <1>1, <1>2, <1>3, <1>4, <1>5 DEF ServerStep

LEMMA TypesHold == Invs /\ TypeInv /\ [Next]_vars => TypeInv'
<1> SUFFICES ASSUME Invs, TypeInv, [Next]_vars PROVE TypeInv'
  OBVIOUS
<1> USE DEF TypeInv
<1>1. ASSUME NEW c \in Clients, BridgeStep(c) \/ BridgeEnds(c) \/ BridgeKilled(c)
      PROVE  TypeInv'
  <2>1. UNCHANGED <<serverVars, peer, pc>>
    BY <1>1 DEF BridgeStep, BridgeRead, BridgeConnect, BridgeSend, BridgeReceive,
       BridgeEnds, BridgeKilled, BridgeOnly, loopVars
  <2>2. ServerTypeOK' /\ InItsLoop'
    BY <2>1 DEF ServerTypeOK, InItsLoop, serverVars
  <2> QED BY <1>1, <2>2, BridgeWrites
<1>2. ASSUME NEW c \in Clients, NEW s \in Shapes, Send(c, s) PROVE TypeInv'
  <2>1. /\ UNCHANGED <<serverVars, bridge, outbox, peer, pc>>
        /\ sent[c] < Quota[c] /\ sent' = [sent EXCEPT ![c] = sent[c] + 1]
    BY <1>2 DEF Send, loopVars
  <2>2. DOMAIN sent = Clients /\ sent[c] \in Nat /\ Quota[c] \in Int
    BY PeersAssumption, MaxSentAssumption DEF Invs, CallInv, Numbered
  <2>3. WithinQuota'
    BY <2>1, <2>2 DEF WithinQuota
  <2> QED BY <2>1, <2>3 DEF ServerTypeOK, InItsLoop, Lines, serverVars
<1>3. ASSUME NEW o \in Others, OtherStep(o) PROVE TypeInv'
  BY <1>3 DEF OtherStep, OtherConnects, OtherSends, OtherCloses, OthersOnly, serverVars,
     clientVars, ServerTypeOK, WithinQuota, Lines, InItsLoop
<1>4. CASE ServerStep \/ Die \/ Restart
  <2>1. UNCHANGED <<sent, bridge, outbox>>
    BY <1>4 DEF ServerStep, Accept, Receive, Handle, Write, Die, Restart, ServerOnly,
       clientVars
  <2>2. WithinQuota' /\ Lines'
    BY <2>1 DEF WithinQuota, Lines
  <2>3. ServerTypeOK'
    <3>1. CASE Accept \/ Receive \/ Write \/ Restart
      BY <3>1 DEF Accept, Receive, Write, Restart, serverVars, ServerTypeOK
    <3>2. CASE Die
      BY <3>2 DEF Die, ServerTypeOK
    <3> QED BY <1>4, <3>1, <3>2, HandleTypes DEF ServerStep
  <2>4. InItsLoop'
    BY <1>4, ServerRuns DEF Invs, CallInv
  <2> QED BY <2>2, <2>3, <2>4
<1>5. CASE UNCHANGED vars
  BY <1>5 DEF vars, serverVars, clientVars, loopVars, ServerTypeOK, WithinQuota, Lines,
     InItsLoop
<1> QED BY <1>1, <1>2, <1>3, <1>4, <1>5 DEF Next, ClientStep

LEMMA TypesBegin == Init => TypeInv
<1> SUFFICES ASSUME Init PROVE TypeInv
  OBVIOUS
<1>1. ServerTypeOK
  <2>1. <<>> \in Seq(Clients \X (1 .. MaxSent))
    OBVIOUS
  <2> QED BY <2>1 DEF Init, ServerInit, ServerTypeOK
<1>2. WithinQuota
  <2> SUFFICES ASSUME NEW c \in Clients
               PROVE  sent[c] <= Quota[c] /\ bridge[c].msg = NoMessage
    BY DEF WithinQuota
  <2>1. Quota[c] \in 0 .. MaxSent
    BY PeersAssumption
  <2>2. sent[c] = 0 /\ bridge[c] = Idle
    BY DEF Init
  <2>3. sent[c] <= Quota[c]
    BY <2>1, <2>2, MaxSentAssumption
  <2> QED BY <2>2, <2>3 DEF Idle
<1>3. Lines
  <2>1. <<>> \in Seq(Line)
    OBVIOUS
  <2> QED BY <2>1 DEF Init, Lines
<1>4. InItsLoop
  BY DEF Init, InItsLoop
<1> QED BY <1>1, <1>2, <1>3, <1>4 DEF TypeInv

(***************************************************************************)
(* Type correctness, for any number of clients and peers: the server has a *)
(* client in its hands exactly while it serves, a line a bridge writes has *)
(* the number of a message its client sent and a kind the server or the    *)
(* bridge gives, and what is held or on record is the clients'.            *)
(***************************************************************************)
THEOREM ServiceTypeCorrect == Spec => []TypeOK
<1>1. Invs /\ TypeInv => TypeOK
  BY DEF Invs, CallInv, ConnInv, Shaped, TypeInv, InItsLoop, Lines, Line, TypeOK
<1>2. Init => Invs
  BY CallInvHolds, PromiseInvHolds DEF Invs
<1>3. Invs /\ [Next]_vars => Invs'
  BY CallInvHolds, PromiseInvHolds DEF Invs
<1> QED BY <1>1, <1>2, <1>3, TypesBegin, TypesHold, SpecSteps, PTL
=============================================================================
