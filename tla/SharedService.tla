--------------------------- MODULE SharedService ----------------------------
(***************************************************************************)
(* The service that several clients share: each client talks over stdio to *)
(* a bridge of its own (src/mcp/bridge.cpp), which posts its messages one  *)
(* by one to the one server process (Server, HttpTransport of              *)
(* src/mcp/transport.cpp) that launchd keeps alive.  Others reach the same *)
(* port directly.  The server serves one connection at a time and any of   *)
(* these processes may die at any point.                                   *)
(***************************************************************************)
EXTENDS Server

CONSTANTS
  Quota,       \* by client: bound on the messages it sends
  Others,      \* peers that connect without a bridge
  Stale        \* the clients whose token setup may have replaced since

Peers == Clients \cup Others
Nobody == "nobody"

ASSUME PeersAssumption ==
  /\ Quota \in [Clients -> 0 .. MaxSent]
  /\ Others \cap Clients = {} /\ Nobody \notin Peers
  /\ Stale \subseteq Clients

VARIABLES
  sent,      \* by client: history of the number of messages it has sent
  inbox,     \* by client: what its bridge has not read
  outbox,    \* by client: the lines its bridge has written, in order
  bridge,    \* by client: its bridge
  conn,      \* by peer: its connection
  backlog,   \* the connections not accepted yet
  peer,      \* the one being served: client_
  pc,        \* the server: "accept", "receive", "handle", "write" or "down"
  msg,       \* the message being handled
  reply      \* what handle_message has returned

clientVars == <<sent, inbox>>
loopVars == <<backlog, peer, pc, msg, reply>>
vars == <<serverVars, clientVars, outbox, bridge, conn, loopVars>>

NoMessage == [form |-> "nothing"]

(***************************************************************************)
(* A connection: whether the server has it open (up) and whether the peer  *)
(* has (open), whether the request has arrived in whole, and the responses *)
(* sent on it.  Nothing is kept of a connection that both have closed.     *)
(***************************************************************************)
NoConnection ==
  [up |-> FALSE, open |-> FALSE, m |-> NoMessage, whole |-> FALSE,
   responses |-> <<>>]
Hung(k) == IF k.up \/ k.open THEN k ELSE NoConnection
Connection(m, whole) ==
  [up |-> TRUE, open |-> TRUE, m |-> m, whole |-> whole, responses |-> <<>>]
LeftBy(p) == [conn EXCEPT ![p] = Hung([@ EXCEPT !.open = FALSE])]

Idle == [pc |-> "read", msg |-> NoMessage, legacy |-> FALSE]

Init ==
  /\ ServerInit
  /\ sent = [c \in Clients |-> 0]
  /\ inbox = [c \in Clients |-> <<>>]
  /\ outbox = [c \in Clients |-> <<>>]
  /\ bridge = [c \in Clients |-> Idle]
  /\ conn = [p \in Peers |-> NoConnection]
  /\ backlog = <<>> /\ peer = Nobody /\ pc = "accept"
  /\ msg = NoMessage /\ reply = NoReply

-----------------------------------------------------------------------------
BridgeAt(c, point) == bridge[c].pc = point

(* The clients. *)
Send(c, s) ==
  /\ ~BridgeAt(c, "gone")
  /\ sent[c] < Quota[c]
  /\ sent' = [sent EXCEPT ![c] = @ + 1]
  /\ inbox' = [inbox EXCEPT ![c] = Append(@, Message(c, sent[c] + 1, s))]
  /\ UNCHANGED <<serverVars, outbox, bridge, conn, loopVars>>

-----------------------------------------------------------------------------
(***************************************************************************)
(* The bridge.  It writes a line for every request, whatever happens, and  *)
(* none for a notification.                                                *)
(***************************************************************************)
GoOn(c, point) == bridge' = [bridge EXCEPT ![c].pc = point]
BridgeOnly == UNCHANGED <<serverVars, clientVars, loopVars>>

(* Nothing but JSON can be seen to be a notification. *)
ExpectsLine(m) == m.id \/ m.form = "garbled"

(* Mutant of Tell: notifications get a line too. *)
TellAlways(c, kind) ==
  /\ outbox' = [outbox EXCEPT ![c] = Append(@, [n |-> bridge[c].msg.n, kind |-> kind])]
  /\ bridge' = [bridge EXCEPT ![c].pc = "read", ![c].msg = NoMessage]

Tell(c, kind) ==
  /\ outbox' = IF ExpectsLine(bridge[c].msg)
               THEN [outbox EXCEPT ![c] =
                       Append(@, [n |-> bridge[c].msg.n, kind |-> kind])]
               ELSE outbox
  /\ bridge' = [bridge EXCEPT ![c].pc = "read", ![c].msg = NoMessage]

(* Before a handshake the bridge declares the version the client did not. *)
Enriched(c) ==
  LET m == bridge[c].msg
  IN IF m.form = "garbled" \/ bridge[c].legacy \/ HasVersion(m) THEN m
     ELSE [m EXCEPT !.meta = "modern"]

BridgeRead(c) ==
  /\ BridgeAt(c, "read") /\ inbox[c] # <<>>
  /\ bridge' = [bridge EXCEPT ![c].pc = "connect", ![c].msg = Head(inbox[c]),
                  ![c].legacy = @ \/ Head(inbox[c]).form = "initialize"]
  /\ inbox' = [inbox EXCEPT ![c] = Tail(@)]
  /\ UNCHANGED <<serverVars, sent, outbox, conn, loopVars>>

(* Its client closes the pipe, or has closed it behind its last message. *)
BridgeEnds(c) ==
  /\ BridgeAt(c, "read") /\ inbox[c] = <<>>
  /\ GoOn(c, "gone")
  /\ UNCHANGED <<outbox, conn>>
  /\ BridgeOnly

BridgeConnect(c) ==
  /\ BridgeAt(c, "connect")
  /\ \/ /\ pc # "down"
        /\ conn' = [conn EXCEPT ![c] = Connection(Enriched(c), FALSE)]
        /\ backlog' = Append(backlog, c)
        /\ GoOn(c, "send")
        /\ UNCHANGED outbox
     \/ /\ pc = "down"
        /\ Tell(c, "bridge_error")
        /\ UNCHANGED <<conn, backlog>>
  /\ UNCHANGED <<serverVars, clientVars, peer, pc, msg, reply>>

(***************************************************************************)
(* Sending on a connection the server has dropped is an error, or SIGPIPE. *)
(***************************************************************************)
BridgeSend(c) ==
  /\ BridgeAt(c, "send")
  /\ \/ /\ conn[c].up
        /\ conn' = [conn EXCEPT ![c].whole = TRUE]
        /\ GoOn(c, "wait")
        /\ UNCHANGED outbox
     \/ /\ ~conn[c].up
        /\ Tell(c, "bridge_error")
        /\ conn' = LeftBy(c)
     \/ /\ ~conn[c].up
        /\ GoOn(c, "gone")
        /\ conn' = LeftBy(c)
        /\ UNCHANGED outbox
  /\ BridgeOnly

(* Mutant of BridgeReceive: no response is a reason to ask again. *)
BridgeRetries(c) ==
  /\ BridgeAt(c, "wait")
  /\ \/ /\ conn[c].responses # <<>>
        /\ Tell(c, Head(conn[c].responses).body)
     \/ /\ conn[c].responses = <<>> /\ ~conn[c].up
        /\ GoOn(c, "connect")
        /\ UNCHANGED outbox
  /\ conn' = LeftBy(c)
  /\ BridgeOnly

(***************************************************************************)
(* A body that was cut off is passed on as it is; none at all is an error, *)
(* as is a token that was refused.                                         *)
(***************************************************************************)
BridgeReceive(c) ==
  /\ BridgeAt(c, "wait")
  /\ \/ /\ conn[c].responses # <<>>
        /\ LET response == Head(conn[c].responses)
           IN Tell(c, IF response.status = 401 \/ response.body = "nothing"
                      THEN "bridge_error" ELSE response.body)
     \/ /\ conn[c].responses = <<>> /\ ~conn[c].up
        /\ Tell(c, "bridge_error")
  /\ conn' = LeftBy(c)
  /\ BridgeOnly

(* Its client may kill the bridge at any time. *)
BridgeKilled(c) ==
  /\ ~BridgeAt(c, "gone")
  /\ GoOn(c, "gone")
  /\ conn' = LeftBy(c)
  /\ UNCHANGED outbox
  /\ BridgeOnly

-----------------------------------------------------------------------------
(***************************************************************************)
(* The others: requests the transport answers for itself, of which the     *)
(* last part may be long in coming, and peers that leave without it.       *)
(***************************************************************************)
OthersOnly ==
  UNCHANGED <<serverVars, clientVars, outbox, bridge, peer, pc, msg, reply>>

OtherConnects(o) ==
  /\ ~conn[o].up /\ ~conn[o].open /\ pc # "down"
  /\ conn' = [conn EXCEPT ![o] = Connection(NoMessage, FALSE)]
  /\ backlog' = Append(backlog, o)
  /\ OthersOnly

OtherSends(o) ==
  /\ conn[o].open /\ ~conn[o].whole
  /\ conn' = [conn EXCEPT ![o].whole = TRUE]
  /\ UNCHANGED backlog
  /\ OthersOnly

OtherCloses(o) ==
  /\ conn[o].open
  /\ conn' = LeftBy(o)
  /\ UNCHANGED backlog
  /\ OthersOnly

-----------------------------------------------------------------------------
(* The server's loop: HttpTransport::read, handle_message, write. *)
ServerOnly == UNCHANGED <<clientVars, outbox, bridge>>

Accept ==
  /\ pc = "accept" /\ backlog # <<>>
  /\ peer' = Head(backlog) /\ backlog' = Tail(backlog)
  /\ pc' = "receive"
  /\ UNCHANGED <<serverVars, conn, msg, reply>>
  /\ ServerOnly

(***************************************************************************)
(* parse.  A request that is refused has been answered by the check that   *)
(* refused it; only one that no check has answered gets the general 400.   *)
(***************************************************************************)
Requests(p) ==
  CASE p \in Others -> {"unauthorized", "get", "cross_origin", "mismatch", "no_body"}
    [] p \in Stale  -> {"post", "unauthorized"}
    [] OTHER        -> {"post"}

OwnAnswer(request) ==
  CASE request = "unauthorized" -> <<401>>
    [] request = "get"          -> <<405>>
    [] request = "cross_origin" -> <<403>>
    [] request = "mismatch"     -> <<400>>
    [] OTHER                    -> <<>>

(* Mutant of Refusals: the general 400 follows every refusal. *)
RefusalsTwice(request) == OwnAnswer(request) \o <<400>>

Refusals(request) ==
  OwnAnswer(request) \o (IF OwnAnswer(request) = <<>> THEN <<400>> ELSE <<>>)

Responded(p, responses) ==
  LET k == conn[p]
  IN [conn EXCEPT ![p] = Hung([k EXCEPT !.up = FALSE,
                                        !.responses = k.responses \o responses])]

BackToAccept == pc' = "accept" /\ peer' = Nobody /\ reply' = NoReply

(* Mutant of Receive: a peer that has left is waited for. *)
ReceiveWaits ==
  /\ pc = "receive"
  /\ conn[peer].whole
  /\ \/ /\ \E request \in Requests(peer) \ {"post"} :
             conn' = Responded(peer, [i \in DOMAIN Refusals(request) |->
                       [status |-> Refusals(request)[i], body |-> "rpc_error"]])
        /\ BackToAccept
        /\ UNCHANGED msg
     \/ /\ "post" \in Requests(peer)
        /\ msg' = conn[peer].m
        /\ pc' = "handle"
        /\ UNCHANGED <<conn, peer, reply>>
  /\ UNCHANGED <<serverVars, backlog>>
  /\ ServerOnly

Receive ==
  /\ pc = "receive"
  /\ \/ /\ ~conn[peer].whole /\ ~conn[peer].open
        /\ conn' = [conn EXCEPT ![peer] = NoConnection]
        /\ BackToAccept
        /\ UNCHANGED msg
     \/ /\ conn[peer].whole
        /\ \E request \in Requests(peer) \ {"post"} :
             conn' = Responded(peer, [i \in DOMAIN Refusals(request) |->
                       [status |-> Refusals(request)[i], body |-> "rpc_error"]])
        /\ BackToAccept
        /\ UNCHANGED msg
     \/ /\ conn[peer].whole /\ "post" \in Requests(peer)
        /\ msg' = conn[peer].m
        /\ pc' = "handle"
        /\ UNCHANGED <<conn, peer, reply>>
  /\ UNCHANGED <<serverVars, backlog>>
  /\ ServerOnly

Handle ==
  /\ pc = "handle"
  /\ \E r \in {Reply(msg, kind) : kind \in Kinds} \cup {NoReply} :
       HandleMessage(msg, r) /\ reply' = r
  /\ pc' = "write"
  /\ msg' = NoMessage
  /\ UNCHANGED <<conn, backlog, peer>>
  /\ ServerOnly

(* Nothing to say is 202 and an empty body. *)
Write ==
  /\ pc = "write"
  /\ conn' = Responded(peer,
       <<[status |-> IF reply = NoReply THEN 202 ELSE 200, body |-> reply.kind]>>)
  /\ BackToAccept
  /\ UNCHANGED <<serverVars, backlog, msg>>
  /\ ServerOnly

(***************************************************************************)
(* The process dies: killed by SIGTERM, which setup sends it and launchd   *)
(* at a log-out, or by SIGPIPE when it writes to a peer that has left.  It *)
(* releases nothing, and every connection is dropped with it, the response *)
(* on the last of them perhaps in the middle.                              *)
(***************************************************************************)
Dropped(connections) ==
  [p \in Peers |-> Hung([connections[p] EXCEPT !.up = FALSE])]

Die ==
  /\ pc # "down"
  /\ \/ conn' = Dropped(conn)
     \/ /\ pc = "write"
        /\ conn' = Dropped(Responded(peer, <<[status |-> 200, body |-> "truncated"]>>))
  /\ legacySession' = FALSE /\ session' = FALSE /\ ledger' = {}
  /\ pc' = "down" /\ peer' = Nobody /\ backlog' = <<>>
  /\ msg' = NoMessage /\ reply' = NoReply
  /\ UNCHANGED <<desktop, performed>>
  /\ ServerOnly

Restart ==
  /\ pc = "down"
  /\ pc' = "accept"
  /\ UNCHANGED <<serverVars, conn, backlog, peer, msg, reply>>
  /\ ServerOnly

-----------------------------------------------------------------------------
BridgeStep(c) ==
  BridgeRead(c) \/ BridgeConnect(c) \/ BridgeSend(c) \/ BridgeReceive(c)
ClientStep(c) ==
  (\E s \in Shapes : Send(c, s)) \/ BridgeEnds(c) \/ BridgeKilled(c)
OtherStep(o) == OtherConnects(o) \/ OtherSends(o) \/ OtherCloses(o)
ServerStep == Accept \/ Receive \/ Handle \/ Write

Next ==
  \/ \E c \in Clients : BridgeStep(c) \/ ClientStep(c)
  \/ \E o \in Others : OtherStep(o)
  \/ ServerStep \/ Die \/ Restart

(***************************************************************************)
(* Processes that run take their next step, and launchd restarts the       *)
(* server.  The last conjunct is about the environment: the code has no    *)
(* timeout on a connection, so it relies on its peers to send the rest of  *)
(* a request or to leave.                                                  *)
(***************************************************************************)
Spec ==
  /\ Init /\ [][Next]_vars
  /\ \A c \in Clients : WF_vars(BridgeStep(c))
  /\ WF_vars(ServerStep) /\ WF_vars(Restart)
  /\ \A o \in Others : WF_vars(OtherCloses(o))

-----------------------------------------------------------------------------
(* Type correctness of the server's side. *)
TypeOK ==
  /\ ServerTypeOK
  /\ backlog \in Seq(Peers) /\ peer \in Peers \cup {Nobody}
  /\ pc \in {"accept", "receive", "handle", "write", "down"}
  /\ peer = Nobody <=> pc \in {"accept", "down"}
  /\ \A c \in Clients : outbox[c] \in Seq([n : 1 .. MaxSent, kind : Kinds \cup {"truncated"}])

(***************************************************************************)
(* No connection is answered twice: "sending a second response on the same *)
(* socket corrupts the exchange" (comment in HttpTransport::read).         *)
(***************************************************************************)
OneResponsePerConnection == \A p \in Peers : Len(conn[p].responses) <= 1

(***************************************************************************)
(* While the server lives its ledger accounts for everything it has put    *)
(* down: only its death can leave something on the desktop that no later   *)
(* release_all will let go of.                                             *)
(***************************************************************************)
OnlyDeathOrphans ==
  [][desktop' \ ledger' \subseteq desktop \ ledger \/ pc' = "down"]_vars

(***************************************************************************)
(* Every request is answered or its bridge is gone: whatever the others do *)
(* with their connections, and however often the server dies.              *)
(***************************************************************************)
Asked(c, n) == \E i \in DOMAIN inbox[c] : inbox[c][i].n = n /\ ExpectsLine(inbox[c][i])
RequestsAreAnswered ==
  \A c \in Clients, n \in 1 .. MaxSent :
    Asked(c, n) ~> (BridgeAt(c, "gone") \/ \E i \in DOMAIN outbox[c] : outbox[c][i].n = n)

(***************************************************************************)
(* The service keeps the promises of RequestReply: a message waits while   *)
(* it is in the pipe to its bridge or in the bridge's hands.               *)
(***************************************************************************)
IsCall(m) == m.form = "call"
Waiting(c) == IF bridge[c].msg = NoMessage THEN inbox[c]
              ELSE <<bridge[c].msg>> \o inbox[c]

Abstract == INSTANCE RequestReply WITH
  Expects <- ExpectsLine,
  Runs <- IsCall,
  Kinds <- Kinds \cup {"truncated"},
  waiting <- [c \in Clients |-> Waiting(c)],
  replies <- outbox,
  ran <- {performed[i] : i \in DOMAIN performed},
  gone <- {c \in Clients : BridgeAt(c, "gone")}

KeepsThePromise == Abstract!RRSpec

(* A call is never run twice, however often a process dies or is retried. *)
RunAtMostOnce ==
  \A i, j \in DOMAIN performed : performed[i] = performed[j] => i = j
=============================================================================
